------------------------------ MODULE Auction ------------------------------
(***************************************************************************)
(* The integer allocation model of mechanism_cuopt: compile_model turns an *)
(* auction (model.py) into capacity rows over binary variables, one per    *)
(* offer (optimization.py).  Feasible is the meaning the rows must have,   *)
(* stated tick by tick: no slice is used twice, no host gives more cores   *)
(* than it has, no tenant wins twice.                                      *)
(*                                                                         *)
(* An auction is a record of horizon, capacity (cores of each host), slots *)
(* (the inventory slices), hbm (the memory of each slice), tenants, and    *)
(* offers, a sequence in the order of the sorted offer identifiers.  An    *)
(* offer is a record of tenant, value, start, end, slots, hbm (what it     *)
(* claims of each of its slices) and cores (a function from the hosts it   *)
(* names).  A choice of offers is the set of the indices whose bit is one. *)
(* The settlement and the search (Settlement, BranchBound) are about one   *)
(* auction.                                                                *)
(***************************************************************************)
EXTENDS Integers, Sequences, FiniteSets, FiniteSetsExt, Functions

CONSTANT Instances   \* the auctions that may be settled

VARIABLE auction     \* LinearModel and its auction: one of Instances, and it stays that

None == "none"

Indices(a) == DOMAIN a.offers

\* What parse_auction guarantees of an auction: every reference is to something known,
\* every offer runs for a time within the horizon, and no request exceeds its slice or
\* its host.
OfferOK(a, o) ==
  /\ {"tenant", "value", "start", "end", "slots", "hbm", "cores"} \subseteq DOMAIN o
  /\ o.tenant \in a.tenants /\ o.value \in Nat
  /\ o.start \in Nat /\ o.end \in Nat /\ o.start < o.end /\ o.end <= a.horizon
  /\ o.slots \subseteq a.slots
  /\ DOMAIN o.cores \subseteq DOMAIN a.capacity
  /\ \A p \in o.slots : o.hbm[p] \in Nat /\ o.hbm[p] <= a.hbm[p]
  /\ \A h \in DOMAIN o.cores : o.cores[h] \in Nat /\ o.cores[h] <= a.capacity[h]

AuctionOK(a) ==
  /\ {"horizon", "capacity", "slots", "hbm", "tenants", "rank", "offers"} \subseteq DOMAIN a
  /\ a.horizon \in Nat
  /\ IsFiniteSet(a.tenants) /\ a.tenants # {} /\ None \notin a.tenants
  /\ \A t \in a.tenants : a.rank[t] \in Nat
  /\ \A s, t \in a.tenants : a.rank[s] = a.rank[t] => s = t
  /\ \A p \in a.slots : a.hbm[p] \in Nat
  /\ \A h \in DOMAIN a.capacity : a.capacity[h] \in Nat
  /\ Len(a.offers) \in Nat /\ Indices(a) = 1 .. Len(a.offers)
  /\ \A i \in Indices(a) : OfferOK(a, a.offers[i])

ASSUME AuctionAssumption == \A a \in Instances : AuctionOK(a)

\* sorted(S): the members of a finite set, in the order of the relation R.
Sorted(S, R) ==
  CHOOSE s \in [1 .. Cardinality(S) -> S] :
    \A i, j \in 1 .. Cardinality(S) : i < j => <<s[i], s[j]>> \in R

Active(o, start, end) == o.start < end /\ start < o.end

\* The points where occupancy can change, and the segments between neighbours.
Events(a) == {a.offers[i].start : i \in Indices(a)} \cup {a.offers[i].end : i \in Indices(a)}

Segments(a) ==
  {s \in Events(a) \X Events(a) :
     s[1] < s[2] /\ ~ \E e \in Events(a) : s[1] < e /\ e < s[2]}

ActiveIn(a, s) == {i \in Indices(a) : Active(a.offers[i], s[1], s[2])}

\* A row bounds the sum of its terms; the set keeps one of equal rows, as "seen" does.
Row(name, terms, capacity) == [name |-> name, terms |-> terms, capacity |-> capacity]

OffersOf(a, t) == {i \in Indices(a) : a.offers[i].tenant = t}

TenantRows(a) ==
  {r \in {Row(<<"tenant", t>>, [i \in OffersOf(a, t) |-> 1], 1) : t \in a.tenants} : DOMAIN r.terms # {}}

SliceRows(a) ==
  {r \in {Row(<<"slice", p>>, [i \in {j \in ActiveIn(a, s) : p \in a.offers[j].slots} |-> 1], 1) :
            p \in a.slots, s \in Segments(a)} : DOMAIN r.terms # {}}

CoresAt(o, h) == IF h \in DOMAIN o.cores THEN o.cores[h] ELSE 0

CpuRows(a) ==
  {r \in {Row(<<"cpu", h>>,
              [i \in {j \in ActiveIn(a, s) : CoresAt(a.offers[j], h) > 0} |-> CoresAt(a.offers[i], h)],
              a.capacity[h]) :
            h \in DOMAIN a.capacity, s \in Segments(a)} : DOMAIN r.terms # {}}

CompileModel(a) == TenantRows(a) \cup SliceRows(a) \cup CpuRows(a)

Load(r, choice) == SumFunctionOnSet(r.terms, choice \cap DOMAIN r.terms)

\* LinearModel.feasible
RowsFeasible(a, rows, choice, excluded) ==
  /\ \A i \in choice : a.offers[i].tenant # excluded
  /\ \A r \in rows : Load(r, choice) <= r.capacity

Values(a) == [i \in Indices(a) |-> a.offers[i].value]
Welfare(a, choice) == SumFunctionOnSet(Values(a), choice)

-----------------------------------------------------------------------------
(* What the rows are for, from the inventory and the intervals alone.      *)
Running(a, choice, tick) ==
  {i \in choice : a.offers[i].start <= tick /\ tick < a.offers[i].end}

Feasible(a, choice) ==
  /\ \A i, j \in choice : a.offers[i].tenant = a.offers[j].tenant => i = j
  /\ \A tick \in 0 .. a.horizon - 1 :
       /\ \A i, j \in Running(a, choice, tick) :
            a.offers[i].slots \cap a.offers[j].slots # {} => i = j
       /\ \A h \in DOMAIN a.capacity :
            SumFunctionOnSet([i \in Indices(a) |-> CoresAt(a.offers[i], h)], Running(a, choice, tick))
              <= a.capacity[h]

Allowed(a, excluded) ==
  {c \in SUBSET {i \in Indices(a) : a.offers[i].tenant # excluded} : Feasible(a, c)}

\* The order of masks as binary numbers, the first offer being the lowest bit.
MaskLess(c, d) == c # d /\ Max(SymDiff(c, d)) \in d

\* The documented outcome: greatest welfare, then the smallest mask.
Beats(a, c, d) ==
  \/ Welfare(a, c) > Welfare(a, d)
  \/ Welfare(a, c) = Welfare(a, d) /\ MaskLess(c, d)

Optimum(a, excluded) ==
  CHOOSE c \in Allowed(a, excluded) : \A d \in Allowed(a, excluded) : c # d => Beats(a, c, d)
=============================================================================
