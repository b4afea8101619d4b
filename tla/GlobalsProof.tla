---------------------------- MODULE GlobalsProof ----------------------------
(***************************************************************************)
(* The global environment, for any names, entries and hash: rows and index *)
(* of every version agree, and to callers the environment is a sequence of *)
(* maps (GlobalMap).  The heaps of cells are parameters of the lemmas, so  *)
(* that they speak of the cells before and after a step alike.             *)
(***************************************************************************)
EXTENDS Globals, FiniteSetTheorems, WellFoundedInduction, TLAPS

-----------------------------------------------------------------------------
(* Numbers.                                                                *)

\* A set of numbers that is not empty has a least member.
LEMMA LeastMember ==
  ASSUME NEW S \in SUBSET Nat, S # {}
  PROVE  \E k \in S : \A j \in S : k <= j
<1>1. PICK n \in S : TRUE
  OBVIOUS
<1> DEFINE B == {0..k : k \in {k \in S : k <= n}}
           U == 0..n
<1>2. IsFiniteSet(U)
  BY FS_Interval
<1>3. B # {} /\ \A T \in B : T \subseteq U
  BY <1>1
<1>4. \E T \in B : \A V \in B : ~(<<V, T>> \in StrictSubsetOrdering(U))
  <2>1. IsWellFoundedOn(StrictSubsetOrdering(U), FiniteSubsetsOf(U))
    BY FS_StrictSubsetOrderingWellFounded
  <2>2. B \subseteq FiniteSubsetsOf(U)
    BY <1>2, <1>3, FS_Subset DEF FiniteSubsetsOf
  <2> HIDE DEF B, U
  <2> QED
    BY <1>3, <2>1, <2>2, WFMin
<1>5. PICK k \in S : k <= n /\ \A V \in B : ~(<<V, 0..k>> \in StrictSubsetOrdering(U))
  BY <1>4
<1>6. ASSUME NEW j \in S, j < k PROVE FALSE
  <2>1. 0..j \in B /\ 0..j \subseteq U /\ 0..k \subseteq U
    BY <1>1, <1>5, <1>6
  <2>2. 0..j \subseteq 0..k /\ k \in 0..k /\ k \notin 0..j
    BY <1>6
  <2> QED
    BY <1>5, <2>1, <2>2 DEF StrictSubsetOrdering
<1> QED
  BY <1>6

\* First gives the least member.
LEMMA FirstIsLeast ==
  ASSUME NEW S \in SUBSET Nat, S # {}
  PROVE  First(S) \in S /\ \A j \in S : First(S) <= j
  BY LeastMember DEF First

\* Induction, as a fact about the set of the numbers for which something holds.
LEMMA Induction ==
  ASSUME NEW Good, 0 \in Good, \A n \in Nat : n \in Good => n + 1 \in Good
  PROVE  \A n \in Nat : n \in Good
<1> DEFINE Bad == {n \in Nat : n \notin Good}
<1> SUFFICES ASSUME Bad # {} PROVE FALSE
  OBVIOUS
<1>1. PICK n \in Bad : \A m \in Bad : n <= m
  <2> HIDE DEF Bad
  <2>1. Bad \in SUBSET Nat
    BY DEF Bad
  <2> QED
    BY <2>1, LeastMember
<1>2. n # 0 /\ n \in Nat
  BY <1>1
<1>3. n - 1 \in Nat /\ n - 1 \notin Bad
  BY <1>1, <1>2
<1> QED
  BY <1>1, <1>2, <1>3

\* How many numbers there are up to n.
LEMMA Count == \A n \in Nat : IsFiniteSet(1..n) /\ Cardinality(1..n) = n
<1> TAKE n \in Nat
<1>1. 1 \in Int /\ n \in Int /\ (1 > n => n = 0) /\ n - 1 + 1 = n
  OBVIOUS
<1> QED
  BY <1>1, FS_Interval

-----------------------------------------------------------------------------
(* Lists of cells.                                                         *)
AfterIn(s, k) == IF k < Len(s) THEN s[k + 1] ELSE NULL

\* From p the rests lead along s and end.
Chain(cells, p, s) ==
  /\ s \in Seq(1..Len(cells))
  /\ p = AfterIn(s, 0)
  /\ \A k \in 1..Len(s) : cells[s[k]].rest = AfterIn(s, k)

RestOf(cells) == [q \in 0..Len(cells) |-> IF q = NULL THEN NULL ELSE cells[q].rest]
IsWalk(cells, p, at) == at = [k \in Nat |-> IF k = 0 THEN p ELSE RestOf(cells)[at[k - 1]]]

\* A walk is a recursive function, chosen by its equation.
LEMMA WalkIsChosen ==
  ASSUME NEW cells, NEW p
  PROVE  Walk(cells, p) = CHOOSE at : IsWalk(cells, p, at)
  BY DEF Walk, IsWalk, RestOf

\* A walk from the head of a list meets its cells in their order, and then NULL.
LEMMA WalkAlong ==
  ASSUME NEW cells, Len(cells) \in Nat, NEW p, NEW s, Chain(cells, p, s)
  PROVE  \A k \in Nat : Walk(cells, p)[k] = AfterIn(s, k)
<1> DEFINE h == [k \in Nat |-> AfterIn(s, k)]
<1>1. Len(s) \in Nat /\ \A k \in 1..Len(s) : s[k] \in 1..Len(cells)
  BY DEF Chain
<1>2. ASSUME NEW k \in Nat, k # 0
      PROVE  RestOf(cells)[h[k - 1]] = h[k]
  <2>1. k - 1 \in Nat /\ h[k - 1] = AfterIn(s, k - 1) /\ h[k] = AfterIn(s, k)
    BY <1>2
  <2>2. CASE k <= Len(s)
    <3>1. k \in 1..Len(s) /\ AfterIn(s, k - 1) = s[k]
      BY <1>1, <1>2, <2>2 DEF AfterIn
    <3>2. RestOf(cells)[s[k]] = cells[s[k]].rest
      BY <1>1, <3>1 DEF RestOf, NULL
    <3> QED
      BY <2>1, <3>1, <3>2 DEF Chain
  <2>3. CASE ~(k <= Len(s))
    <3>1. AfterIn(s, k - 1) = NULL /\ AfterIn(s, k) = NULL
      BY <1>1, <1>2, <2>3 DEF AfterIn
    <3> QED
      BY <2>1, <3>1 DEF RestOf, NULL
  <2> QED
    BY <2>2, <2>3
<1>3. IsWalk(cells, p, h)
  <2>1. h[0] = p
    BY DEF Chain
  <2>2. \A k \in Nat : h[k] = IF k = 0 THEN p ELSE RestOf(cells)[h[k - 1]]
    BY <1>2, <2>1
  <2> QED
    BY <2>2 DEF IsWalk
<1> DEFINE at == Walk(cells, p)
<1>4. IsWalk(cells, p, at)
  BY <1>3, WalkIsChosen
<1> DEFINE Good == {k \in Nat : at[k] = AfterIn(s, k)}
<1>5. 0 \in Good
  BY <1>4 DEF IsWalk, Chain
<1>6. ASSUME NEW k \in Nat, k \in Good PROVE k + 1 \in Good
  <2>1. at[k + 1] = RestOf(cells)[at[k]]
    BY <1>4 DEF IsWalk
  <2>2. RestOf(cells)[h[k]] = h[k + 1]
    BY <1>2
  <2> QED
    BY <1>6, <2>1, <2>2
<1>7. \A k \in Nat : k \in Good
  <2> HIDE DEF Good
  <2> QED
    BY <1>5, <1>6, Induction
<1> QED
  BY <1>7

\* A list meets no cell twice.
LEMMA ChainDistinct ==
  ASSUME NEW cells, Len(cells) \in Nat, NEW p, NEW s, Chain(cells, p, s),
         NEW i \in 1..Len(s), NEW j \in 1..Len(s), s[i] = s[j]
  PROVE  i = j
<1>1. Len(s) \in Nat /\ \A k \in 1..Len(s) : s[k] \in 1..Len(cells)
  BY DEF Chain
<1> DEFINE Twice == {n \in 0..Len(s) : \E k \in 1..(Len(s) - n) : k < Len(s) - n /\ s[k] = s[Len(s) - n]}
<1>2. SUFFICES ASSUME Twice # {} PROVE FALSE
  <2>1. CASE i < j
    <3>1. Len(s) - j \in Twice
      BY <1>1, <2>1
    <3> QED
      BY <3>1
  <2>2. CASE j < i
    <3>1. Len(s) - i \in Twice
      BY <1>1, <2>2
    <3> QED
      BY <3>1
  <2> QED
    BY <1>1, <2>1, <2>2
<1>3. PICK n \in Twice : \A m \in Twice : n <= m
  <2>1. Twice \in SUBSET Nat
    BY <1>1
  <2> HIDE DEF Twice
  <2> QED
    BY <1>2, <2>1, LeastMember
<1>4. PICK k \in 1..(Len(s) - n) : k < Len(s) - n /\ s[k] = s[Len(s) - n]
  BY <1>3
<1> DEFINE l == Len(s) - n
<1>5. k \in Nat /\ l \in Nat /\ k >= 1 /\ k < l /\ l <= Len(s) /\ n \in Nat /\ s[k] = s[l]
  BY <1>1, <1>3, <1>4
<1>a. k + 1 \in 1..Len(s) /\ k \in 1..Len(s) /\ l \in 1..Len(s)
  BY <1>1, <1>5
<1> HIDE DEF l
<1>6. AfterIn(s, k) = AfterIn(s, l)
  BY <1>5, <1>a DEF Chain
<1>7. AfterIn(s, k) = s[k + 1] /\ s[k + 1] # NULL
  BY <1>1, <1>5, <1>a DEF AfterIn, NULL
<1>8. l < Len(s) /\ s[k + 1] = s[l + 1]
  BY <1>6, <1>7 DEF AfterIn
<1>9. n - 1 \in Twice
  <2>1. n = Len(s) - l
    BY <1>1, <1>5 DEF l
  <2>2. n - 1 \in 0..Len(s) /\ Len(s) - (n - 1) = l + 1 /\ k + 1 \in 1..(l + 1) /\ k + 1 < l + 1
    BY <1>1, <1>5, <1>8, <2>1
  <2> QED
    BY <1>8, <2>2
<1>b. n <= n - 1
  <2> HIDE DEF Twice
  <2> QED
    BY <1>3, <1>9
<1> QED
  BY <1>5, <1>b

\* So it is no longer than the heap.
LEMMA ChainBound ==
  ASSUME NEW cells, Len(cells) \in Nat, NEW p, NEW s, Chain(cells, p, s)
  PROVE  Len(s) \in Nat /\ Len(s) <= Len(cells)
<1>1. Len(s) \in Nat /\ s \in [1..Len(s) -> 1..Len(cells)]
  BY DEF Chain
<1>2. \A i, j \in 1..Len(s) : s[i] = s[j] => i = j
  BY ChainDistinct
<1>3. s \in Injection(1..Len(s), 1..Len(cells))
  BY <1>1, <1>2 DEF Injection, IsInjective
<1>4. IsFiniteSet(1..Len(cells)) /\ Cardinality(1..Len(cells)) = Len(cells)
      /\ Cardinality(1..Len(s)) = Len(s)
  BY <1>1, Count
<1>5. Cardinality(1..Len(s)) <= Cardinality(1..Len(cells))
  BY <1>3, <1>4, FS_Injection
<1> QED
  BY <1>1, <1>4, <1>5

\* The path of a list is the sequence of its cells.
LEMMA PathAlong ==
  ASSUME NEW cells, Len(cells) \in Nat, NEW p, NEW s, Chain(cells, p, s)
  PROVE  Path(cells, p) = s
<1> DEFINE at == Walk(cells, p)
           Ends(n) == at[n] = NULL /\ \A m \in 0..(n - 1) : at[m] # NULL
           length == CHOOSE n \in 0..Len(cells) : Ends(n)
<1>1. \A k \in Nat : at[k] = AfterIn(s, k)
  BY WalkAlong
<1>2. Len(s) \in 0..Len(cells) /\ \A k \in 1..Len(s) : s[k] \in 1..Len(cells)
  BY ChainBound DEF Chain
<1>3. Ends(Len(s))
  <2>1. at[Len(s)] = NULL
    BY <1>1, <1>2 DEF AfterIn
  <2>2. ASSUME NEW m \in 0..(Len(s) - 1) PROVE at[m] # NULL
    BY <1>1, <1>2 DEF AfterIn, NULL
  <2> QED
    BY <2>1, <2>2
<1>4. \A n \in 0..Len(cells) : Ends(n) => n = Len(s)
  <2> SUFFICES ASSUME NEW n \in 0..Len(cells), Ends(n) PROVE n = Len(s)
    OBVIOUS
  <2>1. ~(n < Len(s))
    BY <1>2, <1>3
  <2>2. ~(Len(s) < n)
    BY <1>2, <1>3
  <2> QED
    BY <1>2, <2>1, <2>2
<1>5. length = Len(s)
  <2> HIDE DEF Ends
  <2> QED
    BY <1>2, <1>3, <1>4
<1>6. Path(cells, p) = [k \in 1..length |-> at[k - 1]]
  BY DEF Path
<1>7. Path(cells, p) = [k \in 1..Len(s) |-> s[k]]
  <2> HIDE DEF length
  <2>1. \A k \in 1..Len(s) : at[k - 1] = s[k]
    BY <1>1, <1>2 DEF AfterIn
  <2> HIDE DEF at
  <2> QED
    BY <1>5, <1>6, <2>1
<1> QED
  BY <1>7 DEF Chain

-----------------------------------------------------------------------------
(* Lookups.                                                                *)
Stop(at, hits, n) == at[n] = NULL \/ at[n] \in hits
StopsAt(cells, at, hits, n) ==
  n \in 0..Len(cells) /\ Stop(at, hits, n) /\ \A m \in 0..(n - 1) : ~Stop(at, hits, m)

\* A search along a list stops, at its end or at the first cell it looks for.
LEMMA SearchStops ==
  ASSUME NEW cells, Len(cells) \in Nat, NEW p, NEW s, Chain(cells, p, s), NEW hits
  PROVE  \E n : StopsAt(cells, Walk(cells, p), hits, n)
<1> DEFINE at == Walk(cells, p)
           S == {n \in 0..Len(cells) : Stop(at, hits, n)}
<1>1. Len(s) \in S
  BY WalkAlong, ChainBound DEF Stop, AfterIn
<1>2. S \in SUBSET Nat
  OBVIOUS
<1>3. PICK n \in S : \A m \in S : n <= m
  <2> HIDE DEF S
  <2> QED
    BY <1>1, <1>2, LeastMember
<1>4. \A m \in 0..(n - 1) : m \notin S /\ m \in 0..Len(cells)
  <2> SUFFICES ASSUME NEW m \in 0..(n - 1) PROVE m \notin S /\ m \in 0..Len(cells)
    OBVIOUS
  <2>1. n \in 0..Len(cells)
    BY <1>3
  <2>2. m \in Nat /\ m < n
    BY <2>1
  <2>3. m \notin S
    <3> HIDE DEF S
    <3> QED
      BY <1>3, <2>1, <2>2
  <2> QED
    BY <2>1, <2>2, <2>3
<1> QED
  BY <1>3, <1>4 DEF StopsAt

\* A search along a list stops at its first cell that is looked for, or at NULL if there is none.
LEMMA SearchFinds ==
  ASSUME NEW cells, Len(cells) \in Nat, NEW p, NEW s, Chain(cells, p, s), NEW hits,
         NEW n, StopsAt(cells, Walk(cells, p), hits, n)
  PROVE  \/ Walk(cells, p)[n] = NULL /\ \A k \in 1..Len(s) : s[k] \notin hits
         \/ \E k \in 1..Len(s) : /\ Walk(cells, p)[n] = s[k] /\ s[k] \in hits
                                 /\ \A j \in 1..(k - 1) : s[j] \notin hits
<1> DEFINE at == Walk(cells, p)
<1>1. \A k \in Nat : at[k] = AfterIn(s, k)
  BY WalkAlong
<1>2. Len(s) \in Nat /\ \A k \in 1..Len(s) : s[k] \in 1..Len(cells)
  BY DEF Chain
<1>3. n \in Nat /\ Stop(at, hits, n) /\ \A m \in 0..(n - 1) : ~Stop(at, hits, m)
  BY DEF StopsAt
<1> HIDE DEF at
<1>4. \A k \in 1..Len(s) : at[k - 1] = s[k]
  BY <1>1, <1>2 DEF AfterIn
<1>5. \A k \in 1..Len(s) : k - 1 < n => s[k] \notin hits
  <2> SUFFICES ASSUME NEW k \in 1..Len(s), k - 1 < n PROVE s[k] \notin hits
    OBVIOUS
  <2>1. k - 1 \in 0..(n - 1)
    BY <1>2, <1>3
  <2> QED
    BY <1>3, <1>4, <2>1 DEF Stop
<1>6. at[Len(s)] = NULL
  BY <1>1, <1>2 DEF AfterIn
<1>7. n <= Len(s)
  <2> SUFFICES ASSUME Len(s) < n PROVE FALSE
    BY <1>2, <1>3
  <2>1. Len(s) \in 0..(n - 1)
    BY <1>2, <1>3
  <2> QED
    BY <1>3, <1>6, <2>1 DEF Stop
<1>8. CASE n = Len(s)
  <2>1. \A k \in 1..Len(s) : s[k] \notin hits
    BY <1>2, <1>5, <1>8
  <2> QED
    BY <1>6, <1>8, <2>1 DEF at
<1>9. CASE n # Len(s)
  <2>1. n + 1 \in 1..Len(s)
    BY <1>2, <1>3, <1>7, <1>9
  <2>2. at[n] = s[n + 1]
    BY <1>3, <1>4, <2>1
  <2>3. s[n + 1] # NULL
    BY <1>2, <2>1 DEF NULL
  <2>4. s[n + 1] \in hits
    BY <1>3, <2>2, <2>3 DEF Stop
  <2>5. \A j \in 1..((n + 1) - 1) : s[j] \notin hits
    BY <1>2, <1>3, <1>5, <1>7
  <2> QED
    BY <2>1, <2>2, <2>4, <2>5 DEF at
<1> QED
  BY <1>8, <1>9

\* The row of a name: NULL if no row of the list has it, the first one that has it otherwise.
LEMMA FindRowIs ==
  ASSUME NEW cells, Len(cells) \in Nat, NEW p, NEW s, Chain(cells, p, s), NEW name
  PROVE  \/ FindRow(cells, p, name) = NULL /\ \A k \in 1..Len(s) : cells[s[k]].name # name
         \/ \E k \in 1..Len(s) : FindRow(cells, p, name) = s[k] /\ cells[s[k]].name = name
<1> DEFINE at == Walk(cells, p)
           hits == {q \in 1..Len(cells) : cells[q].name = name}
           Stops(n) == at[n] = NULL \/ cells[at[n]].name = name
           Good(n) == Stops(n) /\ \A m \in 0..(n - 1) : ~Stops(m)
<1>1. \A k \in 1..Len(s) : s[k] \in 1..Len(cells)
  BY DEF Chain
<1>2. \A n \in Nat : Stops(n) <=> Stop(at, hits, n)
  <2> TAKE n \in Nat
  <2>1. at[n] = AfterIn(s, n)
    BY WalkAlong
  <2>2. AfterIn(s, n) = NULL \/ AfterIn(s, n) \in 1..Len(cells)
    BY DEF Chain, AfterIn
  <2> QED
    BY <2>1, <2>2 DEF Stop
<1>3. \A n \in 0..Len(cells) : Good(n) <=> StopsAt(cells, at, hits, n)
  <2> TAKE n \in 0..Len(cells)
  <2>1. n \in Nat /\ \A m \in 0..(n - 1) : m \in Nat
    OBVIOUS
  <2> HIDE DEF Stops, at, hits
  <2>2. Stops(n) <=> Stop(at, hits, n)
    BY <1>2, <2>1
  <2>3. \A m \in 0..(n - 1) : Stops(m) <=> Stop(at, hits, m)
    BY <1>2, <2>1
  <2> QED
    BY <2>2, <2>3 DEF StopsAt
<1>4. \E n \in 0..Len(cells) : Good(n)
  <2>1. PICK n : StopsAt(cells, at, hits, n)
    BY SearchStops
  <2>2. n \in 0..Len(cells)
    BY <2>1 DEF StopsAt
  <2> QED
    BY <1>3, <2>1, <2>2
<1> DEFINE n == CHOOSE n \in 0..Len(cells) : Good(n)
<1>5. StopsAt(cells, at, hits, n)
  <2>1. n \in 0..Len(cells) /\ Good(n)
    <3> HIDE DEF Good
    <3> QED
      BY <1>4
  <2> QED
    BY <1>3, <2>1
<1>6. FindRow(cells, p, name) = at[n]
  BY DEF FindRow
<1> HIDE DEF n, at
<1>7. \/ at[n] = NULL /\ \A k \in 1..Len(s) : s[k] \notin hits
      \/ \E k \in 1..Len(s) : at[n] = s[k] /\ s[k] \in hits
  BY <1>5, SearchFinds DEF at
<1> QED
  BY <1>1, <1>6, <1>7

\* The leaf of a key likewise.
LEMMA LeafFindIs ==
  ASSUME NEW cells, Len(cells) \in Nat, NEW p, NEW s, Chain(cells, p, s), NEW key
  PROVE  \/ LeafFind(cells, p, key) = NULL /\ \A k \in 1..Len(s) : cells[s[k]].key # key
         \/ \E k \in 1..Len(s) : LeafFind(cells, p, key) = s[k] /\ cells[s[k]].key = key
<1> DEFINE at == Walk(cells, p)
           hits == {q \in 1..Len(cells) : cells[q].key = key}
           Stops(n) == at[n] = NULL \/ cells[at[n]].key = key
           Good(n) == Stops(n) /\ \A m \in 0..(n - 1) : ~Stops(m)
<1>1. \A k \in 1..Len(s) : s[k] \in 1..Len(cells)
  BY DEF Chain
<1>2. \A n \in Nat : Stops(n) <=> Stop(at, hits, n)
  <2> TAKE n \in Nat
  <2>1. at[n] = AfterIn(s, n)
    BY WalkAlong
  <2>2. AfterIn(s, n) = NULL \/ AfterIn(s, n) \in 1..Len(cells)
    BY DEF Chain, AfterIn
  <2> QED
    BY <2>1, <2>2 DEF Stop
<1>3. \A n \in 0..Len(cells) : Good(n) <=> StopsAt(cells, at, hits, n)
  <2> TAKE n \in 0..Len(cells)
  <2>1. n \in Nat /\ \A m \in 0..(n - 1) : m \in Nat
    OBVIOUS
  <2> HIDE DEF Stops, at, hits
  <2>2. Stops(n) <=> Stop(at, hits, n)
    BY <1>2, <2>1
  <2>3. \A m \in 0..(n - 1) : Stops(m) <=> Stop(at, hits, m)
    BY <1>2, <2>1
  <2> QED
    BY <2>2, <2>3 DEF StopsAt
<1>4. \E n \in 0..Len(cells) : Good(n)
  <2>1. PICK n : StopsAt(cells, at, hits, n)
    BY SearchStops
  <2>2. n \in 0..Len(cells)
    BY <2>1 DEF StopsAt
  <2> QED
    BY <1>3, <2>1, <2>2
<1> DEFINE n == CHOOSE n \in 0..Len(cells) : Good(n)
<1>5. StopsAt(cells, at, hits, n)
  <2>1. n \in 0..Len(cells) /\ Good(n)
    <3> HIDE DEF Good
    <3> QED
      BY <1>4
  <2> QED
    BY <1>3, <2>1
<1>6. LeafFind(cells, p, key) = at[n]
  BY DEF LeafFind
<1> HIDE DEF n, at
<1>7. \/ at[n] = NULL /\ \A k \in 1..Len(s) : s[k] \notin hits
      \/ \E k \in 1..Len(s) : at[n] = s[k] /\ s[k] \in hits
  BY <1>5, SearchFinds DEF at
<1> QED
  BY <1>1, <1>6, <1>7

-----------------------------------------------------------------------------
(* Numbers in ascending order.                                             *)

\* Place numbers a finite set from 1, and Ascending is its inverse.
LEMMA AscendingIs ==
  ASSUME NEW S \in SUBSET Nat, IsFiniteSet(S)
  PROVE  /\ Cardinality(S) \in Nat
         /\ Ascending(S) \in [1..Cardinality(S) -> S]
         /\ \A j \in 1..Cardinality(S) : Place(S, Ascending(S)[j]) = j
         /\ \A k \in S : Place(S, k) \in 1..Cardinality(S) /\ Ascending(S)[Place(S, k)] = k
<1> DEFINE N == Cardinality(S)
           To(k) == {i \in S : i <= k}
           f == [k \in S |-> Place(S, k)]
<1>1. N \in Nat
  BY FS_CardinalityType
<1>2. ASSUME NEW k \in S
      PROVE  IsFiniteSet(To(k)) /\ Cardinality(To(k)) \in 1..N
  <2>1. To(k) \in SUBSET S /\ k \in To(k)
    OBVIOUS
  <2>2. IsFiniteSet(To(k)) /\ Cardinality(To(k)) <= N
    <3> HIDE DEF To
    <3> QED
      BY <2>1, FS_Subset
  <2>3. Cardinality(To(k)) # 0 /\ Cardinality(To(k)) \in Nat
    <3> HIDE DEF To
    <3> QED
      BY <2>1, <2>2, FS_EmptySet, FS_CardinalityType
  <2> QED
    BY <1>1, <2>2, <2>3
<1>3. ASSUME NEW k \in S, NEW l \in S, k < l
      PROVE  Cardinality(To(k)) # Cardinality(To(l))
  <2>1. To(k) \in SUBSET To(l) /\ l \in To(l) /\ l \notin To(k)
    <3>1. k \in Nat /\ l \in Nat /\ \A i \in S : i \in Nat
      OBVIOUS
    <3>2. \A i \in S : i <= k => i <= l
      BY <1>3, <3>1
    <3>3. ~(l <= k) /\ l <= l
      BY <1>3, <3>1
    <3> QED
      BY <3>2, <3>3
  <2>2. IsFiniteSet(To(l))
    BY <1>2
  <2> HIDE DEF To
  <2> QED
    BY <2>1, <2>2, FS_Subset
<1>4. f \in Injection(S, 1..N)
  <2>1. f \in [S -> 1..N]
    BY <1>2 DEF Place
  <2>2. ASSUME NEW k \in S, NEW l \in S, f[k] = f[l] PROVE k = l
    <3>1. Cardinality(To(k)) = Cardinality(To(l))
      BY <2>2 DEF Place
    <3>2. ~(k < l) /\ ~(l < k)
      <4> HIDE DEF To
      <4> QED
        BY <1>3, <3>1
    <3> QED
      BY <3>2
  <2> HIDE DEF f
  <2> QED
    BY <2>1, <2>2 DEF Injection, IsInjective
<1>5. f \in Surjection(S, 1..N)
  <2>1. IsFiniteSet(1..N) /\ Cardinality(1..N) = N
    BY <1>1, Count
  <2> HIDE DEF f
  <2> QED
    BY <1>4, <2>1, FS_Injection
<1>6. \A k \in S : Place(S, k) \in 1..N /\ f[k] = Place(S, k)
  BY <1>2 DEF Place
<1>7. \A k, l \in S : Place(S, k) = Place(S, l) => k = l
  <2> HIDE DEF f
  <2> QED
    BY <1>4, <1>6 DEF Injection, IsInjective
<1>8. \A j \in 1..N : \E k \in S : Place(S, k) = j
  <2> HIDE DEF f
  <2> QED
    BY <1>5, <1>6 DEF Surjection
<1>9. ASSUME NEW j \in 1..N PROVE Ascending(S)[j] \in S /\ Place(S, Ascending(S)[j]) = j
  <2>1. Ascending(S)[j] = CHOOSE k \in S : Place(S, k) = j
    BY DEF Ascending
  <2> QED
    BY <1>8, <2>1
<1>10. Ascending(S) \in [1..N -> S]
  BY <1>9 DEF Ascending
<1> QED
  BY <1>1, <1>6, <1>7, <1>9, <1>10

-----------------------------------------------------------------------------
(* Lists in a heap that grows.                                             *)

\* All cells of c are in d, as they were.
Extends(c, d) ==
  /\ Len(c) \in Nat /\ Len(d) \in Nat /\ Len(c) <= Len(d)
  /\ \A q \in 1..Len(c) : d[q] = c[q]

\* In d the cells of more follow those of c.
Behind(c, more, d) ==
  /\ Extends(c, d) /\ Len(d) >= Len(c) + Len(more)
  /\ \A j \in 1..Len(more) : d[Len(c) + j] = more[j]

\* Cells extend themselves.
LEMMA ExtendsRefl == ASSUME NEW c, Len(c) \in Nat PROVE Extends(c, c)
  BY DEF Extends

\* Cells allocated behind those there are leave them as they are.
LEMMA ExtendsConcat ==
  ASSUME NEW X, NEW c \in Seq(X), NEW more \in Seq(X)
  PROVE  /\ c \o more \in Seq(X) /\ Extends(c, c \o more)
         /\ Len(c \o more) = Len(c) + Len(more)
         /\ \A j \in 1..Len(more) : (c \o more)[Len(c) + j] = more[j]
  BY DEF Extends

\* A list is the same list after more cells were allocated.
LEMMA ChainKept ==
  ASSUME NEW c, NEW d, Extends(c, d), NEW p, NEW s, Chain(c, p, s)
  PROVE  Chain(d, p, s) /\ \A k \in 1..Len(s) : s[k] \in 1..Len(c) /\ d[s[k]] = c[s[k]]
<1>1. s \in Seq(1..Len(c)) /\ \A k \in 1..Len(s) : s[k] \in 1..Len(c)
  BY DEF Chain
<1>2. \A k \in 1..Len(s) : d[s[k]] = c[s[k]]
  BY <1>1 DEF Extends
<1>3. s \in Seq(1..Len(d))
  BY <1>1 DEF Extends
<1> QED
  BY <1>1, <1>2, <1>3 DEF Chain

\* A cell in front of a list.
LEMMA ChainCons ==
  ASSUME NEW c, Len(c) \in Nat, NEW p, NEW s, Chain(c, p, s), NEW q \in 1..Len(c), c[q].rest = p
  PROVE  /\ Chain(c, q, <<q>> \o s)
         /\ Len(<<q>> \o s) = Len(s) + 1 /\ Len(s) \in Nat
         /\ (<<q>> \o s)[1] = q /\ \A k \in 1..Len(s) : (<<q>> \o s)[k + 1] = s[k]
<1> DEFINE t == <<q>> \o s
<1>1. s \in Seq(1..Len(c)) /\ <<q>> \in Seq(1..Len(c)) /\ Len(s) \in Nat
  BY DEF Chain
<1>2. t \in Seq(1..Len(c)) /\ Len(t) = Len(s) + 1 /\ t[1] = q
      /\ \A k \in 1..Len(s) : t[k + 1] = s[k]
  BY <1>1
<1> HIDE DEF t
<1>3. \A k \in 0..Len(s) : AfterIn(t, k + 1) = AfterIn(s, k)
  <2> TAKE k \in 0..Len(s)
  <2>1. CASE k < Len(s)
    <3>1. k + 1 \in 1..Len(s) /\ k + 1 < Len(t)
      BY <1>1, <1>2, <2>1
    <3>2. t[k + 1 + 1] = s[k + 1]
      BY <1>2, <3>1
    <3> QED
      BY <2>1, <3>1, <3>2 DEF AfterIn
  <2>2. CASE k = Len(s)
    BY <1>1, <1>2, <2>2 DEF AfterIn
  <2> QED
    BY <1>1, <2>1, <2>2
<1>4. ASSUME NEW k \in 1..Len(t) PROVE c[t[k]].rest = AfterIn(t, k)
  <2>1. CASE k = 1
    <3>1. AfterIn(t, 0 + 1) = AfterIn(s, 0)
      BY <1>1, <1>3
    <3> QED
      BY <1>2, <2>1, <3>1 DEF Chain
  <2>2. CASE k # 1
    <3>1. k - 1 \in 1..Len(s) /\ k - 1 + 1 = k /\ k - 1 \in 0..Len(s)
      BY <1>1, <1>2, <1>4, <2>2
    <3>2. t[k] = s[k - 1] /\ AfterIn(t, k) = AfterIn(s, k - 1)
      BY <1>2, <1>3, <3>1
    <3> QED
      BY <3>1, <3>2 DEF Chain
  <2> QED
    BY <2>1, <2>2
<1>5. q = AfterIn(t, 0)
  BY <1>1, <1>2 DEF AfterIn
<1> QED
  BY <1>1, <1>2, <1>4, <1>5 DEF Chain, t

-----------------------------------------------------------------------------
(* Rows.                                                                   *)
RowCell == [name : Names, entry : Entries, rest : Nat]
LeafCell == [key : Names, value : Nat, rest : Nat]

\* No two rows of a list have the same name; some row of it has this name and entry.
NamesDiffer(cells, s) ==
  \A i, j \in 1..Len(s) : cells[s[i]].name = cells[s[j]].name => i = j
HasRow(cells, s, name, entry) ==
  \E k \in 1..Len(s) : cells[s[k]].name = name /\ cells[s[k]].entry = entry

\* The first n of some items, or all if there are fewer.
LEMMA FirstNIs ==
  ASSUME NEW X, NEW items \in Seq(X), NEW n \in Nat
  PROVE  /\ FirstN(items, n) \in Seq(X)
         /\ Len(FirstN(items, n)) = IF n < Len(items) THEN n ELSE Len(items)
         /\ \A j \in 1..Len(FirstN(items, n)) : FirstN(items, n)[j] = items[j]
  BY DEF FirstN

\* The cells of RowList are rows.
LEMMA RowListType ==
  ASSUME NEW cells, Len(cells) \in Nat, NEW items \in Seq(RowCell)
  PROVE  RowList(cells, items) \in Seq(RowCell) /\ Len(RowList(cells, items)) = Len(items)
<1>1. \A j \in 1..Len(items) : items[j] \in RowCell
  OBVIOUS
<1>2. DOMAIN items = 1..Len(items) /\ Len(items) \in Nat
  OBVIOUS
<1> QED
  BY <1>1, <1>2 DEF RowList, Row, RowCell, NULL

\* The cells of RowList, behind those there are, are a list of the items in their order.
LEMMA RowListIs ==
  ASSUME NEW cells \in Seq(RowCell), NEW items \in Seq(RowCell),
         NEW d, Behind(cells, RowList(cells, items), d)
  PROVE  /\ RowList(cells, items) \in Seq(RowCell) /\ Len(RowList(cells, items)) = Len(items)
         /\ \E u : /\ Chain(d, FirstNew(cells, items), u) /\ Len(u) = Len(items)
                   /\ \A j \in 1..Len(u) : d[u[j]].name = items[j].name /\ d[u[j]].entry = items[j].entry
<1> DEFINE n == Len(cells)
           u == [j \in 1..Len(items) |-> n + j]
           list == RowList(cells, items)
<1>1. n \in Nat /\ Len(items) \in Nat /\ DOMAIN items = 1..Len(items)
  OBVIOUS
<1>2. ASSUME NEW j \in 1..Len(items)
      PROVE  /\ list[j].name = items[j].name /\ list[j].entry = items[j].entry
             /\ list[j].rest = IF j < Len(items) THEN n + j + 1 ELSE NULL
             /\ list[j] \in RowCell
  <2> DEFINE rest == IF j < Len(items) THEN n + j + 1 ELSE NULL
  <2>1. list[j] = Row(items[j].name, items[j].entry, rest)
    BY <1>1 DEF RowList
  <2>2. rest \in Nat /\ items[j] \in RowCell
    BY <1>1 DEF NULL
  <2> HIDE DEF rest, list, n, u
  <2>3. list[j].name = items[j].name /\ list[j].entry = items[j].entry /\ list[j].rest = rest
    BY <2>1 DEF Row
  <2>4. list[j] \in RowCell
    BY <2>1, <2>2 DEF Row, RowCell
  <2> QED
    BY <2>3, <2>4 DEF rest
<1>3. list = [j \in 1..Len(items) |-> list[j]]
  BY <1>1 DEF RowList
<1>4. list \in Seq(RowCell) /\ Len(list) = Len(items)
  BY <1>1, <1>2, <1>3
<1>5. Len(d) \in Nat /\ Len(d) >= n + Len(items) /\ \A j \in 1..Len(items) : d[n + j] = list[j]
  BY <1>4 DEF Behind, Extends
<1> HIDE DEF list
<1>6. u \in Seq(1..Len(d)) /\ Len(u) = Len(items) /\ \A j \in 1..Len(items) : u[j] = n + j
  BY <1>1, <1>5
<1> HIDE DEF u
<1>7. Chain(d, FirstNew(cells, items), u)
  <2>1. FirstNew(cells, items) = AfterIn(u, 0)
    <3>1. items = <<>> <=> Len(items) = 0
      OBVIOUS
    <3> QED
      BY <1>1, <1>6, <3>1 DEF FirstNew, AfterIn
  <2>2. ASSUME NEW k \in 1..Len(u) PROVE d[u[k]].rest = AfterIn(u, k)
    <3>0. k \in 1..Len(items) /\ d[u[k]] = list[k]
      BY <1>5, <1>6
    <3>1. d[u[k]].rest = IF k < Len(items) THEN n + k + 1 ELSE NULL
      BY <1>2, <3>0
    <3>2. CASE k < Len(items)
      <4>1. k + 1 \in 1..Len(items) /\ u[k + 1] = n + (k + 1)
        BY <1>1, <1>6, <3>2
      <4> QED
        BY <1>1, <1>6, <3>1, <3>2, <4>1 DEF AfterIn
    <3>3. CASE ~(k < Len(items))
      BY <1>6, <3>1, <3>3 DEF AfterIn
    <3> QED
      BY <3>2, <3>3
  <2> QED
    BY <1>6, <2>1, <2>2 DEF Chain
<1>8. \A j \in 1..Len(u) : d[u[j]].name = items[j].name /\ d[u[j]].entry = items[j].entry
  BY <1>2, <1>5, <1>6
<1> QED
  BY <1>4, <1>6, <1>7, <1>8 DEF list

\* u is, in d, the list s without a name.
LacksRow(cells, s, name, d, u) ==
  /\ NamesDiffer(cells, s) => NamesDiffer(d, u)
  /\ \A n, e : HasRow(d, u, n, e) <=> n # name /\ HasRow(cells, s, n, e)

\* RemoveRow: its cells are rows; with the room it needs they are a list of all rows of other
\* names.
LEMMA RemoveRowIs ==
  ASSUME rowCells \in Seq(RowCell), NEW p, NEW s, Chain(rowCells, p, s), NEW name, NEW room \in Nat
  PROVE  LET removed == RemoveRow(p, name, room)
         IN /\ removed.cells \in Seq(RowCell) /\ Len(removed.cells) <= room
            /\ \A d : Behind(rowCells, removed.cells, d) /\ removed.full =>
                 \E u : Chain(d, removed.first, u) /\ LacksRow(rowCells, s, name, d, u)
<1> DEFINE keep == DOMAIN s \ RowsNamed(rowCells, s, name)
           kept == Ascending(keep)
           all == [j \in DOMAIN kept |-> rowCells[s[kept[j]]]]
           items == FirstN(all, room)
           removed == RemoveRow(p, name, room)
<1>1. Path(rowCells, p) = s
  BY PathAlong
<1>2. /\ removed.cells = RowList(rowCells, items) /\ removed.first = FirstNew(rowCells, items)
      /\ removed.full = (Len(items) = Len(kept))
  BY <1>1, Zenon DEF RemoveRow
<1>3. s \in Seq(1..Len(rowCells)) /\ Len(s) \in Nat /\ DOMAIN s = 1..Len(s)
  BY DEF Chain
<1>4. keep \in SUBSET Nat /\ IsFiniteSet(keep)
  BY <1>3, Count, FS_Subset
<1>5. \A k : k \in keep <=> k \in 1..Len(s) /\ rowCells[s[k]].name # name
  BY <1>3 DEF RowsNamed
<1> HIDE DEF keep
<1>6. /\ kept \in [1..Cardinality(keep) -> keep] /\ Cardinality(keep) \in Nat
      /\ \A j \in 1..Cardinality(keep) : Place(keep, kept[j]) = j
      /\ \A k \in keep : Place(keep, k) \in 1..Cardinality(keep) /\ kept[Place(keep, k)] = k
  BY <1>4, AscendingIs
<1> HIDE DEF kept
<1>7. DOMAIN kept = 1..Cardinality(keep) /\ Len(kept) = Cardinality(keep)
  BY <1>6
<1>8. all \in Seq(RowCell) /\ Len(all) = Cardinality(keep)
      /\ \A j \in 1..Cardinality(keep) : all[j] = rowCells[s[kept[j]]]
  <2>1. \A j \in 1..Cardinality(keep) : rowCells[s[kept[j]]] \in RowCell
    BY <1>3, <1>5, <1>6
  <2> QED
    BY <1>6, <1>7, <2>1
<1> HIDE DEF all
<1>9. items \in Seq(RowCell) /\ Len(items) = (IF room < Len(all) THEN room ELSE Len(all))
      /\ \A j \in 1..Len(items) : items[j] = all[j]
  BY <1>8, FirstNIs
<1> HIDE DEF items
<1>10. RowList(rowCells, items) \in Seq(RowCell) /\ Len(RowList(rowCells, items)) = Len(items)
  BY <1>9, RowListType
<1>11. removed.cells \in Seq(RowCell) /\ Len(removed.cells) <= room
  BY <1>2, <1>8, <1>9, <1>10, <1>6
<1>12. ASSUME NEW d, Behind(rowCells, removed.cells, d), removed.full
       PROVE  \E u : Chain(d, removed.first, u) /\ LacksRow(rowCells, s, name, d, u)
  <2>1. Len(items) = Cardinality(keep)
    BY <1>2, <1>7, <1>12, Zenon
  <2>2. PICK u : /\ Chain(d, removed.first, u) /\ Len(u) = Len(items)
                 /\ \A j \in 1..Len(u) : d[u[j]].name = items[j].name /\ d[u[j]].entry = items[j].entry
    <3>1. Behind(rowCells, RowList(rowCells, items), d)
      BY <1>2, <1>12
    <3> HIDE DEF removed
    <3> QED
      BY <1>2, <1>9, <1>12, <3>1, RowListIs
  <2>3. \A j \in 1..Len(u) : /\ kept[j] \in keep
                             /\ d[u[j]].name = rowCells[s[kept[j]]].name
                             /\ d[u[j]].entry = rowCells[s[kept[j]]].entry
    BY <1>6, <1>8, <1>9, <2>1, <2>2
  <2>4. NamesDiffer(rowCells, s) => NamesDiffer(d, u)
    <3> SUFFICES ASSUME NamesDiffer(rowCells, s), NEW i \in 1..Len(u), NEW j \in 1..Len(u),
                        d[u[i]].name = d[u[j]].name
                 PROVE  i = j
      BY DEF NamesDiffer
    <3>1. kept[i] = kept[j]
      BY <1>5, <2>3 DEF NamesDiffer
    <3> QED
      BY <1>6, <2>1, <2>2, <3>1
  <2>5. ASSUME NEW n, NEW e, HasRow(d, u, n, e) PROVE n # name /\ HasRow(rowCells, s, n, e)
    <3>1. PICK j \in 1..Len(u) : d[u[j]].name = n /\ d[u[j]].entry = e
      BY <2>5 DEF HasRow
    <3> QED
      BY <1>5, <2>3, <3>1 DEF HasRow
  <2>6. ASSUME NEW n, NEW e, n # name, HasRow(rowCells, s, n, e) PROVE HasRow(d, u, n, e)
    <3>1. PICK k \in 1..Len(s) : rowCells[s[k]].name = n /\ rowCells[s[k]].entry = e
      BY <2>6 DEF HasRow
    <3>2. k \in keep
      BY <1>5, <2>6, <3>1
    <3>3. Place(keep, k) \in 1..Len(u) /\ kept[Place(keep, k)] = k
      BY <1>6, <2>1, <2>2, <3>2
    <3> QED
      BY <2>3, <3>1, <3>3 DEF HasRow
  <2> HIDE DEF removed
  <2> QED
    BY <2>2, <2>4, <2>5, <2>6 DEF LacksRow
<1> HIDE DEF removed
<1>13. QED
  BY <1>11, <1>12 DEF removed

-----------------------------------------------------------------------------
(* Leaves.                                                                 *)
KeysDiffer(cells, t) ==
  \A i, j \in 1..Len(t) : cells[t[i]].key = cells[t[j]].key => i = j
Holds(cells, t, key, value) ==
  \E k \in 1..Len(t) : cells[t[k]].key = key /\ cells[t[k]].value = value

\* In d the cells of t are as they were, and those of more follow those of c.
Shared(c, t, more, d) ==
  /\ Len(d) \in Nat /\ Len(d) >= Len(c) + Len(more)
  /\ \A k \in 1..Len(t) : d[t[k]] = c[t[k]]
  /\ \A j \in 1..Len(more) : d[Len(c) + j] = more[j]

\* Match is 0 if no cell has the key, and else the place of one that has it.
LEMMA MatchIs ==
  ASSUME NEW cells, NEW t, Len(t) \in Nat, DOMAIN t = 1..Len(t), NEW key
  PROVE  \/ Match(cells, t, key) = 0 /\ \A k \in 1..Len(t) : cells[t[k]].key # key
         \/ Match(cells, t, key) \in 1..Len(t) /\ cells[t[Match(cells, t, key)]].key = key
<1> DEFINE hits == LeavesFor(cells, t, key)
<1>1. hits = {k \in 1..Len(t) : cells[t[k]].key = key}
  BY DEF LeavesFor
<1>2. CASE hits = {}
  BY <1>1, <1>2 DEF Match
<1>3. CASE hits # {}
  <2>1. hits \in SUBSET Nat
    BY <1>1
  <2> HIDE DEF hits
  <2>2. First(hits) \in hits
    BY <1>3, <2>1, FirstIsLeast
  <2>3. Match(cells, t, key) = First(hits)
    BY <1>3 DEF Match, hits
  <2> QED
    BY <1>1, <2>2, <2>3
<1> QED
  BY <1>2, <1>3

\* Copies of the cells before the m-th of a list, the last one first; in d, a list u without the
\* m-th cell of t.
AreCopies(cells, t, m, copies) ==
  /\ Len(copies) = m - 1
  /\ \A j \in 1..(m - 1) :
       copies[j] = Leaf(cells[t[m - j]].key, cells[t[m - j]].value,
                        IF j = 1 THEN cells[t[m]].rest ELSE Len(cells) + j - 1)
Drops(cells, t, m, d, u) ==
  /\ Len(u) = Len(t) - 1
  /\ \A j \in 1..Len(u) :
       LET k == IF j < m THEN j ELSE j + 1
       IN d[u[j]].key = cells[t[k]].key /\ d[u[j]].value = cells[t[k]].value

\* The cells before the m-th are copied behind the others and those after it are shared.
LEMMA CopiedList ==
  ASSUME NEW cells, Len(cells) \in Nat, NEW p, NEW t, Chain(cells, p, t), NEW m \in 1..Len(t),
         NEW copies, AreCopies(cells, t, m, copies), NEW d, Shared(cells, t, copies, d)
  PROVE  \E u : /\ Chain(d, IF m = 1 THEN cells[t[m]].rest ELSE Len(cells) + (m - 1), u)
                /\ Drops(cells, t, m, d, u)
<1> DEFINE N == Len(cells)
           u == [j \in 1..(Len(t) - 1) |-> IF j < m THEN N + (m - j) ELSE t[j + 1]]
           first == IF m = 1 THEN cells[t[m]].rest ELSE N + (m - 1)
<1>1. /\ Len(t) \in Nat /\ m \in Nat /\ m >= 1 /\ m <= Len(t)
      /\ \A k \in 1..Len(t) : t[k] \in 1..N /\ cells[t[k]].rest = AfterIn(t, k)
  BY DEF Chain
<1>0. Len(copies) = m - 1
  BY DEF AreCopies
<1>2. /\ Len(d) \in Nat /\ Len(d) >= N + (m - 1)
      /\ \A k \in 1..Len(t) : d[t[k]] = cells[t[k]]
      /\ \A j \in 1..(m - 1) : d[N + j] = copies[j]
  BY <1>0 DEF Shared
<1>3. \A j \in 1..(Len(t) - 1) :
        (IF j < m THEN N + (m - j) ELSE t[j + 1]) \in 1..Len(d)
  <2> TAKE j \in 1..(Len(t) - 1)
  <2>1. CASE j < m
    BY <1>1, <1>2, <2>1
  <2>2. CASE ~(j < m)
    <3>1. j + 1 \in 1..Len(t)
      BY <1>1
    <3>2. t[j + 1] \in 1..N
      BY <1>1, <3>1
    <3> QED
      BY <1>1, <1>2, <2>2, <3>2
  <2> QED
    BY <2>1, <2>2
<1>4. u \in Seq(1..Len(d)) /\ Len(u) = Len(t) - 1
      /\ \A j \in 1..(Len(t) - 1) : u[j] = IF j < m THEN N + (m - j) ELSE t[j + 1]
  BY <1>1, <1>2, <1>3
<1> HIDE DEF u
<1>5. ASSUME NEW j \in 1..Len(u), j < m
      PROVE  /\ d[u[j]].key = cells[t[j]].key /\ d[u[j]].value = cells[t[j]].value
             /\ j = m - 1 => d[u[j]].rest = cells[t[m]].rest
             /\ j # m - 1 => d[u[j]].rest = N + (m - j) - 1
  <2> DEFINE i == m - j
             rest == IF i = 1 THEN cells[t[m]].rest ELSE N + i - 1
  <2>0. u[j] = N + i
    <3> HIDE DEF N, i
    <3>1. u[j] = IF j < m THEN N + (m - j) ELSE t[j + 1]
      BY <1>4
    <3> QED
      BY <1>5, <3>1 DEF i
  <2>1. i \in 1..(m - 1) /\ u[j] = N + i /\ m - i = j
    BY <1>1, <1>4, <1>5, <2>0
  <2>2. (i = 1) <=> (j = m - 1)
    BY <1>1, <1>4
  <2>3. d[u[j]] = copies[i] /\ copies[i] = Leaf(cells[t[m - i]].key, cells[t[m - i]].value, rest)
    <3>1. d[N + i] = copies[i]
      BY <1>2, <2>1
    <3>2. copies[i] = Leaf(cells[t[m - i]].key, cells[t[m - i]].value, rest)
      <4> HIDE DEF Leaf
      <4> QED
        BY <2>1, Zenon DEF AreCopies
    <3> QED
      BY <2>1, <3>1, <3>2
  <2>4. (j = m - 1 => rest = cells[t[m]].rest) /\ (j # m - 1 => rest = N + (m - j) - 1)
    BY <2>2
  <2> HIDE DEF rest
  <2>5. d[u[j]] = Leaf(cells[t[j]].key, cells[t[j]].value, rest)
    <3> HIDE DEF i
    <3> QED
      BY <2>1, <2>3, Zenon
  <2>6. d[u[j]].key = cells[t[j]].key /\ d[u[j]].value = cells[t[j]].value /\ d[u[j]].rest = rest
    BY <2>5 DEF Leaf
  <2> QED
    BY <2>4, <2>6
<1>6. ASSUME NEW j \in 1..Len(u), ~(j < m)
      PROVE  j + 1 \in 1..Len(t) /\ u[j] = t[j + 1] /\ d[u[j]] = cells[t[j + 1]]
  <2>1. j + 1 \in 1..Len(t)
    BY <1>1, <1>4
  <2>2. u[j] = t[j + 1]
    <3> HIDE DEF N
    <3>1. u[j] = IF j < m THEN N + (m - j) ELSE t[j + 1]
      BY <1>4
    <3> QED
      BY <1>6, <3>1
  <2> QED
    BY <1>2, <2>1, <2>2
<1>7. AfterIn(u, m - 1) = cells[t[m]].rest
  <2>1. CASE m < Len(t)
    <3>1. m \in 1..(Len(t) - 1) /\ m - 1 + 1 = m /\ ~(m < m) /\ m - 1 < Len(u)
      BY <1>1, <1>4, <2>1
    <3>2. u[m] = t[m + 1]
      BY <1>4, <3>1
    <3>3. AfterIn(u, m - 1) = t[m + 1] /\ AfterIn(t, m) = t[m + 1]
      BY <2>1, <3>1, <3>2 DEF AfterIn
    <3> QED
      BY <1>1, <3>3
  <2>2. CASE ~(m < Len(t))
    BY <1>1, <1>4, <2>2 DEF AfterIn
  <2> QED
    BY <2>1, <2>2
<1>8. first = AfterIn(u, 0)
  <2>1. CASE m = 1
    BY <1>7, <2>1
  <2>2. CASE m # 1
    <3>1. 1 \in 1..Len(u) /\ 1 < m /\ u[1] = N + (m - 1) /\ 0 < Len(u)
      BY <1>1, <1>4, <2>2
    <3> QED
      BY <2>2, <3>1 DEF AfterIn
  <2> QED
    BY <2>1, <2>2
<1>9. ASSUME NEW j \in 1..Len(u) PROVE d[u[j]].rest = AfterIn(u, j)
  <2>1. CASE j = m - 1
    <3>1. j < m
      BY <1>1, <2>1
    <3>2. d[u[j]].rest = cells[t[m]].rest
      BY <1>5, <2>1, <3>1
    <3> QED
      BY <1>7, <2>1, <3>2
  <2>2. CASE j < m /\ j # m - 1
    <3>1. d[u[j]].rest = N + (m - j) - 1
      BY <1>5, <2>2
    <3>2. j + 1 \in 1..Len(u) /\ j + 1 < m /\ j < Len(u)
      BY <1>1, <1>4, <2>2
    <3>3. u[j + 1] = N + (m - (j + 1))
      BY <1>4, <3>2
    <3>4. N + (m - j) - 1 = N + (m - (j + 1))
      BY <1>1, <1>4
    <3> QED
      BY <3>1, <3>2, <3>3, <3>4 DEF AfterIn
  <2>3. CASE ~(j < m)
    <3>1. j + 1 \in 1..Len(t) /\ d[u[j]].rest = AfterIn(t, j + 1)
      BY <1>1, <1>6, <2>3
    <3>2. CASE j < Len(u)
      <4>1. j + 1 \in 1..Len(u) /\ ~(j + 1 < m) /\ j + 1 < Len(t)
        BY <1>1, <1>4, <2>3, <3>2
      <4>2. u[j + 1] = t[j + 1 + 1]
        BY <1>4, <4>1
      <4> QED
        BY <3>1, <3>2, <4>1, <4>2 DEF AfterIn
    <3>3. CASE ~(j < Len(u))
      BY <1>1, <1>4, <3>1, <3>3 DEF AfterIn
    <3> QED
      BY <3>2, <3>3
  <2> QED
    BY <1>1, <1>4, <2>1, <2>2, <2>3
<1>10. Chain(d, first, u)
  BY <1>4, <1>8, <1>9 DEF Chain
<1>11. ASSUME NEW j \in 1..Len(u)
       PROVE  LET k == IF j < m THEN j ELSE j + 1
              IN d[u[j]].key = cells[t[k]].key /\ d[u[j]].value = cells[t[k]].value
  <2>1. CASE j < m
    BY <1>5, <2>1
  <2>2. CASE ~(j < m)
    BY <1>6, <2>2
  <2> QED
    BY <2>1, <2>2
<1> QED
  BY <1>4, <1>10, <1>11 DEF Drops

\* u is, in d, the list t without a key.
IsWithout(cells, t, key, d, u) ==
  /\ KeysDiffer(d, u)
  /\ \A k, v : Holds(d, u, k, v) <=> k # key /\ Holds(cells, t, k, v)

\* Dropping the m-th cell of a list whose keys differ leaves the list without the key of that cell.
LEMMA DropIsWithout ==
  ASSUME NEW cells, NEW t, Len(t) \in Nat, KeysDiffer(cells, t), NEW m \in 1..Len(t),
         NEW d, NEW u, Drops(cells, t, m, d, u)
  PROVE  IsWithout(cells, t, cells[t[m]].key, d, u)
<1> DEFINE from(j) == IF j < m THEN j ELSE j + 1
<1>1. \A j \in 1..Len(u) : /\ from(j) \in 1..Len(t) /\ from(j) # m
                           /\ d[u[j]].key = cells[t[from(j)]].key
                           /\ d[u[j]].value = cells[t[from(j)]].value
  BY DEF Drops
<1>0. Len(u) = Len(t) - 1
  BY DEF Drops
<1>2. \A i, j \in 1..Len(u) : from(i) = from(j) => i = j
  BY <1>0
<1>3. \A k \in 1..Len(t) : k # m => \E j \in 1..Len(u) : from(j) = k
  <2> TAKE k \in 1..Len(t)
  <2>1. CASE k < m
    <3>1. k \in 1..Len(u) /\ from(k) = k
      BY <1>0, <2>1
    <3> QED
      BY <3>1
  <2>2. CASE k > m
    <3>1. k - 1 \in 1..Len(u) /\ from(k - 1) = k
      BY <1>0, <2>2
    <3> QED
      BY <3>1
  <2> QED
    BY <2>1, <2>2
<1> HIDE DEF from
<1>4. KeysDiffer(d, u)
  <2> SUFFICES ASSUME NEW i \in 1..Len(u), NEW j \in 1..Len(u), d[u[i]].key = d[u[j]].key
               PROVE  i = j
    BY DEF KeysDiffer
  <2>1. from(i) = from(j)
    BY <1>1 DEF KeysDiffer
  <2> QED
    BY <1>2, <2>1
<1>5. ASSUME NEW k, NEW v, Holds(d, u, k, v) PROVE k # cells[t[m]].key /\ Holds(cells, t, k, v)
  <2>1. PICK j \in 1..Len(u) : d[u[j]].key = k /\ d[u[j]].value = v
    BY <1>5 DEF Holds
  <2>2. from(j) \in 1..Len(t) /\ from(j) # m /\ cells[t[from(j)]].key = k /\ cells[t[from(j)]].value = v
    BY <1>1, <2>1
  <2> QED
    BY <2>2 DEF KeysDiffer, Holds
<1>6. ASSUME NEW k, NEW v, k # cells[t[m]].key, Holds(cells, t, k, v) PROVE Holds(d, u, k, v)
  <2>1. PICK i \in 1..Len(t) : cells[t[i]].key = k /\ cells[t[i]].value = v
    BY <1>6 DEF Holds
  <2>2. PICK j \in 1..Len(u) : from(j) = i
    BY <1>3, <1>6, <2>1
  <2> QED
    BY <1>1, <2>1, <2>2 DEF Holds
<1> QED
  BY <1>4, <1>5, <1>6 DEF IsWithout

\* LeafWithout: its cells are leaves; with the room it needs they are, with the shared ones, the
\* list without the key, and else the list stays.
LEMMA LeafWithoutIs ==
  ASSUME NEW cells \in Seq(LeafCell), NEW p, NEW t, Chain(cells, p, t), NEW key, NEW room \in Nat
  PROVE  LET cleared == LeafWithout(cells, p, key, room)
         IN /\ cleared.cells \in Seq(LeafCell) /\ cleared.first \in Nat
            /\ cleared.full \in BOOLEAN /\ (~cleared.full => cleared.first = p)
            /\ \A d : cleared.full /\ Shared(cells, t, cleared.cells, d) =>
                 \E u : /\ Chain(d, cleared.first, u)
                        /\ KeysDiffer(cells, t) => IsWithout(cells, t, key, d, u)
<1> DEFINE cleared == LeafWithout(cells, p, key, room)
           m == Match(cells, t, key)
           n == m - 1
           after == cells[t[m]].rest
           copies == [j \in 1..n |-> Leaf(cells[t[m - j]].key, cells[t[m - j]].value,
                                          IF j = 1 THEN after ELSE Len(cells) + j - 1)]
<1>1. Path(cells, p) = t
  BY PathAlong
<1>2. cleared = IF m = 0 THEN [cells |-> <<>>, first |-> p, full |-> TRUE]
                ELSE IF room < n THEN [cells |-> FirstN(copies, room), first |-> p, full |-> FALSE]
                ELSE [cells |-> copies, first |-> IF n = 0 THEN after ELSE Len(cells) + n, full |-> TRUE]
  BY <1>1, Zenon DEF LeafWithout
<1>3. /\ t \in Seq(1..Len(cells)) /\ Len(t) \in Nat /\ DOMAIN t = 1..Len(t) /\ Len(cells) \in Nat
      /\ \A k \in 1..Len(t) : t[k] \in 1..Len(cells) /\ cells[t[k]].rest = AfterIn(t, k)
  BY DEF Chain
<1>0. p \in Nat
  BY <1>3 DEF Chain, AfterIn, NULL
<1>4. \/ m = 0 /\ \A k \in 1..Len(t) : cells[t[k]].key # key
      \/ m \in 1..Len(t) /\ cells[t[m]].key = key
  <2> HIDE DEF cleared
  <2> QED
    BY <1>3, MatchIs
<1>5. CASE m = 0
  <2>1. cleared.cells = <<>> /\ cleared.first = p /\ cleared.full = TRUE
    BY <1>2, <1>5
  <2> HIDE DEF cleared, m
  <2>2. ASSUME NEW d, Shared(cells, t, <<>>, d)
        PROVE  Chain(d, p, t) /\ (KeysDiffer(cells, t) => IsWithout(cells, t, key, d, t))
    <3>1. Len(d) \in Nat /\ Len(d) >= Len(cells) /\ \A k \in 1..Len(t) : d[t[k]] = cells[t[k]]
      BY <1>3, <2>2 DEF Shared
    <3>2. Chain(d, p, t)
      <4>1. t \in Seq(1..Len(d))
        BY <1>3, <3>1
      <4> QED
        BY <3>1, <4>1 DEF Chain
    <3>3. \A k \in 1..Len(t) : cells[t[k]].key # key
      BY <1>3, <1>4, <1>5
    <3>4. KeysDiffer(cells, t) => IsWithout(cells, t, key, d, t)
      BY <3>1, <3>3, Zenon DEF KeysDiffer, IsWithout, Holds
    <3> QED
      BY <3>2, <3>4
  <2>3. <<>> \in Seq(LeafCell)
    OBVIOUS
  <2> QED
    BY <1>0, <2>1, <2>2, <2>3 DEF cleared
<1>6. CASE m # 0
  <2>1. m \in 1..Len(t) /\ cells[t[m]].key = key /\ n \in Nat
    BY <1>3, <1>4, <1>6
  <2>2. copies \in Seq(LeafCell) /\ Len(copies) = n
        /\ \A j \in 1..n : copies[j] = Leaf(cells[t[m - j]].key, cells[t[m - j]].value,
                                            IF j = 1 THEN after ELSE Len(cells) + j - 1)
    <3>1. ASSUME NEW j \in 1..n
          PROVE  Leaf(cells[t[m - j]].key, cells[t[m - j]].value,
                      IF j = 1 THEN after ELSE Len(cells) + j - 1) \in LeafCell
      <4>1. m - j \in 1..Len(t) /\ t[m - j] \in 1..Len(cells)
        BY <1>3, <2>1
      <4>2. cells[t[m - j]] \in LeafCell /\ cells[t[m]] \in LeafCell
        BY <1>3, <2>1, <4>1
      <4>3. (IF j = 1 THEN after ELSE Len(cells) + j - 1) \in Nat
        BY <1>3, <4>2 DEF LeafCell
      <4> QED
        BY <4>2, <4>3 DEF Leaf, LeafCell
    <3> HIDE DEF Leaf
    <3> QED
      BY <2>1, <3>1
  <2> HIDE DEF copies
  <2>3. CASE room < n
    <3>1. cleared.cells = FirstN(copies, room) /\ cleared.first = p /\ cleared.full = FALSE
      BY <1>2, <1>6, <2>3
    <3>2. FirstN(copies, room) \in Seq(LeafCell)
      BY <2>2, FirstNIs
    <3> HIDE DEF cleared
    <3> QED
      BY <1>0, <3>1, <3>2 DEF cleared
  <2>4. CASE ~(room < n)
    <3> DEFINE first == IF n = 0 THEN after ELSE Len(cells) + n
    <3>1. cleared.cells = copies /\ cleared.first = first /\ cleared.full = TRUE
      BY <1>2, <1>6, <2>4
    <3>2. ASSUME NEW d, Shared(cells, t, copies, d)
          PROVE  \E u : /\ Chain(d, first, u)
                        /\ KeysDiffer(cells, t) => IsWithout(cells, t, key, d, u)
      <4> HIDE DEF cleared, m
      <4>1. PICK u : /\ Chain(d, IF m = 1 THEN cells[t[m]].rest ELSE Len(cells) + (m - 1), u)
                     /\ Drops(cells, t, m, d, u)
        <5>1. AreCopies(cells, t, m, copies)
          BY <2>1, <2>2 DEF AreCopies
        <5> QED
          BY <1>3, <2>1, <3>2, <5>1, CopiedList
      <4>2. KeysDiffer(cells, t) => IsWithout(cells, t, cells[t[m]].key, d, u)
        BY <1>3, <2>1, <4>1, DropIsWithout
      <4>3. first = IF m = 1 THEN cells[t[m]].rest ELSE Len(cells) + (m - 1)
        BY <1>3, <2>1
      <4> QED
        BY <2>1, <4>1, <4>2, <4>3
    <3>0. first \in Nat
      <4> HIDE DEF m
      <4>1. cells[t[m]] \in LeafCell
        BY <1>3, <2>1
      <4> QED
        BY <1>3, <2>1, <4>1 DEF LeafCell
    <3> HIDE DEF cleared, first
    <3> QED
      BY <2>2, <3>0, <3>1, <3>2 DEF cleared
  <2> QED
    BY <2>3, <2>4
<1> QED
  BY <1>5, <1>6

-----------------------------------------------------------------------------
(* Versions.                                                               *)

\* What the leaves at p say is about names of bucket b, and each points at a row of its name.
Homed(R, L, b, p) ==
  /\ Chain(L, p, Path(L, p))
  /\ \A k, v : Holds(L, Path(L, p), k, v) =>
       k \in Names /\ Bucket(k) = b /\ v \in 1..Len(R) /\ R[v].name = k
IndexOk(R, L, index) ==
  \A b \in Buckets : Homed(R, L, b, index[b]) /\ KeysDiffer(L, Path(L, index[b]))

\* The index leads from the name to a row with this entry.
Sees(R, L, index, name, entry) ==
  \E v : Holds(L, Path(L, index[Bucket(name)]), name, v) /\ R[v].entry = entry

RowsOk(R, p) == Chain(R, p, Path(R, p)) /\ NamesDiffer(R, Path(R, p))
VersionOk(R, L, version) ==
  /\ RowsOk(R, version.rows) /\ IndexOk(R, L, version.index)
  /\ \A name \in Names : \A entry :
       HasRow(R, Path(R, version.rows), name, entry) <=> Sees(R, L, version.index, name, entry)

\* A list stays when cells are added.
LEMMA ListKept ==
  ASSUME NEW c, NEW d, Extends(c, d), NEW p, Chain(c, p, Path(c, p))
  PROVE  /\ Chain(d, p, Path(d, p)) /\ Path(d, p) = Path(c, p)
         /\ \A k \in 1..Len(Path(c, p)) : /\ Path(c, p)[k] \in 1..Len(c)
                                          /\ d[Path(c, p)[k]] = c[Path(c, p)[k]]
<1>1. Chain(d, p, Path(c, p)) /\ \A k \in 1..Len(Path(c, p)) : /\ Path(c, p)[k] \in 1..Len(c)
                                                               /\ d[Path(c, p)[k]] = c[Path(c, p)[k]]
  BY ChainKept
<1>2. Path(d, p) = Path(c, p)
  BY <1>1, PathAlong DEF Extends
<1> QED
  BY <1>1, <1>2

\* A bucket is sound, and holds the same, after more cells were allocated.
LEMMA HomedKept ==
  ASSUME NEW R, NEW S, Extends(R, S), NEW L, NEW M, Extends(L, M), NEW b, NEW p, Homed(R, L, b, p)
  PROVE  /\ Homed(S, M, b, p)
         /\ KeysDiffer(L, Path(L, p)) => KeysDiffer(M, Path(M, p))
         /\ \A k, v : Holds(M, Path(M, p), k, v) <=> Holds(L, Path(L, p), k, v)
<1>1. /\ Chain(M, p, Path(M, p)) /\ Path(M, p) = Path(L, p)
      /\ \A k \in 1..Len(Path(L, p)) : M[Path(L, p)[k]] = L[Path(L, p)[k]]
  BY ListKept DEF Homed
<1>2. \A k, v : Holds(M, Path(M, p), k, v) <=> Holds(L, Path(L, p), k, v)
  BY <1>1, Zenon DEF Holds
<1>3. KeysDiffer(L, Path(L, p)) => KeysDiffer(M, Path(M, p))
  BY <1>1, Zenon DEF KeysDiffer
<1>4. \A v \in 1..Len(R) : v \in 1..Len(S) /\ S[v] = R[v]
  BY DEF Extends
<1>5. ASSUME NEW k, NEW v, Holds(M, Path(M, p), k, v)
      PROVE  k \in Names /\ Bucket(k) = b /\ v \in 1..Len(S) /\ S[v].name = k
  BY <1>2, <1>4, <1>5 DEF Homed
<1> QED
  BY <1>1, <1>2, <1>3, <1>5 DEF Homed

\* A version stays when cells are added.
LEMMA VersionKept ==
  ASSUME NEW R, NEW S, Extends(R, S), NEW L, NEW M, Extends(L, M), NamesHaveBuckets
  PROVE  /\ \A index : IndexOk(R, L, index) =>
               /\ IndexOk(S, M, index)
               /\ \A name \in Names : \A entry :
                    Sees(S, M, index, name, entry) <=> Sees(R, L, index, name, entry)
         /\ \A p : RowsOk(R, p) =>
               /\ RowsOk(S, p)
               /\ \A n, e : HasRow(S, Path(S, p), n, e) <=> HasRow(R, Path(R, p), n, e)
         /\ \A version : VersionOk(R, L, version) => VersionOk(S, M, version)
<1>1. ASSUME NEW index, IndexOk(R, L, index)
      PROVE  /\ IndexOk(S, M, index)
             /\ \A name \in Names : \A entry :
                  Sees(S, M, index, name, entry) <=> Sees(R, L, index, name, entry)
  <2>1. \A b \in Buckets : Homed(R, L, b, index[b]) /\ KeysDiffer(L, Path(L, index[b]))
    BY <1>1 DEF IndexOk
  <2>2. \A b \in Buckets :
          /\ Homed(S, M, b, index[b]) /\ KeysDiffer(M, Path(M, index[b]))
          /\ \A k, v : Holds(M, Path(M, index[b]), k, v) <=> Holds(L, Path(L, index[b]), k, v)
    BY <2>1, HomedKept
  <2>3. ASSUME NEW name \in Names, NEW entry
        PROVE  Sees(S, M, index, name, entry) <=> Sees(R, L, index, name, entry)
    <3>1. Bucket(name) \in Buckets
      BY DEF NamesHaveBuckets
    <3>2. \A v : Holds(L, Path(L, index[Bucket(name)]), name, v) => v \in 1..Len(R)
      BY <2>1, <3>1 DEF Homed
    <3>3. \A v \in 1..Len(R) : S[v] = R[v]
      BY DEF Extends
    <3> QED
      BY <2>2, <3>1, <3>2, <3>3 DEF Sees
  <2> QED
    BY <2>2, <2>3 DEF IndexOk
<1>2. ASSUME NEW p, RowsOk(R, p)
      PROVE  /\ RowsOk(S, p)
             /\ \A n, e : HasRow(S, Path(S, p), n, e) <=> HasRow(R, Path(R, p), n, e)
  <2>1. /\ Chain(S, p, Path(S, p)) /\ Path(S, p) = Path(R, p)
        /\ \A k \in 1..Len(Path(R, p)) : S[Path(R, p)[k]] = R[Path(R, p)[k]]
    BY <1>2, ListKept DEF RowsOk
  <2>2. NamesDiffer(S, Path(S, p))
    BY <1>2, <2>1, Zenon DEF NamesDiffer, RowsOk
  <2>3. \A n, e : HasRow(S, Path(S, p), n, e) <=> HasRow(R, Path(R, p), n, e)
    BY <2>1, Zenon DEF HasRow
  <2> QED
    BY <2>1, <2>2, <2>3 DEF RowsOk
<1>3. ASSUME NEW version, VersionOk(R, L, version) PROVE VersionOk(S, M, version)
  BY <1>1, <1>2, <1>3 DEF VersionOk
<1> QED
  BY <1>1, <1>2, <1>3

\* What a lookup finds.
LEMMA FindIs ==
  ASSUME NEW R, NEW L, Len(L) \in Nat, NEW index, NEW name \in Names,
         Homed(R, L, Bucket(name), index[Bucket(name)])
  PROVE  LET p == Path(L, index[Bucket(name)])
         IN \/ Find(L, index, name) = NULL /\ ~Present(L, index, name) /\ \A v : ~Holds(L, p, name, v)
            \/ /\ Find(L, index, name) # NULL /\ Present(L, index, name)
               /\ Holds(L, p, name, Find(L, index, name))
<1> DEFINE first == index[Bucket(name)]
           leaf == LeafFind(L, first, name)
           t == Path(L, first)
<1>1. Chain(L, first, t)
  BY DEF Homed
<1>2. t \in Seq(1..Len(L)) /\ Len(t) \in Nat
  BY <1>1 DEF Chain
<1>3. \/ leaf = NULL /\ \A k \in 1..Len(t) : L[t[k]].key # name
      \/ \E k \in 1..Len(t) : leaf = t[k] /\ L[t[k]].key = name
  BY <1>1, LeafFindIs
<1>4. Find(L, index, name) = IF leaf = NULL THEN NULL ELSE L[leaf].value
  BY DEF Find
<1>5. Present(L, index, name) <=> leaf # NULL
  BY DEF Present
<1>6. \A v : Holds(L, t, name, v) => v \in 1..Len(R)
  BY DEF Homed
<1> HIDE DEF leaf, t
<1>7. CASE leaf = NULL /\ \A k \in 1..Len(t) : L[t[k]].key # name
  <2>1. \A v : ~Holds(L, t, name, v)
    BY <1>7 DEF Holds
  <2> QED
    BY <1>4, <1>5, <1>7, <2>1 DEF t
<1>8. CASE \E k \in 1..Len(t) : leaf = t[k] /\ L[t[k]].key = name
  <2>1. PICK k \in 1..Len(t) : leaf = t[k] /\ L[t[k]].key = name
    BY <1>8
  <2>2. leaf # NULL
    BY <1>2, <2>1 DEF NULL
  <2>3. Holds(L, t, name, L[leaf].value)
    BY <2>1 DEF Holds
  <2>4. L[leaf].value # NULL
    BY <1>6, <2>3 DEF NULL
  <2> QED
    BY <1>4, <1>5, <2>2, <2>3, <2>4 DEF t
<1> QED
  BY <1>3, <1>7, <1>8

\* The map of a version has names and entries; when the keys differ, an entry is in the map
\* exactly if the index leads to it.
LEMMA MapIs ==
  ASSUME NEW R \in Seq(RowCell), NEW L, Len(L) \in Nat, NEW version, NamesHaveBuckets,
         \A b \in Buckets : Homed(R, L, b, version.index[b])
  PROVE  LET map == MapIn(R, L, version)
         IN /\ DOMAIN map \subseteq Names /\ map \in [DOMAIN map -> Entries]
            /\ IndexOk(R, L, version.index) =>
                 \A name \in Names : \A entry :
                   Sees(R, L, version.index, name, entry) <=> name \in DOMAIN map /\ map[name] = entry
<1> DEFINE map == MapIn(R, L, version)
           index == version.index
           find(n) == Find(L, index, n)
           t(n) == Path(L, index[Bucket(n)])
<1>1. DOMAIN map = {n \in Names : find(n) # NULL}
      /\ map = [n \in DOMAIN map |-> R[find(n)].entry]
  BY DEF MapIn
<1>2. \A n \in Names : /\ Bucket(n) \in Buckets /\ Homed(R, L, Bucket(n), index[Bucket(n)])
                       /\ \/ find(n) = NULL /\ \A v : ~Holds(L, t(n), n, v)
                          \/ find(n) # NULL /\ Holds(L, t(n), n, find(n))
  <2> TAKE n \in Names
  <2>1. Bucket(n) \in Buckets /\ Homed(R, L, Bucket(n), index[Bucket(n)])
    BY DEF NamesHaveBuckets
  <2> QED
    BY <2>1, FindIs
<1> HIDE DEF map, find
<1>3. \A n \in DOMAIN map : R[find(n)].entry \in Entries
  <2> TAKE n \in DOMAIN map
  <2>1. Holds(L, t(n), n, find(n)) /\ Homed(R, L, Bucket(n), index[Bucket(n)])
    BY <1>1, <1>2
  <2>2. find(n) \in 1..Len(R)
    BY <2>1 DEF Homed
  <2>3. R[find(n)] \in RowCell
    BY <2>2
  <2> QED
    BY <2>3 DEF RowCell
<1>4. map \in [DOMAIN map -> Entries] /\ DOMAIN map \subseteq Names
  BY <1>1, <1>3
<1>5. ASSUME IndexOk(R, L, index), NEW name \in Names, NEW entry
      PROVE  Sees(R, L, index, name, entry) <=> name \in DOMAIN map /\ map[name] = entry
  <2>1. \A v, w : Holds(L, t(name), name, v) /\ Holds(L, t(name), name, w) => v = w
    <3>1. KeysDiffer(L, t(name))
      BY <1>2, <1>5 DEF IndexOk
    <3> HIDE DEF t
    <3> QED
      BY <3>1 DEF KeysDiffer, Holds
  <2>2. Sees(R, L, index, name, entry) <=> \E v : Holds(L, t(name), name, v) /\ R[v].entry = entry
    BY DEF Sees
  <2>3. name \in DOMAIN map <=> find(name) # NULL
    BY <1>1
  <2>4. name \in DOMAIN map => map[name] = R[find(name)].entry
    BY <1>1
  <2>5. \/ find(name) = NULL /\ \A v : ~Holds(L, t(name), name, v)
        \/ find(name) # NULL /\ Holds(L, t(name), name, find(name))
    BY <1>2
  <2> HIDE DEF t
  <2> QED
    BY <2>1, <2>2, <2>3, <2>4, <2>5
<1> QED
  BY <1>4, <1>5 DEF map

\* A map with these entries is the map of the version.
LEMMA SameMap ==
  ASSUME NEW R \in Seq(RowCell), NEW L, Len(L) \in Nat, NEW version, NamesHaveBuckets,
         IndexOk(R, L, version.index),
         NEW map, DOMAIN map \subseteq Names, map = [n \in DOMAIN map |-> map[n]],
         \A name \in Names : \A entry :
           Sees(R, L, version.index, name, entry) <=> name \in DOMAIN map /\ map[name] = entry
  PROVE  MapIn(R, L, version) = map
<1> DEFINE found == MapIn(R, L, version)
<1>1. /\ DOMAIN found \subseteq Names /\ found \in [DOMAIN found -> Entries]
      /\ \A name \in Names : \A entry :
           Sees(R, L, version.index, name, entry) <=> name \in DOMAIN found /\ found[name] = entry
  <2>1. \A b \in Buckets : Homed(R, L, b, version.index[b])
    BY DEF IndexOk
  <2> QED
    BY <2>1, MapIs
<1> HIDE DEF found
<1>2. \A name \in Names : name \in DOMAIN found <=> name \in DOMAIN map
  BY <1>1
<1>3. DOMAIN found = DOMAIN map
  BY <1>1, <1>2
<1>4. \A name \in DOMAIN map : found[name] = map[name]
  BY <1>1, <1>3
<1>5. found = [n \in DOMAIN found |-> found[n]]
  BY <1>1
<1> QED
  BY <1>3, <1>4, <1>5 DEF found

\* Adding cells changes no map.
LEMMA MapKept ==
  ASSUME NEW R \in Seq(RowCell), NEW S \in Seq(RowCell), Extends(R, S),
         NEW L, NEW M, Extends(L, M), NEW version, NamesHaveBuckets, IndexOk(R, L, version.index)
  PROVE  MapIn(S, M, version) = MapIn(R, L, version)
<1> DEFINE map == MapIn(R, L, version)
<1>1. /\ IndexOk(S, M, version.index)
      /\ \A name \in Names : \A entry :
           Sees(S, M, version.index, name, entry) <=> Sees(R, L, version.index, name, entry)
  BY VersionKept
<1>2. Len(L) \in Nat /\ Len(M) \in Nat
  BY DEF Extends
<1>3. /\ DOMAIN map \subseteq Names /\ map \in [DOMAIN map -> Entries]
      /\ \A name \in Names : \A entry :
           Sees(R, L, version.index, name, entry) <=> name \in DOMAIN map /\ map[name] = entry
  <2>1. \A b \in Buckets : Homed(R, L, b, version.index[b])
    BY DEF IndexOk
  <2> QED
    BY <1>2, <2>1, MapIs
<1> HIDE DEF map
<1>4. map = [n \in DOMAIN map |-> map[n]]
  BY <1>3
<1>5. MapIn(S, M, version) = map
  <2>1. \A name \in Names : \A entry :
          Sees(S, M, version.index, name, entry) <=> name \in DOMAIN map /\ map[name] = entry
    BY <1>1, <1>3
  <2> QED
    BY <1>1, <1>2, <1>3, <1>4, <2>1, SameMap
<1> QED
  BY <1>5 DEF map

-----------------------------------------------------------------------------
(* The operations on the index.                                            *)

\* Another list at one bucket.
ChangedAt(index, new, b, q) ==
  /\ new \in [Buckets -> Nat] /\ b \in Buckets /\ new[b] = q
  /\ \A a \in Buckets : a # b => new[a] = index[a]

\* EXCEPT changes one bucket.
LEMMA ChangedIs ==
  ASSUME NEW index \in [Buckets -> Nat], NEW b \in Buckets, NEW q \in Nat
  PROVE  ChangedAt(index, [index EXCEPT ![b] = q], b, q)
  BY DEF ChangedAt

\* An index with one bucket changed: the others are as they were, and names of that bucket are
\* found in its new list.
LEMMA BucketChanged ==
  ASSUME NEW R, NEW S, Extends(R, S), NEW L, NEW M, Extends(L, M), NamesHaveBuckets,
         NEW index, IndexOk(R, L, index), NEW b, NEW q, NEW new, ChangedAt(index, new, b, q),
         Homed(S, M, b, q)
  PROVE  /\ \A a \in Buckets : Homed(S, M, a, new[a])
         /\ KeysDiffer(M, Path(M, q)) => IndexOk(S, M, new)
         /\ \A name \in Names : \A entry :
              /\ Bucket(name) # b =>
                   (Sees(S, M, new, name, entry) <=> Sees(R, L, index, name, entry))
              /\ Bucket(name) = b =>
                   (Sees(S, M, new, name, entry) <=>
                      \E v : Holds(M, Path(M, q), name, v) /\ S[v].entry = entry)
<1>1. b \in Buckets /\ new[b] = q /\ \A a \in Buckets : a # b => new[a] = index[a]
  BY DEF ChangedAt
<1>2. /\ IndexOk(S, M, index)
      /\ \A name \in Names : \A entry :
           Sees(S, M, index, name, entry) <=> Sees(R, L, index, name, entry)
  BY VersionKept
<1>3. \A a \in Buckets : Homed(S, M, a, new[a])
  BY <1>1, <1>2 DEF IndexOk
<1>4. KeysDiffer(M, Path(M, q)) => IndexOk(S, M, new)
  BY <1>1, <1>2, <1>3 DEF IndexOk
<1>5. ASSUME NEW name \in Names, NEW entry
      PROVE  /\ Bucket(name) # b =>
                  (Sees(S, M, new, name, entry) <=> Sees(R, L, index, name, entry))
             /\ Bucket(name) = b =>
                  (Sees(S, M, new, name, entry) <=>
                     \E v : Holds(M, Path(M, q), name, v) /\ S[v].entry = entry)
  <2>1. Bucket(name) \in Buckets
    BY DEF NamesHaveBuckets
  <2>2. CASE Bucket(name) = b
    BY <1>1, <2>2 DEF Sees
  <2>3. CASE Bucket(name) # b
    <3>1. new[Bucket(name)] = index[Bucket(name)]
      BY <1>1, <2>1, <2>3
    <3>2. Sees(S, M, new, name, entry) <=> Sees(S, M, index, name, entry)
      BY <3>1 DEF Sees
    <3> QED
      BY <1>2, <2>3, <3>2
  <2> QED
    BY <2>2, <2>3
<1> QED
  BY <1>1, <1>3, <1>4, <1>5

\* IndexDel: with the room it needs, the index without the name; else the index stays.
LEMMA IndexDelIs ==
  ASSUME leafCells \in Seq(LeafCell), NEW R, NEW S, Extends(R, S), NamesHaveBuckets,
         NEW index \in [Buckets -> Nat], IndexOk(R, leafCells, index),
         NEW key \in Names, NEW room \in Nat
  PROVE  LET deleted == IndexDel(index, key, room)
             M == leafCells \o deleted.cells
         IN /\ deleted.cells \in Seq(LeafCell) /\ deleted.index \in [Buckets -> Nat]
            /\ deleted.full \in BOOLEAN /\ (~deleted.full => deleted.index = index)
            /\ deleted.full =>
                 /\ IndexOk(S, M, deleted.index)
                 /\ \A name \in Names : \A entry :
                      Sees(S, M, deleted.index, name, entry) <=>
                        name # key /\ Sees(R, leafCells, index, name, entry)
<1> DEFINE b == Bucket(key)
           p == index[b]
           t == Path(leafCells, p)
           cleared == LeafWithout(leafCells, p, key, room)
           deleted == IndexDel(index, key, room)
           M == leafCells \o deleted.cells
<1>1. b \in Buckets /\ p \in Nat
  BY DEF NamesHaveBuckets
<1>2. Homed(R, leafCells, b, p) /\ KeysDiffer(leafCells, t) /\ Chain(leafCells, p, t)
  BY <1>1 DEF IndexOk, Homed
<1>3. /\ cleared.cells \in Seq(LeafCell) /\ cleared.first \in Nat
      /\ cleared.full \in BOOLEAN /\ (~cleared.full => cleared.first = p)
      /\ \A d : cleared.full /\ Shared(leafCells, t, cleared.cells, d) =>
           \E u : /\ Chain(d, cleared.first, u)
                  /\ KeysDiffer(leafCells, t) => IsWithout(leafCells, t, key, d, u)
  <2> HIDE DEF t, p
  <2> QED
    BY <1>2, LeafWithoutIs
<1> HIDE DEF cleared
<1>4. LET changed == cleared.first # p
          copied == room > Len(cleared.cells)
      IN /\ deleted.cells = cleared.cells
         /\ deleted.index = IF changed /\ copied THEN [index EXCEPT ![b] = cleared.first] ELSE index
         /\ deleted.full = (cleared.full /\ (changed => copied))
  BY DEF IndexDel, cleared
<1> HIDE DEF deleted
<1>5. deleted.index \in [Buckets -> Nat] /\ deleted.full \in BOOLEAN
  BY <1>1, <1>3, <1>4
<1>6. ~deleted.full => deleted.index = index
  BY <1>3, <1>4
<1>7. ASSUME deleted.full
      PROVE  /\ IndexOk(S, M, deleted.index)
             /\ \A name \in Names : \A entry :
                  Sees(S, M, deleted.index, name, entry) <=>
                    name # key /\ Sees(R, leafCells, index, name, entry)
  <2>1. cleared.full /\ deleted.index = [index EXCEPT ![b] = cleared.first]
    <3>1. index = [index EXCEPT ![b] = p]
      BY <1>1
    <3> QED
      BY <1>4, <1>7, <3>1
  <2>2. Extends(leafCells, M) /\ Shared(leafCells, t, cleared.cells, M)
    <3>1. /\ Extends(leafCells, M) /\ Len(M) = Len(leafCells) + Len(cleared.cells)
          /\ \A j \in 1..Len(cleared.cells) : M[Len(leafCells) + j] = cleared.cells[j]
          /\ Len(cleared.cells) \in Nat
      BY <1>3, <1>4, ExtendsConcat
    <3>2. \A k \in 1..Len(t) : M[t[k]] = leafCells[t[k]]
      BY <1>2, <3>1, ListKept
    <3> HIDE DEF M, t, b, p
    <3> QED
      BY <3>1, <3>2 DEF Shared, Extends
  <2>3. PICK u : Chain(M, cleared.first, u) /\ IsWithout(leafCells, t, key, M, u)
    BY <1>2, <1>3, <2>1, <2>2
  <2>4. Path(M, cleared.first) = u
    BY <2>2, <2>3, PathAlong DEF Extends
  <2>5. KeysDiffer(M, u) /\ \A k, v : Holds(M, u, k, v) <=> k # key /\ Holds(leafCells, t, k, v)
    BY <2>3 DEF IsWithout
  <2>6. \A k, v : Holds(leafCells, t, k, v) =>
          /\ k \in Names /\ Bucket(k) = b
          /\ v \in 1..Len(S) /\ v \in 1..Len(R) /\ S[v] = R[v] /\ R[v].name = k
    BY <1>2 DEF Homed, Extends
  <2> HIDE DEF M, t
  <2>7. Homed(S, M, b, cleared.first)
    BY <2>3, <2>4, <2>5, <2>6 DEF Homed
  <2> DEFINE new == [index EXCEPT ![b] = cleared.first]
  <2>10. deleted.index = new
    BY <2>1
  <2> HIDE DEF new
  <2>8. /\ KeysDiffer(M, u) => IndexOk(S, M, new)
        /\ \A name \in Names : \A entry :
             /\ Bucket(name) # b =>
                  (Sees(S, M, new, name, entry) <=> Sees(R, leafCells, index, name, entry))
             /\ Bucket(name) = b =>
                  (Sees(S, M, new, name, entry) <=>
                     \E v : Holds(M, u, name, v) /\ S[v].entry = entry)
    <3> HIDE DEF b, p
    <3> DEFINE q == cleared.first
    <3>1. q \in Nat /\ Homed(S, M, b, q) /\ Path(M, q) = u /\ ChangedAt(index, new, b, q)
      BY <1>1, <1>3, <2>4, <2>7, ChangedIs DEF new
    <3> HIDE DEF q
    <3> QED
      BY <1>1, <2>2, <3>1, BucketChanged
  <2>9. ASSUME NEW name \in Names, NEW entry
        PROVE  Sees(S, M, new, name, entry) <=> name # key /\ Sees(R, leafCells, index, name, entry)
    <3>1. CASE Bucket(name) # b
      BY <2>8, <3>1
    <3>2. CASE Bucket(name) = b
      <4>1. Sees(R, leafCells, index, name, entry) <=>
              \E v : Holds(leafCells, t, name, v) /\ R[v].entry = entry
        BY <3>2 DEF Sees, t, p
      <4> QED
        BY <2>5, <2>6, <2>8, <3>2, <4>1
    <3> QED
      BY <3>1, <3>2
  <2> QED
    BY <2>5, <2>8, <2>9, <2>10
<1> QED
  BY <1>3, <1>4, <1>5, <1>6, <1>7 DEF deleted

\* The list at q is u with a leaf more in front.
Fronted(M, q, key, value, u) ==
  /\ Chain(M, q, <<q>> \o u) /\ Path(M, q) = <<q>> \o u
  /\ KeysDiffer(M, u) /\ (\A v : ~Holds(M, u, key, v)) => KeysDiffer(M, <<q>> \o u)
  /\ \A k, v : Holds(M, <<q>> \o u, k, v) <=> (k = key /\ v = value) \/ Holds(M, u, k, v)

\* A leaf before a bucket is found first.
LEMMA InFront ==
  ASSUME NEW M, Len(M) \in Nat, NEW q \in 1..Len(M), NEW key, NEW value, NEW rest,
         M[q].key = key, M[q].value = value, M[q].rest = rest, NEW u, Chain(M, rest, u)
  PROVE  Fronted(M, q, key, value, u)
<1> DEFINE w == <<q>> \o u
<1>1. /\ Chain(M, q, w) /\ Len(w) = Len(u) + 1 /\ Len(u) \in Nat
      /\ w[1] = q /\ \A k \in 1..Len(u) : w[k + 1] = u[k]
  BY ChainCons
<1>2. Path(M, q) = w
  BY <1>1, PathAlong
<1> HIDE DEF w
<1>3. \A k \in 1..Len(w) : k # 1 => k - 1 \in 1..Len(u) /\ w[k] = u[k - 1]
  <2> TAKE k \in 1..Len(w)
  <2> HAVE k # 1
  <2>1. k - 1 \in 1..Len(u) /\ k - 1 + 1 = k
    BY <1>1
  <2> QED
    BY <1>1, <2>1
<1>4. ASSUME KeysDiffer(M, u), \A v : ~Holds(M, u, key, v),
             NEW i \in 1..Len(w), NEW j \in 1..Len(w), M[w[i]].key = M[w[j]].key
      PROVE  i = j
  <2>1. \A k \in 1..Len(u) : M[u[k]].key # key
    BY <1>4 DEF Holds
  <2>2. \A k \in 1..Len(w) : k # 1 => M[w[k]].key # key
    BY <1>3, <2>1
  <2>3. CASE i # 1 /\ j # 1
    <3>1. i - 1 \in 1..Len(u) /\ j - 1 \in 1..Len(u) /\ M[u[i - 1]].key = M[u[j - 1]].key
      BY <1>3, <1>4, <2>3
    <3>2. i - 1 = j - 1
      BY <1>4, <3>1 DEF KeysDiffer
    <3> QED
      BY <3>2
  <2> QED
    BY <1>1, <1>4, <2>2, <2>3
<1>5. ASSUME NEW k, NEW v
      PROVE  Holds(M, w, k, v) <=> (k = key /\ v = value) \/ Holds(M, u, k, v)
  <2>1. ASSUME Holds(M, w, k, v) PROVE (k = key /\ v = value) \/ Holds(M, u, k, v)
    <3>1. PICK i \in 1..Len(w) : M[w[i]].key = k /\ M[w[i]].value = v
      BY <2>1 DEF Holds
    <3>2. CASE i = 1
      BY <1>1, <3>1, <3>2
    <3>3. CASE i # 1
      BY <1>3, <3>1, <3>3 DEF Holds
    <3> QED
      BY <3>2, <3>3
  <2>2. ASSUME k = key, v = value PROVE Holds(M, w, k, v)
    <3>1. 1 \in 1..Len(w)
      BY <1>1
    <3> QED
      BY <1>1, <2>2, <3>1 DEF Holds
  <2>3. ASSUME Holds(M, u, k, v) PROVE Holds(M, w, k, v)
    <3>1. PICK i \in 1..Len(u) : M[u[i]].key = k /\ M[u[i]].value = v
      BY <2>3 DEF Holds
    <3>2. i + 1 \in 1..Len(w) /\ w[i + 1] = u[i]
      BY <1>1
    <3> QED
      BY <3>1, <3>2 DEF Holds
  <2> QED
    BY <2>1, <2>2, <2>3
<1>6. KeysDiffer(M, u) /\ (\A v : ~Holds(M, u, key, v)) => KeysDiffer(M, w)
  BY <1>4 DEF KeysDiffer
<1> QED
  BY <1>1, <1>2, <1>5, <1>6 DEF w, Fronted

\* IndexSet: the buckets lead to rows of their names in any case; with the room it needs, the
\* index with the key leading to the new row.
SetsIndex(R, S, index, key, entry, set) ==
  LET M == leafCells \o set.cells
  IN /\ set.cells \in Seq(LeafCell) /\ set.index \in [Buckets -> Nat]
     /\ set.full \in BOOLEAN /\ \A b \in Buckets : Homed(S, M, b, set.index[b])
     /\ set.full =>
          /\ IndexOk(S, M, set.index)
          /\ \A name \in Names : \A e :
               Sees(S, M, set.index, name, e) <=>
                 IF name = key THEN e = entry ELSE Sees(R, leafCells, index, name, e)

\* Setting a key: if there was room it leads to the row given, and other names to where they led.
LEMMA IndexSetIs ==
  ASSUME leafCells \in Seq(LeafCell), NEW R, NEW S, Extends(R, S), NamesHaveBuckets,
         NEW index \in [Buckets -> Nat], IndexOk(R, leafCells, index),
         NEW key \in Names, NEW value \in 1..Len(S), S[value].name = key, NEW room \in Nat
  PROVE  SetsIndex(R, S, index, key, S[value].entry, IndexSet(index, key, value, room))
<1> DEFINE b == Bucket(key)
           p == index[b]
           t == Path(leafCells, p)
           set == IndexSet(index, key, value, room)
           M == leafCells \o set.cells
           cells == Append(leafCells, Leaf(key, value, NULL))
           cleared == LeafWithout(cells, p, key, room - 2)
           q == Len(leafCells) + 1
<1>1. b \in Buckets /\ p \in Nat /\ value \in Nat
  BY DEF NamesHaveBuckets
<1>2. Homed(R, leafCells, b, p) /\ KeysDiffer(leafCells, t) /\ Chain(leafCells, p, t)
  BY <1>1 DEF IndexOk, Homed
<1> HIDE DEF b, p, t, q
<1>3. CASE room < 2
  <2>1. set.cells = <<>> /\ set.index = index /\ set.full = FALSE
    BY <1>3 DEF IndexSet
  <2> HIDE DEF set, cells, cleared, M
  <2>2. <<>> \in Seq(LeafCell) /\ Extends(leafCells, leafCells \o <<>>)
    <3>1. <<>> \in Seq(LeafCell)
      OBVIOUS
    <3> QED
      BY <3>1, ExtendsConcat
  <2>3. IndexOk(S, M, index)
    BY <2>1, <2>2, VersionKept DEF M
  <2>4. \A a \in Buckets : Homed(S, M, a, set.index[a])
    BY <2>1, <2>3 DEF IndexOk
  <2> QED
    BY <2>1, <2>2, <2>4 DEF set, M, SetsIndex
<1>4. CASE ~(room < 2)
  <2>1. room - 2 \in Nat
    BY <1>4
  <2>2. cells \in Seq(LeafCell) /\ Extends(leafCells, cells) /\ Len(cells) = q
    BY <1>1 DEF Extends, Leaf, LeafCell, NULL, q
  <2>3. /\ set.cells = <<Leaf(key, value, cleared.first)>> \o cleared.cells
        /\ set.index = [index EXCEPT ![b] = q] /\ set.full = cleared.full
    BY <1>4 DEF IndexSet, b, p, q
  <2> HIDE DEF set, cells
  <2>4. Chain(cells, p, t) /\ \A k \in 1..Len(t) : /\ t[k] \in 1..Len(leafCells)
                                                   /\ cells[t[k]] = leafCells[t[k]]
    BY <1>2, <2>2, ChainKept
  <2>5. /\ cleared.cells \in Seq(LeafCell) /\ cleared.first \in Nat
        /\ cleared.full \in BOOLEAN /\ (~cleared.full => cleared.first = p)
        /\ \A d : cleared.full /\ Shared(cells, t, cleared.cells, d) =>
             \E u : /\ Chain(d, cleared.first, u)
                    /\ KeysDiffer(cells, t) => IsWithout(cells, t, key, d, u)
    BY <2>1, <2>2, <2>4, LeafWithoutIs
  <2> HIDE DEF cleared
  <2>6. /\ set.cells \in Seq(LeafCell) /\ set.cells[1] = Leaf(key, value, cleared.first)
        /\ Len(set.cells) = 1 + Len(cleared.cells) /\ Len(cleared.cells) \in Nat
        /\ \A j \in 1..Len(cleared.cells) : set.cells[1 + j] = cleared.cells[j]
    <3>1. Leaf(key, value, cleared.first) \in LeafCell
      BY <1>1, <2>5 DEF Leaf, LeafCell
    <3> HIDE DEF Leaf
    <3>2. <<Leaf(key, value, cleared.first)>> \in Seq(LeafCell)
          /\ Len(<<Leaf(key, value, cleared.first)>>) = 1
      BY <3>1
    <3> QED
      BY <2>3, <2>5, <3>2, ExtendsConcat
  <2>7. /\ M \in Seq(LeafCell) /\ Extends(leafCells, M)
        /\ Len(M) = q + Len(cleared.cells) /\ q \in 1..Len(M)
        /\ M[q] = Leaf(key, value, cleared.first)
        /\ \A j \in 1..Len(cleared.cells) : M[q + j] = cleared.cells[j]
    <3>1. /\ M \in Seq(LeafCell) /\ Extends(leafCells, M)
          /\ Len(M) = Len(leafCells) + Len(set.cells) /\ Len(leafCells) \in Nat
          /\ \A j \in 1..Len(set.cells) : M[Len(leafCells) + j] = set.cells[j]
      <4> DEFINE more == set.cells
      <4>1. more \in Seq(LeafCell) /\ M = leafCells \o more
        BY <2>6
      <4> HIDE DEF more, M
      <4>2. /\ M \in Seq(LeafCell) /\ Extends(leafCells, M)
            /\ Len(M) = Len(leafCells) + Len(more) /\ Len(leafCells) \in Nat
            /\ \A j \in 1..Len(more) : M[Len(leafCells) + j] = more[j]
        BY <4>1, ExtendsConcat
      <4> QED
        BY <4>2 DEF more
    <3> HIDE DEF M
    <3>2. M[q] = Leaf(key, value, cleared.first)
      BY <2>6, <3>1 DEF q
    <3>3. ASSUME NEW j \in 1..Len(cleared.cells) PROVE M[q + j] = cleared.cells[j]
      <4>1. 1 + j \in 1..Len(set.cells) /\ Len(leafCells) + (1 + j) = q + j
        BY <2>6, <3>1 DEF q
      <4>2. M[Len(leafCells) + (1 + j)] = set.cells[1 + j] /\ set.cells[1 + j] = cleared.cells[j]
        BY <2>6, <3>1, <4>1
      <4> QED
        BY <4>1, <4>2
    <3> QED
      <4>1. Len(M) = q + Len(cleared.cells) /\ q \in 1..Len(M)
        <5> DEFINE n == Len(leafCells)
                   m == Len(cleared.cells)
        <5>1. n \in Nat /\ m \in Nat /\ Len(M) = n + (1 + m) /\ q = n + 1
          BY <2>6, <3>1 DEF q
        <5> HIDE DEF n, m
        <5>2. Len(M) = q + m /\ q \in 1..Len(M)
          BY <5>1
        <5> QED
          BY <5>2 DEF m
      <4> QED
        BY <3>1, <3>2, <3>3, <4>1
  <2> HIDE DEF M
  <2>8. M[q].key = key /\ M[q].value = value /\ M[q].rest = cleared.first
    BY <2>7 DEF Leaf
  <2>9. \A k \in 1..Len(t) : M[t[k]] = leafCells[t[k]]
    BY <1>2, <2>7, ListKept DEF t
  <2>10. q \in Nat /\ ChangedAt(index, set.index, b, q) /\ set.index \in [Buckets -> Nat]
    <3>1. q \in Nat
      BY DEF q
    <3> HIDE DEF Leaf
    <3> QED
      BY <1>1, <2>3, <3>1, ChangedIs
  <2>11. \A k, v : Holds(leafCells, t, k, v) =>
          /\ k \in Names /\ Bucket(k) = b
          /\ v \in 1..Len(S) /\ v \in 1..Len(R) /\ S[v] = R[v] /\ R[v].name = k
    BY <1>2 DEF Homed, Extends, t
  <2>12. \A u : Chain(M, cleared.first, u) => Fronted(M, q, key, value, u)
    <3>1. Len(M) \in Nat /\ q \in 1..Len(M)
      BY <2>7 DEF Extends
    <3> QED
      BY <2>8, <3>1, InFront
  <2>13. CASE ~cleared.full
    <3>1. Chain(M, cleared.first, t) /\ \A k, v : Holds(M, t, k, v) <=> Holds(leafCells, t, k, v)
      <4>1. Chain(M, p, t)
        BY <1>2, <2>7, ChainKept
      <4> QED
        BY <2>5, <2>9, <2>13, <4>1 DEF Holds
    <3>2. Homed(S, M, b, q)
      <4>1. Chain(M, q, <<q>> \o t) /\ Path(M, q) = <<q>> \o t
            /\ \A k, v : Holds(M, <<q>> \o t, k, v) <=> (k = key /\ v = value) \/ Holds(leafCells, t, k, v)
        BY <2>12, <3>1 DEF Fronted
      <4>2. \A k, v : Holds(M, Path(M, q), k, v) =>
              k \in Names /\ Bucket(k) = b /\ v \in 1..Len(S) /\ S[v].name = k
        BY <2>11, <4>1 DEF b
      <4> QED
        BY <4>1, <4>2 DEF Homed
    <3>3. \A a \in Buckets : Homed(S, M, a, set.index[a])
      BY <2>7, <2>10, <3>2, BucketChanged
    <3> QED
      BY <2>3, <2>5, <2>6, <2>10, <2>13, <3>3 DEF set, M, SetsIndex
  <2>14. CASE cleared.full
    <3>1. Shared(cells, t, cleared.cells, M) /\ KeysDiffer(cells, t)
      <4>1. KeysDiffer(cells, t)
        BY <1>2, <2>4, Zenon DEF KeysDiffer
      <4>2. \A k \in 1..Len(t) : M[t[k]] = cells[t[k]]
        BY <2>4, <2>9
      <4>3. Len(M) \in Nat /\ Len(M) >= Len(cells) + Len(cleared.cells)
        BY <2>2, <2>6, <2>7 DEF Extends
      <4> QED
        BY <2>2, <2>7, <4>1, <4>2, <4>3 DEF Shared
    <3>2. PICK u : Chain(M, cleared.first, u) /\ IsWithout(cells, t, key, M, u)
      BY <2>5, <2>14, <3>1
    <3>3. \A k, v : Holds(cells, t, k, v) <=> Holds(leafCells, t, k, v)
      BY <2>4, Zenon DEF Holds
    <3>4. KeysDiffer(M, u) /\ \A k, v : Holds(M, u, k, v) <=> k # key /\ Holds(leafCells, t, k, v)
      BY <3>2, <3>3 DEF IsWithout
    <3> DEFINE w == <<q>> \o u
    <3>5. /\ Chain(M, q, w) /\ Path(M, q) = w /\ KeysDiffer(M, w)
          /\ \A k, v : Holds(M, w, k, v) <=> (k = key /\ v = value) \/ Holds(M, u, k, v)
      <4>1. Fronted(M, q, key, value, u) /\ \A v : ~Holds(M, u, key, v)
        BY <2>12, <3>2, <3>4
      <4> QED
        BY <3>4, <4>1 DEF Fronted
    <3> HIDE DEF w
    <3>6. Homed(S, M, b, q)
      <4>1. \A k, v : Holds(M, Path(M, q), k, v) =>
              k \in Names /\ Bucket(k) = b /\ v \in 1..Len(S) /\ S[v].name = k
        BY <2>11, <3>4, <3>5 DEF b
      <4> QED
        BY <3>5, <4>1 DEF Homed
    <3>7. /\ \A a \in Buckets : Homed(S, M, a, set.index[a])
          /\ IndexOk(S, M, set.index)
          /\ \A name \in Names : \A entry :
               /\ Bucket(name) # b =>
                    (Sees(S, M, set.index, name, entry) <=> Sees(R, leafCells, index, name, entry))
               /\ Bucket(name) = b =>
                    (Sees(S, M, set.index, name, entry) <=>
                       \E v : Holds(M, w, name, v) /\ S[v].entry = entry)
      BY <2>7, <2>10, <3>5, <3>6, BucketChanged
    <3>8. ASSUME NEW name \in Names, NEW entry
          PROVE  Sees(S, M, set.index, name, entry) <=>
                   IF name = key THEN entry = S[value].entry
                   ELSE Sees(R, leafCells, index, name, entry)
      <4>1. CASE Bucket(name) # b
        BY <3>7, <4>1 DEF b
      <4>2. CASE Bucket(name) = b
        <5>1. Sees(R, leafCells, index, name, entry) <=>
                \E v : Holds(leafCells, t, name, v) /\ R[v].entry = entry
          BY <4>2 DEF Sees, t, p
        <5> QED
          BY <2>11, <3>4, <3>5, <3>7, <4>2, <5>1
      <4> QED
        BY <4>1, <4>2
    <3> QED
      BY <2>3, <2>5, <2>6, <2>10, <2>14, <3>7, <3>8 DEF set, M, SetsIndex
  <2> QED
    BY <2>5, <2>13, <2>14
<1> QED
  BY <1>3, <1>4

-----------------------------------------------------------------------------
(* The operations.                                                         *)

\* A row in front of a list without its name.
LEMMA RowInFront ==
  ASSUME NEW S, Len(S) \in Nat, NEW q \in 1..Len(S), NEW u, Chain(S, S[q].rest, u),
         NamesDiffer(S, u), \A e : ~HasRow(S, u, S[q].name, e)
  PROVE  /\ RowsOk(S, q)
         /\ \A n, e : HasRow(S, Path(S, q), n, e) <=>
                        (n = S[q].name /\ e = S[q].entry) \/ HasRow(S, u, n, e)
<1> DEFINE w == <<q>> \o u
<1>1. /\ Chain(S, q, w) /\ Len(w) = Len(u) + 1 /\ Len(u) \in Nat
      /\ w[1] = q /\ \A k \in 1..Len(u) : w[k + 1] = u[k]
  BY ChainCons
<1>2. Path(S, q) = w
  BY <1>1, PathAlong
<1> HIDE DEF w
<1>3. \A k \in 1..Len(w) : k # 1 => k - 1 \in 1..Len(u) /\ w[k] = u[k - 1]
  <2> TAKE k \in 1..Len(w)
  <2> HAVE k # 1
  <2>1. k - 1 \in 1..Len(u) /\ k - 1 + 1 = k
    BY <1>1
  <2> QED
    BY <1>1, <2>1
<1>4. ASSUME NEW i \in 1..Len(w), NEW j \in 1..Len(w), S[w[i]].name = S[w[j]].name
      PROVE  i = j
  <2>1. \A k \in 1..Len(u) : S[u[k]].name # S[q].name
    BY DEF HasRow
  <2>2. \A k \in 1..Len(w) : k # 1 => S[w[k]].name # S[q].name
    BY <1>3, <2>1
  <2>3. CASE i # 1 /\ j # 1
    <3>1. i - 1 \in 1..Len(u) /\ j - 1 \in 1..Len(u) /\ S[u[i - 1]].name = S[u[j - 1]].name
      BY <1>3, <1>4, <2>3
    <3>2. i - 1 = j - 1
      BY <3>1 DEF NamesDiffer
    <3> QED
      BY <3>2
  <2> QED
    BY <1>1, <1>4, <2>2, <2>3
<1>5. ASSUME NEW n, NEW e
      PROVE  HasRow(S, w, n, e) <=> (n = S[q].name /\ e = S[q].entry) \/ HasRow(S, u, n, e)
  <2>1. ASSUME HasRow(S, w, n, e) PROVE (n = S[q].name /\ e = S[q].entry) \/ HasRow(S, u, n, e)
    <3>1. PICK i \in 1..Len(w) : S[w[i]].name = n /\ S[w[i]].entry = e
      BY <2>1 DEF HasRow
    <3>2. CASE i = 1
      BY <1>1, <3>1, <3>2
    <3>3. CASE i # 1
      BY <1>3, <3>1, <3>3 DEF HasRow
    <3> QED
      BY <3>2, <3>3
  <2>2. ASSUME n = S[q].name, e = S[q].entry PROVE HasRow(S, w, n, e)
    <3>1. 1 \in 1..Len(w)
      BY <1>1
    <3> QED
      BY <1>1, <2>2, <3>1 DEF HasRow
  <2>3. ASSUME HasRow(S, u, n, e) PROVE HasRow(S, w, n, e)
    <3>1. PICK i \in 1..Len(u) : S[u[i]].name = n /\ S[u[i]].entry = e
      BY <2>3 DEF HasRow
    <3>2. i + 1 \in 1..Len(w) /\ w[i + 1] = u[i]
      BY <1>1
    <3> QED
      BY <3>1, <3>2 DEF HasRow
  <2> QED
    BY <2>1, <2>2, <2>3
<1>6. RowsOk(S, q)
  BY <1>1, <1>2, <1>4 DEF RowsOk, NamesDiffer
<1> QED
  BY <1>2, <1>5, <1>6

VersionSet == [rows : Nat, index : [Buckets -> Nat]]

\* While memory lasts the cells are of their kind, and in every version rows and index say the
\* same.
IInv ==
  /\ oom \in BOOLEAN
  /\ ~oom => /\ rowCells \in Seq(RowCell) /\ leafCells \in Seq(LeafCell)
             /\ versions \in Seq(VersionSet)
             /\ \A i \in DOMAIN versions : VersionOk(rowCells, leafCells, versions[i])

\* A step that adds cells behind those there are, and a version; its buckets lead to rows of
\* their names, and it is as a version should be if the step says that there was room.
Grows(new) ==
  /\ versions' = Append(versions, new)
  /\ rowCells' \in Seq(RowCell) /\ Extends(rowCells, rowCells')
  /\ leafCells' \in Seq(LeafCell) /\ Extends(leafCells, leafCells')
  /\ oom' \in BOOLEAN
  /\ \A b \in Buckets : Homed(rowCells', leafCells', b, new.index[b])
  /\ ~oom' => new \in VersionSet /\ VersionOk(rowCells', leafCells', new)

\* A version is a list of rows and an index.
LEMMA VersionParts ==
  ASSUME NEW R, NEW L, NEW rows, NEW index \in [Buckets -> Nat], RowsOk(R, rows), IndexOk(R, L, index),
         \A name \in Names : \A entry :
           HasRow(R, Path(R, rows), name, entry) <=> Sees(R, L, index, name, entry)
  PROVE  Version(rows, index) \in VersionSet /\ VersionOk(R, L, Version(rows, index))
<1>1. Version(rows, index).rows = rows /\ Version(rows, index).index = index
  BY DEF Version
<1>2. rows \in Nat
  BY DEF RowsOk, Chain, AfterIn, NULL
<1>3. Version(rows, index) \in VersionSet
  BY <1>2 DEF Version, VersionSet
<1> QED
  BY <1>1, <1>3 DEF VersionOk

\* What removing a family does: a new version, which sees every name but the one removed.
LEMMA WithoutStep ==
  ASSUME IInv, NamesHaveBuckets, NEW from, NEW name \in Names, NEW room \in Nat,
         WithoutFamily(from, name, room)
  PROVE  /\ from \in DOMAIN versions /\ ~oom
         /\ \E new :
              /\ Grows(new)
              /\ ~oom' => \A n \in Names : \A e :
                   Sees(rowCells', leafCells', new.index, n, e) <=>
                     n # name /\ Sees(rowCells, leafCells, versions[from].index, n, e)
<1> DEFINE v == versions[from]
           s == Path(rowCells, v.rows)
           removed == RemoveRow(v.rows, name, room)
           left == IF removed.full THEN room - Len(removed.cells) ELSE 0
           indexed == IndexDel(v.index, name, left)
           new == Version(removed.first, indexed.index)
<1>1. from \in DOMAIN versions /\ ~oom
  BY DEF WithoutFamily, Operation
<1>2. /\ rowCells \in Seq(RowCell) /\ leafCells \in Seq(LeafCell)
      /\ v \in VersionSet /\ VersionOk(rowCells, leafCells, v)
  BY <1>1 DEF IInv
<1>3. /\ v.index \in [Buckets -> Nat] /\ IndexOk(rowCells, leafCells, v.index)
      /\ Chain(rowCells, v.rows, s) /\ NamesDiffer(rowCells, s)
      /\ \A n \in Names : \A e : HasRow(rowCells, s, n, e) <=> Sees(rowCells, leafCells, v.index, n, e)
  BY <1>2 DEF VersionSet, VersionOk, RowsOk
<1>4. /\ rowCells' = rowCells \o removed.cells /\ leafCells' = leafCells \o indexed.cells
      /\ versions' = Append(versions, new) /\ oom' = ~(removed.full /\ indexed.full)
  BY DEF WithoutFamily
<1> HIDE DEF v, s
<1>5. /\ removed.cells \in Seq(RowCell) /\ Len(removed.cells) <= room
      /\ \A d : Behind(rowCells, removed.cells, d) /\ removed.full =>
           \E u : Chain(d, removed.first, u) /\ LacksRow(rowCells, s, name, d, u)
  BY <1>2, <1>3, RemoveRowIs
<1> HIDE DEF removed
<1>6. left \in Nat
  BY <1>5
<1>7. /\ rowCells' \in Seq(RowCell) /\ Extends(rowCells, rowCells')
      /\ Behind(rowCells, removed.cells, rowCells')
  BY <1>2, <1>4, <1>5, ExtendsConcat DEF Behind
<1> HIDE DEF left
<1>8. LET M == leafCells \o indexed.cells
      IN /\ indexed.cells \in Seq(LeafCell) /\ indexed.index \in [Buckets -> Nat]
         /\ indexed.full \in BOOLEAN /\ (~indexed.full => indexed.index = v.index)
         /\ indexed.full =>
              /\ IndexOk(rowCells', M, indexed.index)
              /\ \A n \in Names : \A e :
                   Sees(rowCells', M, indexed.index, n, e) <=>
                     n # name /\ Sees(rowCells, leafCells, v.index, n, e)
  BY <1>2, <1>3, <1>6, <1>7, IndexDelIs
<1> HIDE DEF indexed
<1>9. leafCells' \in Seq(LeafCell) /\ Extends(leafCells, leafCells')
  BY <1>2, <1>4, <1>8, ExtendsConcat
<1>10. new.index = indexed.index /\ new.rows = removed.first
  BY DEF Version
<1>11. \A b \in Buckets : Homed(rowCells', leafCells', b, indexed.index[b])
  <2>1. CASE indexed.full
    BY <1>4, <1>8, <2>1 DEF IndexOk
  <2>2. CASE ~indexed.full
    <3>1. IndexOk(rowCells', leafCells', v.index)
      BY <1>3, <1>7, <1>9, VersionKept
    <3> QED
      BY <1>8, <2>2, <3>1 DEF IndexOk
  <2> QED
    BY <2>1, <2>2
<1>12. ASSUME ~oom'
       PROVE  /\ new \in VersionSet /\ VersionOk(rowCells', leafCells', new)
              /\ \A n \in Names : \A e :
                   Sees(rowCells', leafCells', new.index, n, e) <=>
                     n # name /\ Sees(rowCells, leafCells, v.index, n, e)
  <2>1. removed.full /\ indexed.full
    BY <1>4, <1>12
  <2>2. PICK u : /\ Chain(rowCells', removed.first, u) /\ NamesDiffer(rowCells', u)
                 /\ \A n, e : HasRow(rowCells', u, n, e) <=> n # name /\ HasRow(rowCells, s, n, e)
    BY <1>3, <1>5, <1>7, <2>1 DEF LacksRow
  <2>3. Path(rowCells', removed.first) = u
    BY <1>7, <2>2, PathAlong DEF Extends
  <2>4. RowsOk(rowCells', removed.first)
    BY <2>2, <2>3 DEF RowsOk
  <2>5. /\ IndexOk(rowCells', leafCells', indexed.index)
        /\ \A n \in Names : \A e :
             Sees(rowCells', leafCells', indexed.index, n, e) <=>
               n # name /\ Sees(rowCells, leafCells, v.index, n, e)
    BY <1>4, <1>8, <2>1
  <2>6. \A n \in Names : \A e :
          HasRow(rowCells', Path(rowCells', removed.first), n, e) <=>
            Sees(rowCells', leafCells', indexed.index, n, e)
    BY <1>3, <2>2, <2>3, <2>5
  <2>7. new \in VersionSet /\ VersionOk(rowCells', leafCells', new)
    BY <1>8, <2>4, <2>5, <2>6, VersionParts
  <2> QED
    BY <1>10, <2>5, <2>7
<1>13. oom' \in BOOLEAN
  BY <1>4, <1>8
<1>14. Grows(new)
  BY <1>4, <1>7, <1>9, <1>10, <1>11, <1>12, <1>13 DEF Grows
<1> QED
  BY <1>1, <1>12, <1>14 DEF v

\* The new version sees the entry that was added, and what the old one saw otherwise.
Adds(from, name, entry, new) ==
  ~oom' => \A n \in Names : \A e :
    Sees(rowCells', leafCells', new.index, n, e) <=>
      IF n = name THEN e = entry
      ELSE Sees(rowCells, leafCells, versions[from].index, n, e)

\* What add does: a new version, which sees the entry added.
LEMMA AddStep ==
  ASSUME IInv, NamesHaveBuckets, NEW from, NEW name \in Names, NEW entry \in Entries, NEW room \in Nat,
         GlobalAdd(from, name, entry, room)
  PROVE  /\ from \in DOMAIN versions /\ ~oom
         /\ \E new : Grows(new) /\ Adds(from, name, entry, new)
<1> DEFINE v == versions[from]
           s == Path(rowCells, v.rows)
           there == Present(leafCells, v.index, name)
           removed == IF there THEN RemoveRow(v.rows, name, room)
                      ELSE [cells |-> <<>>, first |-> v.rows, full |-> TRUE]
           consed == removed.full /\ room > Len(removed.cells)
           row == Len(rowCells) + Len(removed.cells) + 1
           left == room - Len(removed.cells) - 1
           indexed == IndexSet(v.index, name, row, left)
           front == Row(name, entry, removed.first)
<1>1. from \in DOMAIN versions /\ ~oom
  BY DEF GlobalAdd, Operation
<1>2. /\ rowCells \in Seq(RowCell) /\ leafCells \in Seq(LeafCell)
      /\ v \in VersionSet /\ VersionOk(rowCells, leafCells, v)
  BY <1>1 DEF IInv
<1>3. /\ v.index \in [Buckets -> Nat] /\ IndexOk(rowCells, leafCells, v.index)
      /\ v.rows \in Nat /\ Chain(rowCells, v.rows, s) /\ NamesDiffer(rowCells, s)
      /\ \A n \in Names : \A e : HasRow(rowCells, s, n, e) <=> Sees(rowCells, leafCells, v.index, n, e)
  BY <1>2 DEF VersionSet, VersionOk, RowsOk
<1>4. IF consed
      THEN /\ rowCells' = rowCells \o removed.cells \o <<front>>
           /\ leafCells' = leafCells \o indexed.cells
           /\ versions' = Append(versions, Version(row, indexed.index))
           /\ oom' = ~indexed.full
      ELSE /\ rowCells' = rowCells \o removed.cells /\ leafCells' = leafCells
           /\ versions' = Append(versions, Version(removed.first, v.index))
           /\ oom' = TRUE
  BY DEF GlobalAdd
<1> HIDE DEF v, s
<1>5. ~there => \A e : ~HasRow(rowCells, s, name, e)
  <2>1. Homed(rowCells, leafCells, Bucket(name), v.index[Bucket(name)])
    BY <1>3 DEF NamesHaveBuckets, IndexOk
  <2>2. ~there => \A w : ~Holds(leafCells, Path(leafCells, v.index[Bucket(name)]), name, w)
    <3>1. Len(leafCells) \in Nat
      BY <1>2
    <3> HIDE DEF removed, consed, indexed
    <3> QED
      BY <2>1, <3>1, FindIs
  <2> HIDE DEF there
  <2> QED
    BY <1>3, <2>2 DEF Sees
<1> HIDE DEF there
<1>6. /\ removed.cells \in Seq(RowCell) /\ Len(removed.cells) \in Nat /\ Len(removed.cells) <= room
      /\ \A d : Behind(rowCells, removed.cells, d) /\ removed.full =>
           \E u : Chain(d, removed.first, u) /\ LacksRow(rowCells, s, name, d, u)
  <2>1. CASE there
    <3>1. removed = RemoveRow(v.rows, name, room)
      BY <2>1
    <3> HIDE DEF removed
    <3>2. /\ removed.cells \in Seq(RowCell) /\ Len(removed.cells) <= room
          /\ \A d : Behind(rowCells, removed.cells, d) /\ removed.full =>
               \E u : Chain(d, removed.first, u) /\ LacksRow(rowCells, s, name, d, u)
      BY <1>2, <1>3, <3>1, RemoveRowIs
    <3> QED
      BY <3>2
  <2>2. CASE ~there
    <3>1. removed.cells = <<>> /\ removed.first = v.rows /\ <<>> \in Seq(RowCell) /\ Len(<<>>) = 0
      BY <2>2
    <3> HIDE DEF removed
    <3>2. ASSUME NEW d, Behind(rowCells, removed.cells, d)
          PROVE  Chain(d, removed.first, s) /\ LacksRow(rowCells, s, name, d, s)
      <4>1. Extends(rowCells, d)
        BY <3>2 DEF Behind
      <4>2. Chain(d, v.rows, s) /\ \A k \in 1..Len(s) : d[s[k]] = rowCells[s[k]]
        BY <1>3, <4>1, ChainKept
      <4>3. \A n, e : HasRow(d, s, n, e) <=> HasRow(rowCells, s, n, e)
        BY <4>2, Zenon DEF HasRow
      <4>4. NamesDiffer(d, s)
        BY <1>3, <4>2, Zenon DEF NamesDiffer
      <4> QED
        BY <1>5, <2>2, <3>1, <4>2, <4>3, <4>4 DEF LacksRow
    <3> QED
      BY <3>1, <3>2
  <2> QED
    BY <2>1, <2>2
<1> HIDE DEF removed
<1> DEFINE before == rowCells \o removed.cells
<1>7. /\ before \in Seq(RowCell) /\ Extends(rowCells, before) /\ Behind(rowCells, removed.cells, before)
      /\ Len(before) + 1 = row
  <2>1. /\ before \in Seq(RowCell) /\ Extends(rowCells, before)
        /\ Len(before) = Len(rowCells) + Len(removed.cells)
        /\ \A j \in 1..Len(removed.cells) : before[Len(rowCells) + j] = removed.cells[j]
    BY <1>2, <1>6, ExtendsConcat
  <2> HIDE DEF before
  <2> QED
    BY <1>2, <1>6, <2>1 DEF Behind
<1>8. CASE ~consed
  <2> DEFINE new == Version(removed.first, v.index)
  <2>1. /\ rowCells' = before /\ leafCells' = leafCells
        /\ versions' = Append(versions, new) /\ oom' = TRUE /\ new.index = v.index
    BY <1>4, <1>8 DEF Version
  <2> HIDE DEF new, before
  <2>2. Extends(leafCells, leafCells)
    BY <1>2, ExtendsRefl
  <2>3. IndexOk(rowCells', leafCells', v.index)
    BY <1>3, <1>7, <2>1, <2>2, VersionKept
  <2>4. \A b \in Buckets : Homed(rowCells', leafCells', b, new.index[b])
    BY <2>1, <2>3 DEF IndexOk
  <2>5. Grows(new)
    BY <1>2, <1>7, <2>1, <2>2, <2>4 DEF Grows
  <2> QED
    BY <1>1, <2>1, <2>5 DEF Adds
<1>9. CASE consed
  <2> DEFINE new == Version(row, indexed.index)
  <2>1. /\ rowCells' = before \o <<front>> /\ leafCells' = leafCells \o indexed.cells
        /\ versions' = Append(versions, new) /\ oom' = ~indexed.full
        /\ new.rows = row /\ new.index = indexed.index
    BY <1>4, <1>9 DEF Version
  <2>2. left \in Nat /\ removed.full
    BY <1>6, <1>9
  <2> HIDE DEF before, left, front, consed
  <2>3. PICK u : Chain(before, removed.first, u) /\ LacksRow(rowCells, s, name, before, u)
    BY <1>6, <1>7, <2>2
  <2>4. removed.first \in Nat
    BY <1>7, <2>3 DEF Chain, AfterIn, NULL
  <2>5. front \in RowCell /\ front.name = name /\ front.entry = entry /\ front.rest = removed.first
    BY <2>4 DEF front, Row, RowCell
  <2>6. /\ rowCells' \in Seq(RowCell) /\ Extends(before, rowCells') /\ Extends(rowCells, rowCells')
        /\ Len(rowCells') = row /\ rowCells'[row] = front /\ row \in 1..Len(rowCells')
    <3>1. <<front>> \in Seq(RowCell) /\ Len(<<front>>) = 1 /\ <<front>>[1] = front
      BY <2>5
    <3>2. /\ rowCells' \in Seq(RowCell) /\ Extends(before, rowCells')
          /\ Len(rowCells') = Len(before) + 1 /\ rowCells'[Len(before) + 1] = front
      <4> DEFINE more == <<front>>
      <4>1. more \in Seq(RowCell) /\ Len(more) = 1 /\ more[1] = front /\ rowCells' = before \o more
        BY <2>1, <3>1
      <4> HIDE DEF more, row, indexed, new
      <4>2. /\ rowCells' \in Seq(RowCell) /\ Extends(before, rowCells')
            /\ Len(rowCells') = Len(before) + Len(more)
            /\ \A j \in 1..Len(more) : rowCells'[Len(before) + j] = more[j]
        BY <1>7, <4>1, ExtendsConcat
      <4> QED
        BY <4>1, <4>2
    <3>3. row \in 1..Len(rowCells')
      <4> HIDE DEF row
      <4> QED
        BY <1>7, <3>2
    <3>4. Extends(rowCells, rowCells')
      BY <1>7, <3>2 DEF Extends
    <3> QED
      BY <1>7, <3>2, <3>3, <3>4
  <2> HIDE DEF row
  <2>7. SetsIndex(rowCells, rowCells', v.index, name, entry, indexed)
    <3>1. rowCells'[row].name = name /\ rowCells'[row].entry = entry
      BY <2>5, <2>6
    <3> HIDE DEF new
    <3>2. SetsIndex(rowCells, rowCells', v.index, name, rowCells'[row].entry, indexed)
      BY <1>2, <1>3, <2>2, <2>6, <3>1, IndexSetIs
    <3> QED
      BY <3>1, <3>2
  <2> HIDE DEF indexed, new
  <2>8. leafCells' \in Seq(LeafCell) /\ Extends(leafCells, leafCells')
    <3>1. indexed.cells \in Seq(LeafCell)
      BY <2>7 DEF SetsIndex
    <3> QED
      BY <1>2, <2>1, <3>1, ExtendsConcat
  <2>9. ASSUME ~oom'
        PROVE  /\ new \in VersionSet /\ VersionOk(rowCells', leafCells', new)
               /\ \A n \in Names : \A e :
                    Sees(rowCells', leafCells', new.index, n, e) <=>
                      IF n = name THEN e = entry ELSE Sees(rowCells, leafCells, v.index, n, e)
    <3>1. /\ IndexOk(rowCells', leafCells', indexed.index)
          /\ \A n \in Names : \A e :
               Sees(rowCells', leafCells', indexed.index, n, e) <=>
                 IF n = name THEN e = entry ELSE Sees(rowCells, leafCells, v.index, n, e)
      BY <2>1, <2>7, <2>9 DEF SetsIndex
    <3>2. Chain(rowCells', rowCells'[row].rest, u) /\ \A k \in 1..Len(u) : rowCells'[u[k]] = before[u[k]]
      BY <2>3, <2>5, <2>6, ChainKept
    <3>3. NamesDiffer(before, u) /\ \A n, e : HasRow(before, u, n, e) <=> n # name /\ HasRow(rowCells, s, n, e)
      BY <1>3, <2>3 DEF LacksRow
    <3>4. NamesDiffer(rowCells', u)
      BY <3>2, <3>3, Zenon DEF NamesDiffer
    <3>5. \A n, e : HasRow(rowCells', u, n, e) <=> n # name /\ HasRow(rowCells, s, n, e)
      <4>1. \A n, e : HasRow(rowCells', u, n, e) <=> HasRow(before, u, n, e)
        BY <3>2, Zenon DEF HasRow
      <4> QED
        BY <3>3, <4>1
    <3>6. /\ RowsOk(rowCells', row)
          /\ \A n, e : HasRow(rowCells', Path(rowCells', row), n, e) <=>
                         (n = name /\ e = entry) \/ HasRow(rowCells', u, n, e)
      <4>1. \A e : ~HasRow(rowCells', u, rowCells'[row].name, e)
        BY <2>5, <2>6, <3>5
      <4>2. Len(rowCells') \in Nat
        BY <2>6
      <4>3. /\ RowsOk(rowCells', row)
            /\ \A n, e : HasRow(rowCells', Path(rowCells', row), n, e) <=>
                           (n = rowCells'[row].name /\ e = rowCells'[row].entry) \/ HasRow(rowCells', u, n, e)
        BY <2>6, <3>2, <3>4, <4>1, <4>2, RowInFront
      <4> QED
        BY <2>5, <2>6, <4>3
    <3>7. \A n \in Names : \A e :
            HasRow(rowCells', Path(rowCells', row), n, e) <=>
              Sees(rowCells', leafCells', indexed.index, n, e)
      <4> TAKE n \in Names
      <4> TAKE e
      <4>1. CASE n = name
        BY <3>1, <3>5, <3>6, <4>1
      <4>2. CASE n # name
        BY <1>3, <3>1, <3>5, <3>6, <4>2
      <4> QED
        BY <4>1, <4>2
    <3>8. new \in VersionSet /\ VersionOk(rowCells', leafCells', new)
      <4>1. indexed.index \in [Buckets -> Nat]
        BY <2>7 DEF SetsIndex
      <4> QED
        BY <3>1, <3>6, <3>7, <4>1, VersionParts DEF new
    <3> QED
      BY <2>1, <3>1, <3>8
  <2>10. oom' \in BOOLEAN /\ \A b \in Buckets : Homed(rowCells', leafCells', b, new.index[b])
    BY <2>1, <2>7 DEF SetsIndex
  <2>11. Grows(new)
    BY <2>1, <2>6, <2>8, <2>9, <2>10 DEF Grows
  <2> QED
    BY <1>1, <2>9, <2>11 DEF v, Adds
<1> QED
  BY <1>8, <1>9

-----------------------------------------------------------------------------
(* Compaction.                                                             *)

\* A copied leaf leads to the copied row of its name, if there is one.
LEMMA RemapIs ==
  ASSUME NEW items, Len(items) \in Nat, DOMAIN items = 1..Len(items), NEW key
  PROVE  /\ Remap(items, key) \in Nat
         /\ (\E j \in 1..Len(items) : items[j].name = key) =>
              Remap(items, key) \in 1..Len(items) /\ items[Remap(items, key)].name = key
<1> DEFINE hits == {j \in DOMAIN items : items[j].name = key}
<1>1. hits \in SUBSET Nat /\ \A j : j \in hits <=> j \in 1..Len(items) /\ items[j].name = key
  OBVIOUS
<1>2. Remap(items, key) = IF hits = {} THEN NULL ELSE First(hits)
  BY DEF Remap
<1> HIDE DEF hits
<1>3. hits # {} => First(hits) \in hits
  BY <1>1, FirstIsLeast
<1> QED
  BY <1>1, <1>2, <1>3 DEF NULL

\* Where the copy of a leaf is, and M as the copies of the leaves of L.
Copy(leaves, p) == IF p = NULL THEN NULL ELSE Place(leaves, p)
AreCopied(L, leaves, items, M) ==
  /\ Len(M) = Cardinality(leaves)
  /\ \A q \in leaves : /\ M[Place(leaves, q)].key = L[q].key
                       /\ M[Place(leaves, q)].value = Remap(items, L[q].key)
                       /\ M[Place(leaves, q)].rest = Copy(leaves, L[q].rest)

\* The cells w of M say what the cells t of L say.
SayTheSame(L, t, items, M, w) ==
  /\ Len(w) = Len(t)
  /\ \A k \in 1..Len(t) : M[w[k]].key = L[t[k]].key /\ M[w[k]].value = Remap(items, L[t[k]].key)

\* The copies of the leaves of a list are a list.
LEMMA CopiedBucket ==
  ASSUME NEW L, Len(L) \in Nat, NEW leaves \in SUBSET Nat, IsFiniteSet(leaves),
         NEW items, NEW M, AreCopied(L, leaves, items, M),
         NEW p, NEW t, Chain(L, p, t), \A k \in 1..Len(t) : t[k] \in leaves
  PROVE  \E w : /\ Chain(M, Copy(leaves, p), w) /\ Path(M, Copy(leaves, p)) = w
                /\ SayTheSame(L, t, items, M, w)
<1> DEFINE w == [k \in 1..Len(t) |-> Place(leaves, t[k])]
<1>1. /\ Len(t) \in Nat /\ p = AfterIn(t, 0)
      /\ \A k \in 1..Len(t) : t[k] \in 1..Len(L) /\ L[t[k]].rest = AfterIn(t, k)
  BY DEF Chain
<1>2. Len(M) \in Nat /\ \A q \in leaves : Place(leaves, q) \in 1..Len(M)
  BY AscendingIs DEF AreCopied
<1>3. w \in Seq(1..Len(M)) /\ Len(w) = Len(t) /\ \A k \in 1..Len(t) : w[k] = Place(leaves, t[k])
  BY <1>1, <1>2
<1> HIDE DEF w
<1>4. \A k \in 0..Len(t) : AfterIn(w, k) = Copy(leaves, AfterIn(t, k))
  <2> TAKE k \in 0..Len(t)
  <2>1. CASE k < Len(t)
    <3>1. k + 1 \in 1..Len(t)
      BY <1>1, <2>1
    <3>2. t[k + 1] # NULL /\ w[k + 1] = Place(leaves, t[k + 1])
      BY <1>1, <1>3, <3>1 DEF NULL
    <3> QED
      BY <1>3, <2>1, <3>2 DEF AfterIn, Copy
  <2>2. CASE ~(k < Len(t))
    BY <1>3, <2>2 DEF AfterIn, Copy
  <2> QED
    BY <2>1, <2>2
<1>5. \A k \in 1..Len(t) : /\ M[w[k]].key = L[t[k]].key
                           /\ M[w[k]].value = Remap(items, L[t[k]].key)
                           /\ M[w[k]].rest = AfterIn(w, k)
  <2> TAKE k \in 1..Len(t)
  <2>1. AfterIn(w, k) = Copy(leaves, L[t[k]].rest)
    BY <1>1, <1>4
  <2> QED
    BY <1>3, <2>1 DEF AreCopied
<1>6. Copy(leaves, p) = AfterIn(w, 0)
  BY <1>1, <1>4
<1>7. Chain(M, Copy(leaves, p), w)
  BY <1>3, <1>5, <1>6 DEF Chain
<1>8. Path(M, Copy(leaves, p)) = w
  BY <1>2, <1>7, PathAlong
<1> QED
  BY <1>3, <1>5, <1>7, <1>8 DEF SayTheSame

\* What copied leaves say.
LEMMA CopiesHold ==
  ASSUME NEW L, NEW t, NEW items, NEW M, NEW w, SayTheSame(L, t, items, M, w)
  PROVE  /\ KeysDiffer(L, t) => KeysDiffer(M, w)
         /\ \A n, y : Holds(M, w, n, y) => y = Remap(items, n) /\ \E x : Holds(L, t, n, x)
         /\ \A n, x : Holds(L, t, n, x) => Holds(M, w, n, Remap(items, n))
<1>0. /\ Len(w) = Len(t)
      /\ \A k \in 1..Len(t) : M[w[k]].key = L[t[k]].key /\ M[w[k]].value = Remap(items, L[t[k]].key)
  BY DEF SayTheSame
<1>1. KeysDiffer(L, t) => KeysDiffer(M, w)
  BY <1>0 DEF KeysDiffer
<1>2. ASSUME NEW n, NEW y, Holds(M, w, n, y) PROVE y = Remap(items, n) /\ \E x : Holds(L, t, n, x)
  <2>1. PICK k \in 1..Len(t) : M[w[k]].key = n /\ M[w[k]].value = y
    BY <1>0, <1>2 DEF Holds
  <2>2. Holds(L, t, n, L[t[k]].value)
    BY <1>0, <2>1 DEF Holds
  <2> QED
    BY <1>0, <2>1, <2>2
<1>3. ASSUME NEW n, NEW x, Holds(L, t, n, x) PROVE Holds(M, w, n, Remap(items, n))
  <2>1. PICK k \in 1..Len(t) : L[t[k]].key = n
    BY <1>3 DEF Holds
  <2> QED
    BY <1>0, <2>1 DEF Holds
<1> QED
  BY <1>1, <1>2, <1>3

\* S has the rows of s in its first cells, as a list.
RowsCopied(R, s, items, S) ==
  /\ Len(S) = Len(items)
  /\ \A j \in 1..Len(items) : S[j].name = items[j].name /\ S[j].entry = items[j].entry
  /\ RowsOk(S, FirstNew(<<>>, items))
  /\ \A n, e : HasRow(S, Path(S, FirstNew(<<>>, items)), n, e) <=> HasRow(R, s, n, e)

\* The rows of a copy: a list of as many cells, with the same names and entries.
LEMMA CompactRows ==
  ASSUME NEW R \in Seq(RowCell), NEW p, NEW s, Chain(R, p, s), NamesDiffer(R, s),
         NEW items \in Seq(RowCell), Len(items) = Len(s), \A j \in 1..Len(s) : items[j] = R[s[j]],
         NEW S, S = RowList(<<>>, items)
  PROVE  RowsCopied(R, s, items, S)
<1> DEFINE first == FirstNew(<<>>, items)
<1>1. Len(s) \in Nat /\ \A k \in 1..Len(s) : s[k] \in 1..Len(R)
  BY DEF Chain
<1>2. S \in Seq(RowCell) /\ Len(S) = Len(items)
  <2>1. Len(<<>>) \in Nat
    OBVIOUS
  <2> QED
    BY <2>1, RowListType
<1>3. <<>> \in Seq(RowCell) /\ Behind(<<>>, RowList(<<>>, items), S)
  <2>1. <<>> \in Seq(RowCell) /\ Len(<<>>) = 0 /\ Len(S) \in Nat
    BY <1>2
  <2> QED
    BY <2>1 DEF Behind, Extends
<1>4. PICK u : /\ Chain(S, first, u) /\ Len(u) = Len(items)
               /\ \A j \in 1..Len(u) : S[u[j]].name = items[j].name /\ S[u[j]].entry = items[j].entry
  <2> DEFINE none == <<>>
  <2>1. none \in Seq(RowCell) /\ Behind(none, RowList(none, items), S) /\ first = FirstNew(none, items)
    BY <1>3
  <2> HIDE DEF none, first
  <2> QED
    BY <2>1, RowListIs
<1>5. Path(S, first) = u
  BY <1>2, <1>4, PathAlong
<1>6. \A j \in 1..Len(s) : S[u[j]].name = R[s[j]].name /\ S[u[j]].entry = R[s[j]].entry
  BY <1>4
<1>7. NamesDiffer(S, u)
  BY <1>4, <1>6 DEF NamesDiffer
<1>8. \A n, e : HasRow(S, u, n, e) <=> HasRow(R, s, n, e)
  BY <1>4, <1>6 DEF HasRow
<1>9. \A j \in 1..Len(items) : S[j].name = items[j].name /\ S[j].entry = items[j].entry
  <2>1. DOMAIN items = 1..Len(items)
    OBVIOUS
  <2> QED
    BY <2>1 DEF RowList, Row
<1> QED
  BY <1>2, <1>4, <1>5, <1>7, <1>8, <1>9 DEF RowsOk, RowsCopied

\* A heap without leaves.
LEMMA NoLeaves ==
  ASSUME NEW R, NEW b
  PROVE  /\ Homed(R, <<>>, b, NULL) /\ KeysDiffer(<<>>, Path(<<>>, NULL))
         /\ \A k, v : ~Holds(<<>>, Path(<<>>, NULL), k, v)
<1>1. Chain(<<>>, NULL, <<>>) /\ Len(<<>>) = 0
  BY DEF Chain, AfterIn
<1>2. Path(<<>>, NULL) = <<>>
  BY <1>1, PathAlong
<1> QED
  BY <1>1, <1>2 DEF Homed, KeysDiffer, Holds

\* A step that leaves one version, in cells of its own.
Renews(new) ==
  /\ versions' = <<new>> /\ rowCells' \in Seq(RowCell) /\ leafCells' \in Seq(LeafCell)
  /\ oom' \in BOOLEAN
  /\ \A b \in Buckets : Homed(rowCells', leafCells', b, new.index[b])
  /\ ~oom' => new \in VersionSet /\ VersionOk(rowCells', leafCells', new)

\* What compaction does: one version in new cells, which sees what the one copied saw.
LEMMA CompactStep ==
  ASSUME IInv, NamesHaveBuckets, NEW from, NEW room \in Nat, Compact(from, room)
  PROVE  /\ from \in DOMAIN versions /\ ~oom
         /\ \E new :
              /\ Renews(new)
              /\ ~oom' => \A n \in Names : \A e :
                   Sees(rowCells', leafCells', new.index, n, e) <=>
                     Sees(rowCells, leafCells, versions[from].index, n, e)
<1> DEFINE v == versions[from]
           s == Path(rowCells, v.rows)
           all == [j \in DOMAIN s |-> rowCells[s[j]]]
           items == FirstN(all, room)
           t(b) == Path(leafCells, v.index[b])
           leaves == UNION {Members(t(b)) : b \in Buckets}
           order == Ascending(leaves)
           full == room > Len(s) + Cardinality(leaves)
           copies == [j \in DOMAIN order |->
                       Leaf(leafCells[order[j]].key, Remap(items, leafCells[order[j]].key),
                            Copy(leaves, leafCells[order[j]].rest))]
           index == [b \in Buckets |-> IF full THEN Copy(leaves, v.index[b]) ELSE NULL]
           first == FirstNew(<<>>, items)
           new == Version(first, index)
<1>1. from \in DOMAIN versions /\ ~oom
  BY DEF Compact, Operation
<1>2. /\ rowCells \in Seq(RowCell) /\ leafCells \in Seq(LeafCell)
      /\ v \in VersionSet /\ VersionOk(rowCells, leafCells, v)
  BY <1>1 DEF IInv
<1>3. /\ v.index \in [Buckets -> Nat] /\ IndexOk(rowCells, leafCells, v.index)
      /\ Chain(rowCells, v.rows, s) /\ NamesDiffer(rowCells, s)
      /\ \A n \in Names : \A e : HasRow(rowCells, s, n, e) <=> Sees(rowCells, leafCells, v.index, n, e)
  BY <1>2 DEF VersionSet, VersionOk, RowsOk
<1>4. /\ rowCells' = RowList(<<>>, items)
      /\ leafCells' = IF ~full THEN <<>> ELSE copies
      /\ versions' = <<new>> /\ oom' = ~full
  BY Zenon DEF Compact, Copy
<1> HIDE DEF v
<1>5. /\ all \in Seq(RowCell) /\ Len(all) = Len(s) /\ Len(s) \in Nat
      /\ \A j \in 1..Len(s) : all[j] = rowCells[s[j]]
  <2>1. s \in Seq(1..Len(rowCells)) /\ DOMAIN s = 1..Len(s) /\ Len(s) \in Nat
    BY <1>3 DEF Chain
  <2> HIDE DEF s
  <2>2. \A j \in 1..Len(s) : rowCells[s[j]] \in RowCell
    BY <1>2, <2>1
  <2> QED
    BY <2>1, <2>2
<1> HIDE DEF all, s
<1>6. /\ items \in Seq(RowCell) /\ Len(items) = (IF room < Len(s) THEN room ELSE Len(s))
      /\ \A j \in 1..Len(items) : items[j] = all[j]
  BY <1>5, FirstNIs
<1> HIDE DEF items
<1>7. rowCells' \in Seq(RowCell)
  <2>1. Len(<<>>) \in Nat
    OBVIOUS
  <2> QED
    BY <1>4, <1>6, <2>1, RowListType
<1>8. new.index = index /\ oom' \in BOOLEAN
  BY <1>4 DEF Version
<1>9. CASE ~full
  <2>1. leafCells' = <<>> /\ oom' = TRUE /\ \A b \in Buckets : new.index[b] = NULL
    BY <1>4, <1>8, <1>9
  <2> HIDE DEF new, full
  <2>2. \A b \in Buckets : Homed(rowCells', leafCells', b, new.index[b])
    BY <2>1, NoLeaves
  <2>3. leafCells' \in Seq(LeafCell)
    BY <2>1
  <2>4. Renews(new)
    BY <1>4, <1>7, <2>1, <2>2, <2>3 DEF Renews
  <2> QED
    BY <1>1, <2>1, <2>4
<1>10. CASE full
  <2>1. \A b \in Buckets : /\ Homed(rowCells, leafCells, b, v.index[b]) /\ KeysDiffer(leafCells, t(b))
                           /\ Chain(leafCells, v.index[b], t(b))
                           /\ t(b) \in Seq(1..Len(leafCells))
    BY <1>3 DEF IndexOk, Homed, Chain
  <2>2. /\ leaves \in SUBSET Nat /\ leaves \subseteq 1..Len(leafCells) /\ IsFiniteSet(leaves)
        /\ \A b \in Buckets : \A k \in 1..Len(t(b)) : t(b)[k] \in leaves
    <3> HIDE DEF t
    <3>1. \A b \in Buckets : Members(t(b)) \subseteq 1..Len(leafCells)
      BY <2>1 DEF Members
    <3>2. leaves \subseteq 1..Len(leafCells)
      BY <3>1
    <3>3. IsFiniteSet(1..Len(leafCells)) /\ Len(leafCells) \in Nat
      BY <1>2, Count
    <3>4. IsFiniteSet(leaves)
      BY <3>2, <3>3, FS_Subset
    <3>5. ASSUME NEW b \in Buckets, NEW k \in 1..Len(t(b)) PROVE t(b)[k] \in leaves
      <4>1. k \in DOMAIN t(b)
        BY <2>1
      <4>2. t(b)[k] \in Members(t(b))
        BY <4>1 DEF Members
      <4> QED
        BY <4>2
    <3> HIDE DEF leaves
    <3> QED
      BY <3>2, <3>3, <3>4, <3>5
  <2>3. \A q \in leaves : \E b \in Buckets : \E k \in 1..Len(t(b)) : q = t(b)[k]
    <3> HIDE DEF t
    <3> TAKE q \in leaves
    <3>1. PICK b \in Buckets : q \in Members(t(b))
      OBVIOUS
    <3>2. DOMAIN t(b) = 1..Len(t(b))
      BY <2>1
    <3> QED
      BY <3>1, <3>2 DEF Members
  <2> HIDE DEF leaves
  <2>4. /\ Cardinality(leaves) \in Nat /\ order \in [1..Cardinality(leaves) -> leaves]
        /\ \A q \in leaves : Place(leaves, q) \in 1..Cardinality(leaves) /\ order[Place(leaves, q)] = q
    BY <2>2, AscendingIs
  <2> HIDE DEF order
  <2>5. \A q \in leaves : leafCells[q] \in LeafCell /\ Copy(leaves, leafCells[q].rest) \in Nat
    <3> TAKE q \in leaves
    <3>1. leafCells[q] \in LeafCell
      BY <1>2, <2>2
    <3>2. PICK b \in Buckets : \E k \in 1..Len(t(b)) : q = t(b)[k]
      BY <2>3
    <3>3. PICK k \in 1..Len(t(b)) : q = t(b)[k]
      BY <3>2
    <3>4. leafCells[q].rest = AfterIn(t(b), k) /\ Len(t(b)) \in Nat
      BY <2>1, <3>3 DEF Chain
    <3> HIDE DEF t
    <3>5. leafCells[q].rest = NULL \/ leafCells[q].rest \in leaves
      <4>1. CASE k < Len(t(b))
        <5>1. k + 1 \in 1..Len(t(b))
          BY <3>4, <4>1
        <5> QED
          BY <2>2, <3>4, <4>1, <5>1 DEF AfterIn
      <4>2. CASE ~(k < Len(t(b)))
        BY <3>4, <4>2 DEF AfterIn
      <4> QED
        BY <4>1, <4>2
    <3> QED
      BY <2>4, <3>1, <3>5 DEF Copy, NULL
  <2>6. \A key : Remap(items, key) \in Nat
    BY <1>6, RemapIs
  <2>7. copies \in Seq(LeafCell) /\ Len(copies) = Cardinality(leaves)
        /\ \A j \in 1..Cardinality(leaves) :
             copies[j] = Leaf(leafCells[order[j]].key, Remap(items, leafCells[order[j]].key),
                              Copy(leaves, leafCells[order[j]].rest))
    <3>1. DOMAIN order = 1..Cardinality(leaves)
      BY <2>4
    <3>2. ASSUME NEW j \in 1..Cardinality(leaves)
          PROVE  Leaf(leafCells[order[j]].key, Remap(items, leafCells[order[j]].key),
                      Copy(leaves, leafCells[order[j]].rest)) \in LeafCell
      <4>1. order[j] \in leaves
        BY <2>4
      <4> QED
        BY <2>5, <2>6, <4>1 DEF Leaf, LeafCell
    <3> HIDE DEF Leaf
    <3> QED
      BY <2>4, <3>1, <3>2
  <2> HIDE DEF copies
  <2>8. leafCells' = copies /\ oom' = FALSE
        /\ \A b \in Buckets : index[b] = Copy(leaves, v.index[b])
    BY <1>4, <1>10
  <2>9. AreCopied(leafCells, leaves, items, leafCells')
    BY <2>4, <2>7, <2>8 DEF AreCopied, Leaf
  <2>10. Len(items) = Len(s) /\ \A j \in 1..Len(s) : items[j] = rowCells[s[j]]
    BY <1>5, <1>6, <1>10, <2>4
  <2> HIDE DEF full
  <2>11. /\ Len(rowCells') = Len(items)
         /\ \A j \in 1..Len(items) : rowCells'[j].name = items[j].name /\ rowCells'[j].entry = items[j].entry
         /\ RowsOk(rowCells', first)
         /\ \A n, e : HasRow(rowCells', Path(rowCells', first), n, e) <=> HasRow(rowCells, s, n, e)
    <3>1. RowsCopied(rowCells, s, items, rowCells')
      BY <1>2, <1>3, <1>4, <1>6, <2>10, CompactRows
    <3> QED
      BY <3>1 DEF RowsCopied
  <2> HIDE DEF first
  \* An entry that the index leads to has a row, and the copied leaf points at its copy.
  <2>12. ASSUME NEW b \in Buckets, NEW n, NEW x, Holds(leafCells, t(b), n, x)
         PROVE  /\ n \in Names /\ Bucket(n) = b
                /\ Remap(items, n) \in 1..Len(rowCells') /\ rowCells'[Remap(items, n)].name = n
                /\ rowCells'[Remap(items, n)].entry = rowCells[x].entry
    <3>1. n \in Names /\ Bucket(n) = b
      BY <2>1, <2>12 DEF Homed
    <3>2. Sees(rowCells, leafCells, v.index, n, rowCells[x].entry)
      BY <2>12, <3>1 DEF Sees
    <3>3. PICK i \in 1..Len(s) : rowCells[s[i]].name = n /\ rowCells[s[i]].entry = rowCells[x].entry
      BY <1>3, <3>1, <3>2 DEF HasRow
    <3> DEFINE j == Remap(items, n)
    <3>4. j \in 1..Len(items) /\ items[j].name = n
      <4>1. i \in 1..Len(items) /\ items[i].name = n
        BY <2>10, <3>3
      <4>2. Len(items) \in Nat /\ DOMAIN items = 1..Len(items)
        BY <1>6
      <4> QED
        BY <4>1, <4>2, RemapIs
    <3> HIDE DEF j
    <3>5. i = j
      BY <1>3, <2>10, <3>3, <3>4 DEF NamesDiffer
    <3> QED
      BY <2>10, <2>11, <3>1, <3>3, <3>4, <3>5 DEF j
  <2>13. ASSUME NEW b \in Buckets
         PROVE  /\ Homed(rowCells', leafCells', b, index[b])
                /\ KeysDiffer(leafCells', Path(leafCells', index[b]))
                /\ \A n \in Names : \A e : Bucket(n) = b =>
                     (Sees(rowCells', leafCells', index, n, e) <=> Sees(rowCells, leafCells, v.index, n, e))
    <3> DEFINE tb == t(b)
               M == leafCells'
    <3>1. PICK w : Chain(M, index[b], w) /\ Path(M, index[b]) = w /\ SayTheSame(leafCells, tb, items, M, w)
      <4>1. /\ Len(leafCells) \in Nat /\ Chain(leafCells, v.index[b], tb)
            /\ \A k \in 1..Len(tb) : tb[k] \in leaves
        BY <1>2, <2>1, <2>2
      <4> HIDE DEF tb, t
      <4>2. \E w : /\ Chain(M, Copy(leaves, v.index[b]), w) /\ Path(M, Copy(leaves, v.index[b])) = w
                   /\ SayTheSame(leafCells, tb, items, M, w)
        BY <2>2, <2>9, <4>1, CopiedBucket
      <4> HIDE DEF index
      <4> QED
        BY <2>8, <4>2
    <3>2. KeysDiffer(leafCells, tb)
      BY <2>1
    <3>8. \A n, x : Holds(leafCells, tb, n, x) =>
            /\ n \in Names /\ Bucket(n) = b
            /\ Remap(items, n) \in 1..Len(rowCells') /\ rowCells'[Remap(items, n)].name = n
            /\ rowCells'[Remap(items, n)].entry = rowCells[x].entry
      BY <2>12
    <3> HIDE DEF tb, M, t
    <3>3. KeysDiffer(M, w)
      BY <3>1, <3>2, CopiesHold
    <3>4. /\ \A n, y : Holds(M, w, n, y) => y = Remap(items, n) /\ \E x : Holds(leafCells, tb, n, x)
          /\ \A n, x : Holds(leafCells, tb, n, x) => Holds(M, w, n, Remap(items, n))
      BY <3>1, CopiesHold
    <3>5. \A n, y : Holds(M, w, n, y) =>
            n \in Names /\ Bucket(n) = b /\ y \in 1..Len(rowCells') /\ rowCells'[y].name = n
      <4> HIDE DEF new, index
      <4> QED
        BY <3>4, <3>8
    <3>6. Homed(rowCells', M, b, index[b])
      <4> HIDE DEF index, M
      <4> QED
        BY <3>1, <3>5 DEF Homed
    <3>7. ASSUME NEW n, NEW e
          PROVE  (\E y : Holds(M, w, n, y) /\ rowCells'[y].entry = e)
                   <=> (\E x : Holds(leafCells, tb, n, x) /\ rowCells[x].entry = e)
      <4> HIDE DEF new, index
      <4>1. ASSUME NEW y, Holds(M, w, n, y), rowCells'[y].entry = e
            PROVE  \E x : Holds(leafCells, tb, n, x) /\ rowCells[x].entry = e
        <5>1. y = Remap(items, n) /\ \E x : Holds(leafCells, tb, n, x)
          BY <3>4, <4>1
        <5> QED
          BY <3>8, <4>1, <5>1
      <4>2. ASSUME NEW x, Holds(leafCells, tb, n, x), rowCells[x].entry = e
            PROVE  \E y : Holds(M, w, n, y) /\ rowCells'[y].entry = e
        BY <3>4, <3>8, <4>2
      <4> QED
        BY <4>1, <4>2
    <3> HIDE DEF index, new
    <3>10. ASSUME NEW n \in Names, NEW e, Bucket(n) = b
           PROVE  Sees(rowCells', M, index, n, e) <=> Sees(rowCells, leafCells, v.index, n, e)
      <4>1. Sees(rowCells', M, index, n, e) <=> \E y : Holds(M, w, n, y) /\ rowCells'[y].entry = e
        BY <3>1, <3>10 DEF Sees
      <4>2. Sees(rowCells, leafCells, v.index, n, e)
              <=> \E x : Holds(leafCells, tb, n, x) /\ rowCells[x].entry = e
        BY <3>10 DEF Sees, tb, t
      <4> QED
        BY <3>7, <4>1, <4>2
    <3> QED
      BY <3>1, <3>3, <3>6, <3>10 DEF M
  <2>14. index \in [Buckets -> Nat]
    <3>1. \A b \in Buckets : index[b] \in Nat
      <4> HIDE DEF index
      <4> QED
        BY <2>13 DEF Homed, Chain, AfterIn, NULL
    <3> QED
      BY <3>1
  <2> HIDE DEF index
  <2>15. IndexOk(rowCells', leafCells', index)
    BY <2>13 DEF IndexOk
  <2>16. \A n \in Names : \A e :
           Sees(rowCells', leafCells', index, n, e) <=> Sees(rowCells, leafCells, v.index, n, e)
    <3> HIDE DEF new
    <3> TAKE n \in Names
    <3> TAKE e
    <3>1. Bucket(n) \in Buckets
      BY DEF NamesHaveBuckets
    <3> QED
      BY <2>13, <3>1
  <2>17. \A n \in Names : \A e :
           HasRow(rowCells', Path(rowCells', first), n, e) <=> Sees(rowCells', leafCells', index, n, e)
    BY <1>3, <2>11, <2>16
  <2>18. new \in VersionSet /\ VersionOk(rowCells', leafCells', new)
    BY <2>11, <2>14, <2>15, <2>17, VersionParts
  <2>19. leafCells' \in Seq(LeafCell) /\ \A b \in Buckets : Homed(rowCells', leafCells', b, new.index[b])
    BY <1>8, <2>7, <2>8, <2>13
  <2> HIDE DEF new
  <2>20. Renews(new)
    BY <1>4, <1>7, <1>8, <2>18, <2>19 DEF Renews
  <2> QED
    BY <1>1, <1>8, <2>16, <2>20 DEF v
<1> QED
  BY <1>9, <1>10

-----------------------------------------------------------------------------
(* The invariant.                                                          *)

\* The invariant holds at the start: one version without rows or leaves.
LEMMA InitHolds == ASSUME GlobalsInit, NamesHaveBuckets PROVE IInv
<1> DEFINE first == Version(NULL, [b \in Buckets |-> NULL])
<1>1. rowCells = <<>> /\ leafCells = <<>> /\ oom = FALSE /\ versions = <<first>>
  BY DEF GlobalsInit
<1>2. first.rows = NULL /\ first.index \in [Buckets -> Nat] /\ \A b \in Buckets : first.index[b] = NULL
  BY DEF Version, NULL
<1>3. RowsOk(rowCells, NULL) /\ \A n, e : ~HasRow(rowCells, Path(rowCells, NULL), n, e)
  <2>1. Chain(<<>>, NULL, <<>>) /\ Len(<<>>) = 0
    BY DEF Chain, AfterIn
  <2>2. Path(<<>>, NULL) = <<>>
    BY <2>1, PathAlong
  <2> QED
    BY <1>1, <2>1, <2>2 DEF RowsOk, NamesDiffer, HasRow
<1>4. IndexOk(rowCells, leafCells, first.index)
  BY <1>1, <1>2, NoLeaves DEF IndexOk
<1>5. \A n \in Names : \A e : ~Sees(rowCells, leafCells, first.index, n, e)
  BY <1>1, <1>2, NoLeaves DEF Sees, NamesHaveBuckets
<1>6. first \in VersionSet
  BY DEF first, Version, VersionSet, NULL
<1> HIDE DEF first
<1>7. VersionOk(rowCells, leafCells, first)
  BY <1>2, <1>3, <1>4, <1>5 DEF VersionOk
<1>8. versions \in Seq(VersionSet) /\ \A i \in DOMAIN versions : versions[i] = first
  BY <1>1, <1>6
<1>9. rowCells \in Seq(RowCell) /\ leafCells \in Seq(LeafCell)
  BY <1>1
<1>10. \A i \in DOMAIN versions : VersionOk(rowCells, leafCells, versions[i])
  BY <1>7, <1>8
<1> QED
  BY <1>1, <1>8, <1>9, <1>10 DEF IInv

\* The invariant holds after a step that adds a sound version.
LEMMA GrowsHolds ==
  ASSUME IInv, ~oom, NamesHaveBuckets, NEW new, Grows(new)
  PROVE  IInv'
<1>1. /\ versions \in Seq(VersionSet)
      /\ \A i \in DOMAIN versions : VersionOk(rowCells, leafCells, versions[i])
  BY DEF IInv
<1>2. \A i \in DOMAIN versions : VersionOk(rowCells', leafCells', versions[i])
  BY <1>1, VersionKept DEF Grows
<1>3. ASSUME ~oom'
      PROVE  /\ versions' \in Seq(VersionSet)
             /\ \A i \in DOMAIN versions' : VersionOk(rowCells', leafCells', versions'[i])
  <2>1. versions' = Append(versions, new) /\ new \in VersionSet /\ VersionOk(rowCells', leafCells', new)
    BY <1>3 DEF Grows
  <2>2. /\ versions' \in Seq(VersionSet) /\ DOMAIN versions' = 1..(Len(versions) + 1)
        /\ versions'[Len(versions) + 1] = new
        /\ \A i \in DOMAIN versions : versions'[i] = versions[i]
        /\ \A i \in DOMAIN versions' : i = Len(versions) + 1 \/ i \in DOMAIN versions
    BY <1>1, <2>1
  <2> QED
    BY <1>2, <2>1, <2>2
<1> QED
  BY <1>3 DEF IInv, Grows

\* The invariant holds after a step that leaves one sound version, in new cells.
LEMMA RenewsHolds ==
  ASSUME NEW new, Renews(new)
  PROVE  IInv'
<1>1. ASSUME ~oom'
      PROVE  /\ versions' \in Seq(VersionSet)
             /\ \A i \in DOMAIN versions' : VersionOk(rowCells', leafCells', versions'[i])
  <2>1. versions' = <<new>> /\ new \in VersionSet /\ VersionOk(rowCells', leafCells', new)
    BY <1>1 DEF Renews
  <2>2. versions' \in Seq(VersionSet) /\ \A i \in DOMAIN versions' : versions'[i] = new
    BY <2>1
  <2> QED
    BY <2>1, <2>2
<1> QED
  BY <1>1 DEF IInv, Renews

\* The invariant is inductive.
LEMMA NextHolds ==
  ASSUME IInv, NamesHaveBuckets, [GlobalsNext]_globalsVars
  PROVE  IInv'
<1>1. ASSUME NEW from, NEW room \in Rooms, NEW name \in Names, NEW entry \in Entries,
             GlobalAdd(from, name, entry, room)
      PROVE  IInv'
  <2>1. room \in Nat
    BY DEF NamesHaveBuckets
  <2> QED
    BY <1>1, <2>1, AddStep, GrowsHolds
<1>2. ASSUME NEW from, NEW room \in Rooms, NEW name \in Names, WithoutFamily(from, name, room)
      PROVE  IInv'
  <2>1. room \in Nat
    BY DEF NamesHaveBuckets
  <2> QED
    BY <1>2, <2>1, WithoutStep, GrowsHolds
<1>3. ASSUME NEW from, NEW room \in Rooms, Compact(from, room) PROVE IInv'
  <2>1. room \in Nat
    BY DEF NamesHaveBuckets
  <2> QED
    BY <1>3, <2>1, CompactStep, RenewsHolds
<1>4. CASE UNCHANGED globalsVars
  BY <1>4 DEF globalsVars, IInv, VersionOk, RowsOk, IndexOk, Homed, HasRow, Sees
<1> QED
  BY <1>1, <1>2, <1>3, <1>4 DEF GlobalsNext

\* The invariant says that rows and index agree.
LEMMA RowsMatch ==
  ASSUME IInv, NamesHaveBuckets PROVE RowsMatchIndex
<1> SUFFICES ASSUME ~oom, NEW i \in DOMAIN versions, NEW name \in Names
             PROVE  LET rows == versions[i].rows
                        row == FindRow(rowCells, rows, name)
                        found == Find(leafCells, versions[i].index, name)
                    IN /\ \A j, k \in RowsNamed(rowCells, Path(rowCells, rows), name) : j = k
                       /\ (found = NULL) = (row = NULL)
                       /\ found # NULL =>
                            /\ rowCells[found].name = name
                            /\ rowCells[found].entry = rowCells[row].entry
  BY DEF RowsMatchIndex
<1> DEFINE v == versions[i]
           s == Path(rowCells, v.rows)
           row == FindRow(rowCells, v.rows, name)
           found == Find(leafCells, v.index, name)
           t == Path(leafCells, v.index[Bucket(name)])
<1>1. rowCells \in Seq(RowCell) /\ leafCells \in Seq(LeafCell) /\ VersionOk(rowCells, leafCells, v)
  BY DEF IInv
<1>2. /\ Chain(rowCells, v.rows, s) /\ NamesDiffer(rowCells, s)
      /\ \A e : HasRow(rowCells, s, name, e) <=> Sees(rowCells, leafCells, v.index, name, e)
      /\ Homed(rowCells, leafCells, Bucket(name), v.index[Bucket(name)])
  BY <1>1 DEF VersionOk, RowsOk, IndexOk, NamesHaveBuckets
<1>3. Len(rowCells) \in Nat /\ Len(leafCells) \in Nat
  BY <1>1
<1> HIDE DEF v
<1>4. \/ row = NULL /\ \A k \in 1..Len(s) : rowCells[s[k]].name # name
      \/ \E k \in 1..Len(s) : row = s[k] /\ rowCells[s[k]].name = name
  BY <1>2, <1>3, FindRowIs
<1>5. \/ found = NULL /\ \A x : ~Holds(leafCells, t, name, x)
      \/ found # NULL /\ Holds(leafCells, t, name, found)
  BY <1>2, <1>3, FindIs
<1>6. \A x : Holds(leafCells, t, name, x) => rowCells[x].name = name
  BY <1>2 DEF Homed
<1>7. \A e : Sees(rowCells, leafCells, v.index, name, e)
               <=> \E x : Holds(leafCells, t, name, x) /\ rowCells[x].entry = e
  BY DEF Sees
<1>8. s \in Seq(1..Len(rowCells)) /\ DOMAIN s = 1..Len(s)
  BY <1>2 DEF Chain
<1>9. \A k \in 1..Len(s) : s[k] # NULL
  BY <1>8 DEF NULL
<1> HIDE DEF s, t, row, found
<1>10. \A j, k \in RowsNamed(rowCells, s, name) : j = k
  BY <1>2, <1>8 DEF RowsNamed, NamesDiffer
<1>11. CASE found = NULL
  <2>1. \A e : ~HasRow(rowCells, s, name, e)
    BY <1>2, <1>5, <1>7, <1>11
  <2>2. row = NULL
    BY <1>4, <2>1 DEF HasRow
  <2> QED
    BY <1>10, <1>11, <2>2 DEF v, s, row, found
<1>12. CASE found # NULL
  <2>1. rowCells[found].name = name /\ HasRow(rowCells, s, name, rowCells[found].entry)
    BY <1>2, <1>5, <1>6, <1>7, <1>12
  <2>2. PICK k \in 1..Len(s) : rowCells[s[k]].name = name /\ rowCells[s[k]].entry = rowCells[found].entry
    BY <2>1 DEF HasRow
  <2>3. row = s[k]
    BY <1>2, <1>4, <2>2 DEF NamesDiffer
  <2> QED
    BY <1>9, <1>10, <1>12, <2>1, <2>2, <2>3 DEF v, s, row, found
<1> QED
  BY <1>11, <1>12

\* Rows and index of every version say the same as long as memory lasts, whatever is added,
\* removed and compacted in whatever order, with whatever room (kernel/global.c).
THEOREM RowsAgree == GlobalsSpec => []RowsMatchIndex
<1>1. GlobalsInit => IInv
  BY InitHolds, GlobalsAssumption
<1>2. IInv /\ [GlobalsNext]_globalsVars => IInv'
  BY NextHolds, GlobalsAssumption
<1>3. IInv => RowsMatchIndex
  BY RowsMatch, GlobalsAssumption
<1> QED
  BY <1>1, <1>2, <1>3, PTL DEF GlobalsSpec

-----------------------------------------------------------------------------
(* The environment implements the sequence of maps.                        *)
Shown == [i \in DOMAIN versions |-> MapIn(rowCells, leafCells, versions[i])]

\* What the versions are seen as, before and after a step.
LEMMA ShownIs ==
  /\ Shown = [i \in DOMAIN versions |-> MapOf(versions[i])]
  /\ Shown' = [i \in DOMAIN versions' |-> MapOf(versions[i])']
  BY DEF Shown, MapOf

\* Old versions look the same after a step that adds a version; the new one is seen behind them.
LEMMA GrowsShown ==
  ASSUME IInv, ~oom, NamesHaveBuckets, NEW new, Grows(new)
  PROVE  LET map == MapIn(rowCells', leafCells', new)
         IN /\ Shown' = Append(Shown, map)
            /\ \E i \in DOMAIN Shown' : map = Shown'[i]
            /\ DOMAIN map \subseteq Names /\ map \in [DOMAIN map -> Entries]
<1> DEFINE map == MapIn(rowCells', leafCells', new)
           n == Len(versions)
<1>1. /\ rowCells \in Seq(RowCell) /\ leafCells \in Seq(LeafCell) /\ versions \in Seq(VersionSet)
      /\ \A i \in DOMAIN versions : VersionOk(rowCells, leafCells, versions[i])
  BY DEF IInv
<1>2. /\ versions' = Append(versions, new)
      /\ rowCells' \in Seq(RowCell) /\ Extends(rowCells, rowCells')
      /\ leafCells' \in Seq(LeafCell) /\ Extends(leafCells, leafCells')
      /\ \A b \in Buckets : Homed(rowCells', leafCells', b, new.index[b])
  BY DEF Grows
<1>3. \A i \in DOMAIN versions :
        MapIn(rowCells', leafCells', versions[i]) = MapIn(rowCells, leafCells, versions[i])
  BY <1>1, <1>2, MapKept DEF VersionOk
<1>4. DOMAIN map \subseteq Names /\ map \in [DOMAIN map -> Entries]
  <2>1. Len(leafCells') \in Nat
    BY <1>2
  <2> QED
    BY <1>2, <2>1, MapIs
<1>5. /\ n \in Nat /\ DOMAIN versions = 1..n /\ DOMAIN versions' = 1..(n + 1)
      /\ versions'[n + 1] = new /\ \A i \in 1..n : versions'[i] = versions[i]
  BY <1>1, <1>2
<1>6. Shown' = [i \in 1..(n + 1) |-> MapIn(rowCells', leafCells', versions'[i])]
  BY <1>5 DEF Shown
<1>7. Shown = [i \in 1..n |-> MapIn(rowCells, leafCells, versions[i])]
  BY <1>5 DEF Shown
<1> HIDE DEF map, n
<1>8. \A i \in 1..(n + 1) :
        MapIn(rowCells', leafCells', versions'[i]) =
          IF i <= n THEN MapIn(rowCells, leafCells, versions[i]) ELSE map
  <2> TAKE i \in 1..(n + 1)
  <2>1. CASE i <= n
    <3>1. i \in 1..n
      BY <1>5, <2>1
    <3> QED
      BY <1>3, <1>5, <2>1, <3>1
  <2>2. CASE ~(i <= n)
    <3>1. i = n + 1
      BY <1>5, <2>2
    <3> QED
      BY <1>5, <2>2, <3>1 DEF map
  <2> QED
    BY <2>1, <2>2
<1>9. Shown' = Append(Shown, map) /\ DOMAIN Shown' = 1..(n + 1) /\ Shown'[n + 1] = map
  <2> DEFINE seen(i) == MapIn(rowCells, leafCells, versions[i])
  <2> HIDE DEF seen
  <2>1. Shown = [i \in 1..n |-> seen(i)] /\ Len(Shown) = n
    BY <1>5, <1>7 DEF seen
  <2>2. Shown' = [i \in 1..(n + 1) |-> IF i <= n THEN seen(i) ELSE map]
    BY <1>6, <1>8 DEF seen
  <2>3. Append(Shown, map) = [i \in 1..(n + 1) |-> IF i = n + 1 THEN map ELSE Shown[i]]
    BY <1>5, <2>1
  <2>4. \A i \in 1..(n + 1) : (IF i = n + 1 THEN map ELSE Shown[i]) = (IF i <= n THEN seen(i) ELSE map)
    BY <1>5, <2>1
  <2> QED
    BY <1>5, <2>2, <2>3, <2>4
<1> QED
  BY <1>4, <1>5, <1>9 DEF map

\* After a compaction the copy is all that is seen.
LEMMA RenewsShown ==
  ASSUME NEW new, Renews(new), NamesHaveBuckets
  PROVE  LET map == MapIn(rowCells', leafCells', new)
         IN /\ Shown' = <<map>> /\ \E i \in DOMAIN Shown' : map = Shown'[i]
            /\ DOMAIN map \subseteq Names /\ map \in [DOMAIN map -> Entries]
<1> DEFINE map == MapIn(rowCells', leafCells', new)
<1>1. /\ versions' = <<new>> /\ rowCells' \in Seq(RowCell) /\ leafCells' \in Seq(LeafCell)
      /\ \A b \in Buckets : Homed(rowCells', leafCells', b, new.index[b])
  BY DEF Renews
<1>2. DOMAIN map \subseteq Names /\ map \in [DOMAIN map -> Entries]
  <2>1. Len(leafCells') \in Nat
    BY <1>1
  <2> QED
    BY <1>1, <2>1, MapIs
<1>3. DOMAIN versions' = 1..1 /\ versions'[1] = new
  BY <1>1
<1>4. Shown' = [i \in 1..1 |-> MapIn(rowCells', leafCells', versions'[i])]
  BY <1>3 DEF Shown
<1>5. \A i \in 1..1 : MapIn(rowCells', leafCells', versions'[i]) = map
  BY <1>3
<1> HIDE DEF map
<1>6. Shown' = [i \in 1..1 |-> map]
  BY <1>4, <1>5
<1>7. Shown' = <<map>> /\ 1 \in DOMAIN Shown' /\ Shown'[1] = map
  BY <1>6
<1> QED
  BY <1>2, <1>7 DEF map

\* What a version in use is seen as.
LEMMA SeenAs ==
  ASSUME IInv, ~oom, NamesHaveBuckets, NEW from \in DOMAIN versions
  PROVE  LET old == MapIn(rowCells, leafCells, versions[from])
         IN /\ old \in Maps!InUse
            /\ DOMAIN old \subseteq Names /\ old \in [DOMAIN old -> Entries]
            /\ \A n \in Names : \A e :
                 Sees(rowCells, leafCells, versions[from].index, n, e) <=> n \in DOMAIN old /\ old[n] = e
<1> DEFINE old == MapIn(rowCells, leafCells, versions[from])
<1>1. /\ rowCells \in Seq(RowCell) /\ Len(leafCells) \in Nat
      /\ IndexOk(rowCells, leafCells, versions[from].index)
  BY DEF IInv, VersionOk
<1>2. \A b \in Buckets : Homed(rowCells, leafCells, b, versions[from].index[b])
  BY <1>1 DEF IndexOk
<1>3. /\ DOMAIN old \subseteq Names /\ old \in [DOMAIN old -> Entries]
      /\ \A n \in Names : \A e :
           Sees(rowCells, leafCells, versions[from].index, n, e) <=> n \in DOMAIN old /\ old[n] = e
  BY <1>1, <1>2, MapIs
<1> HIDE DEF old
<1>4. from \in DOMAIN Shown /\ Shown[from] = old
  BY DEF Shown, old
<1>5. old \in Maps!InUse
  BY <1>4, ShownIs DEF Maps!InUse
<1> QED
  BY <1>3, <1>5 DEF old

\* Rows of one version against the index of another: the answer is about their maps.
LEMMA ExtendedMeans ==
  ASSUME IInv, NamesHaveBuckets, ~oom, NEW i \in DOMAIN versions, NEW j \in DOMAIN versions
  PROVE  ExtendedBy(versions[i], versions[j]) <=> IncludedIn(MapOf(versions[i]), MapOf(versions[j]))
<1> DEFINE s == Path(rowCells, versions[i].rows)
           map == MapIn(rowCells, leafCells, versions[i])
           more == MapIn(rowCells, leafCells, versions[j])
           index == versions[j].index
<1>1. /\ rowCells \in Seq(RowCell)
      /\ VersionOk(rowCells, leafCells, versions[i])
  BY DEF IInv
<1>2. /\ s \in Seq(1..Len(rowCells)) /\ NamesDiffer(rowCells, s)
      /\ \A n \in Names : \A e : HasRow(rowCells, s, n, e) <=> Sees(rowCells, leafCells, versions[i].index, n, e)
  BY <1>1 DEF VersionOk, RowsOk, Chain
<1>3. /\ DOMAIN map \subseteq Names
      /\ \A n \in Names : \A e :
           Sees(rowCells, leafCells, versions[i].index, n, e) <=> n \in DOMAIN map /\ map[n] = e
  <2>1. /\ map \in Maps!InUse
        /\ DOMAIN map \subseteq Names /\ map \in [DOMAIN map -> Entries]
        /\ \A n \in Names : \A e :
             Sees(rowCells, leafCells, versions[i].index, n, e) <=> n \in DOMAIN map /\ map[n] = e
    BY SeenAs
  <2> QED
    BY <2>1
<1>4. \A n \in Names : n \in DOMAIN more <=> Find(leafCells, index, n) # NULL
  BY DEF MapIn
<1>5. \A n \in DOMAIN more : more[n] = rowCells[Find(leafCells, index, n)].entry
  BY DEF MapIn
<1>6. \A k \in 1..Len(s) : rowCells[s[k]].name \in Names
  <2> TAKE k \in 1..Len(s)
  <2>1. s[k] \in 1..Len(rowCells)
    BY <1>2
  <2>2. rowCells[s[k]] \in RowCell
    BY <1>1, <2>1
  <2> QED
    BY <2>2 DEF RowCell
<1>7. DOMAIN s = 1..Len(s)
  BY <1>2
<1>8. ExtendedBy(versions[i], versions[j]) <=>
        \A k \in 1..Len(s) : /\ Find(leafCells, index, rowCells[s[k]].name) # NULL
                             /\ rowCells[Find(leafCells, index, rowCells[s[k]].name)].entry
                                  = rowCells[s[k]].entry
  BY <1>7 DEF ExtendedBy
<1>9. MapOf(versions[i]) = map /\ MapOf(versions[j]) = more
  BY DEF MapOf
<1> HIDE DEF s, map, more, index
<1>10. \A n \in Names : \A e : HasRow(rowCells, s, n, e) <=> n \in DOMAIN map /\ map[n] = e
  BY <1>2, <1>3
<1>11. ASSUME ExtendedBy(versions[i], versions[j]), NEW n \in DOMAIN map
       PROVE  n \in DOMAIN more /\ more[n] = map[n]
  <2>1. n \in Names /\ HasRow(rowCells, s, n, map[n])
    BY <1>3, <1>10, <1>11
  <2>2. PICK k \in 1..Len(s) : rowCells[s[k]].name = n /\ rowCells[s[k]].entry = map[n]
    BY <2>1 DEF HasRow
  <2> QED
    BY <1>4, <1>5, <1>8, <1>11, <2>1, <2>2
<1>12. ASSUME \A n \in DOMAIN map : n \in DOMAIN more /\ more[n] = map[n], NEW k \in 1..Len(s)
       PROVE  /\ Find(leafCells, index, rowCells[s[k]].name) # NULL
              /\ rowCells[Find(leafCells, index, rowCells[s[k]].name)].entry = rowCells[s[k]].entry
  <2> DEFINE n == rowCells[s[k]].name
  <2>1. n \in Names /\ HasRow(rowCells, s, n, rowCells[s[k]].entry)
    BY <1>6 DEF HasRow
  <2> HIDE DEF n
  <2>2. n \in DOMAIN map /\ map[n] = rowCells[s[k]].entry
    BY <1>10, <2>1
  <2>3. n \in DOMAIN more /\ more[n] = rowCells[s[k]].entry
    BY <1>12, <2>2
  <2> QED
    BY <1>4, <1>5, <2>1, <2>3 DEF n
<1> QED
  BY <1>8, <1>9, <1>11, <1>12 DEF IncludedIn

\* global_extended_by compares the maps of two versions, though it walks the rows of one and asks
\* the index of the other, and though they may share cells.
THEOREM ExtensionRead == GlobalsSpec => []ExtensionIsInclusion
<1>1. GlobalsInit => IInv
  BY InitHolds, GlobalsAssumption
<1>2. IInv /\ [GlobalsNext]_globalsVars => IInv'
  BY NextHolds, GlobalsAssumption
<1>3. IInv => ExtensionIsInclusion
  BY ExtendedMeans, GlobalsAssumption DEF ExtensionIsInclusion
<1> QED
  BY <1>1, <1>2, <1>3, PTL DEF GlobalsSpec

\* A map that is seen.
LEMMA SeenMap ==
  ASSUME NEW new, NEW map, map = MapIn(rowCells', leafCells', new), NamesHaveBuckets,
         rowCells' \in Seq(RowCell), leafCells' \in Seq(LeafCell),
         IndexOk(rowCells', leafCells', new.index), NEW m, DOMAIN m \subseteq Names,
         m = [n \in DOMAIN m |-> m[n]],
         \A n \in Names : \A e :
           Sees(rowCells', leafCells', new.index, n, e) <=> n \in DOMAIN m /\ m[n] = e
  PROVE  map = m
<1>1. Len(leafCells') \in Nat
  OBVIOUS
<1> QED
  BY <1>1, SameMap

\* A step that is said to have run out of memory.
LEMMA RunsOut ==
  ASSUME NEW map, \E i \in DOMAIN Shown' : map = Shown'[i],
         DOMAIN map \subseteq Names, map \in [DOMAIN map -> Entries],
         Shown' = Append(Shown, map) \/ Shown' = <<map>>, oom'
  PROVE  oom' \in BOOLEAN => Maps!Next
<1>1. map \in Maps!InUse'
  BY ShownIs DEF Maps!InUse
<1>2. Maps!IsMap(map)
  BY DEF Maps!IsMap
<1>3. Maps!NewVersion(map) \/ Shown' = <<map>>
  BY ShownIs DEF Maps!NewVersion
<1> SUFFICES ASSUME oom' \in BOOLEAN PROVE Maps!Next
  OBVIOUS
<1>4. oom' = TRUE
  OBVIOUS
<1>5. Maps!RunOut
  BY <1>1, <1>2, <1>3, <1>4, ShownIs DEF Maps!RunOut
<1> QED
  BY <1>5 DEF Maps!Next

\* Adding is a step of the sequence of maps.
LEMMA AddMaps ==
  ASSUME IInv, NamesHaveBuckets, NEW from, NEW name \in Names, NEW entry \in Entries, NEW room \in Nat,
         GlobalAdd(from, name, entry, room)
  PROVE  Maps!Next
<1> DEFINE old == MapIn(rowCells, leafCells, versions[from])
<1>1. from \in DOMAIN versions /\ ~oom
  BY AddStep
<1>2. PICK new : Grows(new) /\ Adds(from, name, entry, new)
  BY AddStep
<1> DEFINE map == MapIn(rowCells', leafCells', new)
<1>3. /\ Shown' = Append(Shown, map) /\ \E i \in DOMAIN Shown' : map = Shown'[i]
      /\ DOMAIN map \subseteq Names /\ map \in [DOMAIN map -> Entries]
  BY <1>1, <1>2, GrowsShown
<1>4. oom' \in BOOLEAN
  BY <1>2 DEF Grows
<1>5. CASE oom'
  <2> HIDE DEF map
  <2> QED
    BY <1>3, <1>4, <1>5, RunsOut
<1>6. CASE ~oom'
  <2>1. /\ old \in Maps!InUse
        /\ DOMAIN old \subseteq Names /\ old \in [DOMAIN old -> Entries]
        /\ \A n \in Names : \A e :
             Sees(rowCells, leafCells, versions[from].index, n, e) <=> n \in DOMAIN old /\ old[n] = e
    BY <1>1, SeenAs
  <2> DEFINE m == Maps!With(old, name, entry)
  <2> HIDE DEF old
  <2>2. /\ DOMAIN m = DOMAIN old \cup {name} /\ m = [n \in DOMAIN m |-> m[n]]
        /\ \A n \in DOMAIN m : m[n] = IF n = name THEN entry ELSE old[n]
    BY DEF Maps!With
  <2> HIDE DEF m
  <2>3. \A n \in Names : \A e :
          Sees(rowCells', leafCells', new.index, n, e) <=> n \in DOMAIN m /\ m[n] = e
    <3> TAKE n \in Names
    <3> TAKE e
    <3>1. CASE n = name
      BY <1>2, <1>6, <2>2, <3>1 DEF Adds
    <3>2. CASE n # name
      BY <1>2, <1>6, <2>1, <2>2, <3>2 DEF Adds
    <3> QED
      BY <3>1, <3>2
  <2>4. map = m
    <3>1. /\ rowCells' \in Seq(RowCell) /\ leafCells' \in Seq(LeafCell)
          /\ IndexOk(rowCells', leafCells', new.index)
      BY <1>2, <1>6 DEF Grows, VersionOk
    <3>2. DOMAIN m \subseteq Names
      BY <2>1, <2>2
    <3> QED
      BY <2>2, <2>3, <3>1, <3>2, SeenMap
  <2> HIDE DEF map
  <2>5. map \in Maps!InUse' /\ Maps!NewVersion(map)
    BY <1>3, ShownIs DEF Maps!InUse, Maps!NewVersion
  <2>6. oom' = oom
    BY <1>1, <1>4, <1>6 DEF IInv
  <2>7. Maps!Add
    BY <2>1, <2>4, <2>5, <2>6 DEF Maps!Add, m
  <2> QED
    BY <2>7 DEF Maps!Next
<1> QED
  BY <1>5, <1>6

\* Removing a family is a step of the sequence of maps.
LEMMA WithoutMaps ==
  ASSUME IInv, NamesHaveBuckets, NEW from, NEW name \in Names, NEW room \in Nat,
         WithoutFamily(from, name, room)
  PROVE  Maps!Next
<1> DEFINE old == MapIn(rowCells, leafCells, versions[from])
<1>1. from \in DOMAIN versions /\ ~oom
  BY WithoutStep
<1>2. PICK new :
        /\ Grows(new)
        /\ ~oom' => \A n \in Names : \A e :
             Sees(rowCells', leafCells', new.index, n, e) <=>
               n # name /\ Sees(rowCells, leafCells, versions[from].index, n, e)
  BY WithoutStep
<1> DEFINE map == MapIn(rowCells', leafCells', new)
<1>3. /\ Shown' = Append(Shown, map) /\ \E i \in DOMAIN Shown' : map = Shown'[i]
      /\ DOMAIN map \subseteq Names /\ map \in [DOMAIN map -> Entries]
  BY <1>1, <1>2, GrowsShown
<1>4. oom' \in BOOLEAN
  BY <1>2 DEF Grows
<1>5. CASE oom'
  <2> HIDE DEF map
  <2> QED
    BY <1>3, <1>4, <1>5, RunsOut
<1>6. CASE ~oom'
  <2>1. /\ old \in Maps!InUse
        /\ DOMAIN old \subseteq Names /\ old \in [DOMAIN old -> Entries]
        /\ \A n \in Names : \A e :
             Sees(rowCells, leafCells, versions[from].index, n, e) <=> n \in DOMAIN old /\ old[n] = e
    BY <1>1, SeenAs
  <2> DEFINE m == Maps!Without(old, name)
  <2> HIDE DEF old
  <2>2. /\ DOMAIN m = DOMAIN old \ {name} /\ m = [n \in DOMAIN m |-> m[n]]
        /\ \A n \in DOMAIN m : m[n] = old[n]
    BY DEF Maps!Without
  <2> HIDE DEF m
  <2>3. \A n \in Names : \A e :
          Sees(rowCells', leafCells', new.index, n, e) <=> n \in DOMAIN m /\ m[n] = e
    BY <1>2, <1>6, <2>1, <2>2
  <2>4. map = m
    <3>1. /\ rowCells' \in Seq(RowCell) /\ leafCells' \in Seq(LeafCell)
          /\ IndexOk(rowCells', leafCells', new.index)
      BY <1>2, <1>6 DEF Grows, VersionOk
    <3>2. DOMAIN m \subseteq Names
      BY <2>1, <2>2
    <3> QED
      BY <2>2, <2>3, <3>1, <3>2, SeenMap
  <2> HIDE DEF map
  <2>5. map \in Maps!InUse' /\ Maps!NewVersion(map)
    BY <1>3, ShownIs DEF Maps!InUse, Maps!NewVersion
  <2>6. oom' = oom
    BY <1>1, <1>4, <1>6 DEF IInv
  <2>7. Maps!Remove
    BY <2>1, <2>4, <2>5, <2>6 DEF Maps!Remove, m
  <2> QED
    BY <2>7 DEF Maps!Next
<1> QED
  BY <1>5, <1>6

\* Compaction keeps one of the maps, or runs out of memory.
LEMMA CompactMaps ==
  ASSUME IInv, NamesHaveBuckets, NEW from, NEW room \in Nat, Compact(from, room)
  PROVE  Maps!Next
<1> DEFINE old == MapIn(rowCells, leafCells, versions[from])
<1>1. from \in DOMAIN versions /\ ~oom
  BY CompactStep
<1>2. PICK new :
        /\ Renews(new)
        /\ ~oom' => \A n \in Names : \A e :
             Sees(rowCells', leafCells', new.index, n, e) <=>
               Sees(rowCells, leafCells, versions[from].index, n, e)
  BY CompactStep
<1> DEFINE map == MapIn(rowCells', leafCells', new)
<1>3. /\ Shown' = <<map>> /\ \E i \in DOMAIN Shown' : map = Shown'[i]
      /\ DOMAIN map \subseteq Names /\ map \in [DOMAIN map -> Entries]
  BY <1>2, RenewsShown
<1>4. oom' \in BOOLEAN
  BY <1>2 DEF Renews
<1>5. CASE oom'
  <2> HIDE DEF map
  <2> QED
    BY <1>3, <1>4, <1>5, RunsOut
<1>6. CASE ~oom'
  <2>1. /\ old \in Maps!InUse
        /\ DOMAIN old \subseteq Names /\ old \in [DOMAIN old -> Entries]
        /\ \A n \in Names : \A e :
             Sees(rowCells, leafCells, versions[from].index, n, e) <=> n \in DOMAIN old /\ old[n] = e
    BY <1>1, SeenAs
  <2> HIDE DEF old
  <2>2. map = old
    <3>1. /\ rowCells' \in Seq(RowCell) /\ leafCells' \in Seq(LeafCell)
          /\ IndexOk(rowCells', leafCells', new.index)
      BY <1>2, <1>6 DEF Renews, VersionOk
    <3>2. \A n \in Names : \A e :
            Sees(rowCells', leafCells', new.index, n, e) <=> n \in DOMAIN old /\ old[n] = e
      BY <1>2, <1>6, <2>1
    <3>3. old = [n \in DOMAIN old |-> old[n]]
      BY <2>1
    <3> QED
      BY <2>1, <3>1, <3>2, <3>3, SeenMap
  <2> HIDE DEF map
  <2>3. oom' = oom
    BY <1>1, <1>4, <1>6 DEF IInv
  <2>4. Maps!Keep
    BY <1>3, <2>1, <2>2, <2>3, ShownIs DEF Maps!Keep
  <2> QED
    BY <2>4 DEF Maps!Next
<1> QED
  BY <1>5, <1>6

\* The environment starts as one empty map.
LEMMA InitMaps == ASSUME GlobalsInit, NamesHaveBuckets PROVE Maps!Init
<1> DEFINE first == Version(NULL, [b \in Buckets |-> NULL])
           map == MapIn(rowCells, leafCells, first)
<1>1. rowCells = <<>> /\ leafCells = <<>> /\ oom = FALSE /\ versions = <<first>>
  BY DEF GlobalsInit
<1>2. \A b \in Buckets : first.index[b] = NULL
  BY DEF Version
<1> HIDE DEF first
<1>3. \A n \in Names : Find(leafCells, first.index, n) = NULL
  <2> TAKE n \in Names
  <2>1. Bucket(n) \in Buckets /\ Len(leafCells) \in Nat
    BY <1>1 DEF NamesHaveBuckets
  <2>2. Homed(rowCells, leafCells, Bucket(n), first.index[Bucket(n)])
    BY <1>1, <1>2, <2>1, NoLeaves
  <2>3. \A x : ~Holds(leafCells, Path(leafCells, first.index[Bucket(n)]), n, x)
    BY <1>1, <1>2, <2>1, NoLeaves
  <2> QED
    BY <2>1, <2>2, <2>3, FindIs
<1>4. map = [n \in {} |-> {}]
  <2>1. {n \in Names : Find(leafCells, first.index, n) # NULL} = {}
    BY <1>3
  <2> QED
    BY <2>1 DEF MapIn
<1> HIDE DEF map
<1>5. Shown = <<map>>
  <2>1. DOMAIN versions = 1..1 /\ versions[1] = first
    BY <1>1
  <2>2. Shown = [i \in 1..1 |-> map]
    BY <2>1 DEF Shown, map
  <2> QED
    BY <2>2
<1> QED
  BY <1>1, <1>4, <1>5, ShownIs DEF Maps!Init

\* To callers the environment is a sequence of maps: every operation makes the version its name
\* says, from cells it shares with the others, and changes none of them.
THEOREM EnvironmentIsMaps == GlobalsSpec => ImplementsMap
<1>1. GlobalsInit => IInv /\ Maps!Init
  BY InitHolds, InitMaps, GlobalsAssumption
<1>2. IInv /\ [GlobalsNext]_globalsVars => IInv'
  BY NextHolds, GlobalsAssumption
<1>3. IInv /\ [GlobalsNext]_globalsVars => [Maps!Next]_(Maps!vars)
  <2> SUFFICES ASSUME IInv, [GlobalsNext]_globalsVars PROVE [Maps!Next]_(Maps!vars)
    OBVIOUS
  <2>1. CASE GlobalsNext
    <3>1. NamesHaveBuckets /\ Rooms \subseteq Nat
      BY GlobalsAssumption DEF NamesHaveBuckets
    <3> QED
      BY <2>1, <3>1, AddMaps, WithoutMaps, CompactMaps DEF GlobalsNext
  <2>2. CASE UNCHANGED globalsVars
    BY <2>2 DEF globalsVars, Maps!vars, MapOf
  <2> QED
    BY <2>1, <2>2
<1> QED
  BY <1>1, <1>2, <1>3, PTL DEF GlobalsSpec, ImplementsMap, Maps!Spec
=============================================================================
