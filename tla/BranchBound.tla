---------------------------- MODULE BranchBound ----------------------------
(***************************************************************************)
(* solve_exact (mechanism_cuopt/optimization.py): the branch-and-bound     *)
(* search that decides the welfare optimum of an auction and of every      *)
(* counterfactual with one tenant excluded, within a node and time budget. *)
(* The recursion of visit is a stack of frames; residual, best and nodes   *)
(* are the variables the frames share.                                     *)
(***************************************************************************)
EXTENDS Auction, SequencesExt

CONSTANTS NodeLimits,    \* values of node_limit
          PollEvery      \* how many nodes go by between looks at the clock (256)

VARIABLES excluded, limit,  \* the other arguments
          rows,      \* model.constraints
          order,     \* the offers the search branches on, in the order it does
          residual,  \* what each row has left
          stack,     \* frames of visit, the innermost last
          best,      \* best_mask; best_welfare is its welfare
          nodes,     \* nodes visited
          status     \* "compile", "search", "done" or "limit"

searchVars == <<excluded, limit, rows, order, residual, stack, best, nodes, status>>
fixed == <<auction, excluded, limit>>

\* What the search branches on: the offers that are positive and not excluded, highest
\* value first.
Considered == {i \in Indices(auction) :
                 auction.offers[i].value > 0 /\ auction.offers[i].tenant # excluded}

Before(i, j) ==
  \/ auction.offers[i].value > auction.offers[j].value
  \/ auction.offers[i].value = auction.offers[j].value /\ i < j

Ordered == Sorted(Considered, {ij \in Considered \X Considered : Before(ij[1], ij[2])})

Frame(position, mask, at) == [position |-> position, mask |-> mask, at |-> at]
Top == Last(stack)

InitSearch ==
  /\ auction \in Instances
  /\ excluded \in auction.tenants \cup {None}
  /\ limit \in NodeLimits
  /\ rows = {}
  /\ order = <<>>
  /\ residual = <<>>
  /\ stack = <<>>
  /\ best = {}
  /\ nodes = 0
  /\ status = "compile"

\* compile_model, and the first call of visit.
Compile ==
  /\ status = "compile"
  /\ rows' = CompileModel(auction)
  /\ order' = Ordered
  /\ residual' = [r \in rows' |-> r.capacity]
  /\ stack' = <<Frame(1, {}, "enter")>>
  /\ status' = "search"
  /\ UNCHANGED <<fixed, best, nodes>>

Fits(i) == \A r \in rows : i \in DOMAIN r.terms => r.terms[i] <= residual[r]

Charge(i, sign) ==
  residual' = [r \in rows |->
    IF i \in DOMAIN r.terms THEN residual[r] - sign * r.terms[i] ELSE residual[r]]

\* The bound: what every tenant's best offer that still fits would add.
Rest(position) == {order[k] : k \in position .. Len(order)}

TenantBest(t, position) ==
  Max({0} \cup {auction.offers[i].value : i \in {j \in Rest(position) \cap OffersOf(auction, t) : Fits(j)}})

\* Mistake: the bound leaves out the offer the frame is about to branch on.
UpperShort(frame) ==
  Welfare(auction, frame.mask)
    + SumFunctionOnSet([t \in auction.tenants |-> TenantBest(t, frame.position + 1)], auction.tenants)

Upper(frame) ==
  Welfare(auction, frame.mask)
    + SumFunctionOnSet([t \in auction.tenants |-> TenantBest(t, frame.position)], auction.tenants)

Pruned(frame, record) ==
  \/ Upper(frame) < Welfare(auction, record)
  \/ Upper(frame) = Welfare(auction, record) /\ ~MaskLess(frame.mask, record)

\* Mistake: the record is replaced by any later tie.
RecordLatest(mask) ==
  IF Welfare(auction, mask) >= Welfare(auction, best) THEN mask ELSE best

\* The record after a visit: more welfare, or as much with a smaller mask.
Record(mask) == IF Beats(auction, mask, best) THEN mask ELSE best

OutOfNodes(n) == n > limit

\* The entry of visit: count the node, raise VerificationLimit when a budget is spent,
\* keep the record, and cut the subtree or go on to its first branch.
Visit ==
  /\ status = "search" /\ stack # <<>> /\ Top.at = "enter"
  /\ nodes' = nodes + 1
  /\ ~OutOfNodes(nodes')
  /\ best' = Record(Top.mask)
  /\ stack' = IF Pruned(Top, best') \/ Top.position > Len(order)
                THEN Front(stack)
                ELSE Append(Front(stack), [Top EXCEPT !.at = "with"])
  /\ UNCHANGED <<fixed, rows, order, residual, status>>

GiveUp ==
  /\ status = "search" /\ stack # <<>> /\ Top.at = "enter"
  /\ nodes' = nodes + 1
  /\ OutOfNodes(nodes') \/ nodes' % PollEvery = 1
  /\ status' = "limit"
  /\ UNCHANGED <<fixed, rows, order, residual, stack, best>>

\* The branch that takes the next offer, when every row it uses has room.
Take ==
  /\ status = "search" /\ stack # <<>> /\ Top.at = "with"
  /\ LET i == order[Top.position] IN
     IF Fits(i)
       THEN /\ Charge(i, 1)
            /\ stack' = Append(Append(Front(stack), [Top EXCEPT !.at = "restore"]),
                               Frame(Top.position + 1, Top.mask \cup {i}, "enter"))
       ELSE /\ stack' = Append(Front(stack), [Top EXCEPT !.at = "without"])
            /\ UNCHANGED residual
  /\ UNCHANGED <<fixed, rows, order, best, nodes, status>>

\* Mistake: the rows are not given back what the finished branch used.
RestoreNothing ==
  /\ status = "search" /\ stack # <<>> /\ Top.at = "restore"
  /\ stack' = Append(Front(stack), [Top EXCEPT !.at = "without"])
  /\ UNCHANGED <<fixed, rows, order, residual, best, nodes, status>>

\* Back from the branch: the rows get back what it used.
Restore ==
  /\ status = "search" /\ stack # <<>> /\ Top.at = "restore"
  /\ Charge(order[Top.position], -1)
  /\ stack' = Append(Front(stack), [Top EXCEPT !.at = "without"])
  /\ UNCHANGED <<fixed, rows, order, best, nodes, status>>

\* The branch that leaves the offer out is the last call of visit.
Skip ==
  /\ status = "search" /\ stack # <<>> /\ Top.at = "without"
  /\ stack' = Append(Front(stack), Frame(Top.position + 1, Top.mask, "enter"))
  /\ UNCHANGED <<fixed, rows, order, residual, best, nodes, status>>

\* visit(0, 0, 0) has returned; the result is checked against the rows.
Finish ==
  /\ status = "search" /\ stack = <<>>
  /\ status' = IF RowsFeasible(auction, rows, best, excluded) THEN "done" ELSE "error"
  /\ UNCHANGED <<fixed, rows, order, residual, stack, best, nodes>>

NextSearch == Compile \/ Visit \/ GiveUp \/ Take \/ Restore \/ Skip \/ Finish

-----------------------------------------------------------------------------

\* While a branch is open, the rows have left exactly what its mask does not use: the
\* shared residuals are restored on every way out of visit.
Held == IF stack = <<>> THEN {} ELSE
             IF Top.at = "restore" THEN Top.mask \cup {order[Top.position]} ELSE Top.mask

ResidualExact ==
  status = "search" => \A r \in rows : residual[r] = r.capacity - Load(r, Held) /\ residual[r] >= 0

\* No cut loses the optimum: until it is the record, it is below a frame still open.
OptimumPending ==
  status = "search" =>
    LET goal == Optimum(auction, excluded)
    IN  \/ best = goal
        \/ \E k \in DOMAIN stack :
             LET f == stack[k]
                 rest == Rest(IF f.at \in {"enter", "with"} THEN f.position ELSE f.position + 1)
             IN  f.mask \subseteq goal /\ goal \subseteq f.mask \cup rest
=============================================================================
