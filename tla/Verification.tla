---------------------------- MODULE Verification ----------------------------
(***************************************************************************)
(* validate_candidate (settlement.py) with the searches it makes: the      *)
(* cases of an auction are solved one after the other by solve_exact       *)
(* (BranchBound), the results go to the settlement (Settlement), and a     *)
(* search that runs out of its budget ends the whole.                      *)
(***************************************************************************)
EXTENDS Settlement, BranchBound

ASSUME VerificationAssumption ==
  NodeLimits \subseteq Nat \ {0} /\ PollEvery \in Nat \ {0, 1}

verificationVars == <<vars, searchVars>>

\* The first case is the full auction.
InitVerification == Init /\ InitSearch /\ excluded = None

\* A step of the settlement in which nothing is searched.
Settle ==
  /\ Admit \/ Compare \/ Pay \/ Certify \/ CertifyFails
  /\ UNCHANGED searchVars

\* exact_cases: a step of the search of the case that is next.
SearchOn ==
  /\ stage = "solve" /\ NextSearch
  /\ UNCHANGED <<submitted, exact, payments, stage>>

\* solve_exact returns: the result is kept under the name of its case, and the next
\* case, if there is one, starts with all rows free.
Return ==
  /\ stage = "solve" /\ status = "done"
  /\ exact' = Append(exact, best)
  /\ stage' = IF Len(exact') = Len(Cases) THEN "compare" ELSE "solve"
  /\ excluded' = IF stage' = "solve" THEN Cases[Len(exact') + 1] ELSE excluded
  /\ rows' = {} /\ order' = <<>> /\ residual' = <<>> /\ stack' = <<>> /\ best' = {} /\ nodes' = 0
  /\ status' = "compile"
  /\ UNCHANGED <<auction, submitted, payments, limit>>

\* solve_exact raises VerificationLimit.
Raise == status = "limit" /\ Limit /\ UNCHANGED searchVars

NextVerification == Settle \/ SearchOn \/ Return \/ Raise

SpecVerification == InitVerification /\ [][NextVerification]_verificationVars

-----------------------------------------------------------------------------
\* The searches give the settlement what it is promised, in every case the choice of
\* greatest welfare and then smallest mask, and nothing once the budget is spent.
ImplementsSettlement == Spec

-----------------------------------------------------------------------------
(* Small auctions for TLC: two tenants, three offers over two ticks, two   *)
(* slices and one host, with slices that clash, intervals that touch, ties *)
(* and an offer of value zero.  Some claims use a whole slice.             *)
MCValues == {<<0, 1, 2>>, <<1, 1, 1>>, <<1, 2, 1>>, <<3, 2, 2>>}
MCSlots == {<<{1}, {1, 2}, {2}>>, <<{1}, {2}, {1}>>}

MCInstances ==
  {[horizon |-> 2, capacity |-> [h \in {"n"} |-> 2], slots |-> {1, 2},
    hbm |-> <<4, 2>>, tenants |-> {"a", "b"}, rank |-> [a |-> 1, b |-> 2],
    offers |-> [i \in 1 .. 3 |->
      [tenant |-> <<"a", "b", "a">>[i], value |-> v[i], start |-> IF i = 3 THEN start ELSE 0,
       end |-> <<1, end, 2>>[i],
       slots |-> s[i], hbm |-> [p \in s[i] |-> IF i = 1 THEN 1 ELSE 2], cores |-> [h \in {"n"} |-> <<1, cores, 1>>[i]]]]] :
     v \in MCValues, s \in MCSlots, start \in {0, 1}, end \in {1, 2}, cores \in {1, 2}}
=============================================================================
