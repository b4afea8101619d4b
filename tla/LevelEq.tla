------------------------------- MODULE LevelEq -------------------------------
(***************************************************************************)
(* kernel/level_eq.c: whether one universe level is at most, or equal to,  *)
(* another for every valuation of their variables.  The budgeted decision  *)
(* splits each variable into zero or positive; in a case without           *)
(* variables left to split it compares normal forms.  It spends one tick   *)
(* at every level and list cell it visits and gives up when the budget     *)
(* ends.                                                                   *)
(*                                                                         *)
(* pending is the stack of continuations, one frame per case that is still *)
(* to be decided.  The ticks of a collection or of a comparison are spent  *)
(* in one step: nothing is observable between them.                        *)
(***************************************************************************)
EXTENDS LevelVar, FiniteSets

CONSTANTS Levels,    \* the levels compared
          Indices,   \* the variables of all these levels
          Budgets,   \* how many ticks a decision may spend
          MaxValue   \* bound of the model: valuations take values up to this one

VARIABLES left, right, equality, \* the question
          budget,                \* the ticks left
          phase,                 \* "left", "right", "cases" or "done"
          found,                 \* the variables of the question, each once
          pending,               \* the cases to decide, the next one first
          outcome                \* "none", "yes", "no", "exhausted" or "malformed"
vars == <<left, right, equality, budget, phase, found, pending, outcome>>
question == <<left, right, equality>>

-----------------------------------------------------------------------------
(* The variables of a level are found once each, the last found first;     *)
(* the ticks end at an offset that is not positive.                        *)
Insert(xs, index) == IF \E i \in DOMAIN xs : xs[i] = index THEN xs ELSE <<index>> \o xs

RECURSIVE Variables(_, _)
Variables(level, xs) ==
  CASE level.kind = "zero" -> xs
    [] level.kind = "var" -> Insert(xs, level.index)
    [] level.kind = "succ" -> Variables(level.base, xs)
    [] IsPair(level) -> Variables(level.right, Variables(level.left, xs))

RECURSIVE VariablesTicks(_)
VariablesTicks(level) ==
  CASE level.kind \in {"zero", "var"} -> 1
    [] level.kind = "succ" -> 1 + IF level.amount > 0 THEN VariablesTicks(level.base) ELSE 0
    [] IsPair(level) -> 1 + VariablesTicks(level.left)
                          + IF WellFormed(level.left) THEN VariablesTicks(level.right) ELSE 0

-----------------------------------------------------------------------------
(* Normal forms: the maximum of a constant and of variables with amounts.  *)
(* arms is a function on the variables that have an arm; the code's list   *)
(* of arms has each variable once, in an order that no result depends on.  *)
Normal(constant, arms) == [constant |-> constant, arms |-> arms]
NoArms == [index \in {} |-> 0]
Arm(index, amount) == [i \in {index} |-> amount]

Merge(xs, ys) ==
  [i \in DOMAIN xs \cup DOMAIN ys |->
    IF i \notin DOMAIN ys THEN xs[i] ELSE IF i \notin DOMAIN xs THEN ys[i] ELSE Maximum(xs[i], ys[i])]
MaximumOf(a, b) == Normal(Maximum(a.constant, b.constant), Merge(a.arms, b.arms))
Shift(a, amount) == Normal(a.constant + amount, [i \in DOMAIN a.arms |-> a.arms[i] + amount])
NormalZero(a) == a.arms = NoArms /\ a.constant = 0

\* The normal form of a level with an amount added, where exactly the variables in positive
\* are not zero.
RECURSIVE NormalOf(_, _, _)
NormalOf(level, positive, amount) ==
  CASE level.kind = "zero" -> Normal(amount, NoArms)
    [] level.kind = "succ" -> NormalOf(level.base, positive, amount + level.amount)
    [] level.kind = "var" ->
         Normal(amount, IF level.index \in positive THEN Arm(level.index, amount) ELSE NoArms)
    [] level.kind = "max" ->
         MaximumOf(NormalOf(level.left, positive, amount), NormalOf(level.right, positive, amount))
    [] level.kind = "imax" ->
         LET rhs == NormalOf(level.right, positive, 0)
         IN IF NormalZero(rhs) THEN Normal(amount, NoArms)
            ELSE MaximumOf(NormalOf(level.left, positive, amount), Shift(rhs, amount))

\* A walk over a list of arms spends one tick for each and one for the end.
Walk(arms) == Cardinality(DOMAIN arms) + 1

RECURSIVE NormalTicks(_, _)
NormalTicks(level, positive) ==
  CASE level.kind \in {"zero", "var"} -> 1
    [] level.kind = "succ" -> 1 + NormalTicks(level.base, positive)
    [] level.kind = "max" ->
         1 + NormalTicks(level.left, positive) + NormalTicks(level.right, positive)
           + Walk(NormalOf(level.left, positive, 0).arms)
    [] level.kind = "imax" ->
         LET rhs == NormalOf(level.right, positive, 0)
         IN 1 + NormalTicks(level.right, positive)
              + IF NormalZero(rhs) THEN 0
                ELSE NormalTicks(level.left, positive) + Walk(rhs.arms)
                     + Walk(NormalOf(level.left, positive, 0).arms)

-----------------------------------------------------------------------------
(* One normal form is below another where all variables of arms are        *)
(* positive.                                                               *)

\* Mistake: an arm is taken to be as small as its amount.
MinimumValueBare(a) ==
  CHOOSE n \in {a.constant} \cup {a.arms[i] : i \in DOMAIN a.arms} :
    n >= a.constant /\ \A i \in DOMAIN a.arms : n >= a.arms[i]

MinimumValue(a) ==
  CHOOSE n \in {a.constant} \cup {a.arms[i] + 1 : i \in DOMAIN a.arms} :
    n >= a.constant /\ \A i \in DOMAIN a.arms : n >= a.arms[i] + 1

ArmsBelow(xs, ys) == \A i \in DOMAIN xs : i \in DOMAIN ys /\ xs[i] <= ys[i]
Below(a, b) == a.constant <= MinimumValue(b) /\ ArmsBelow(a.arms, b.arms)
BelowTicks(a, b) == Walk(b.arms) + Walk(a.arms)

-----------------------------------------------------------------------------
(* The decision without a budget, which refuses levels that are not well   *)
(* formed.                                                                 *)
RECURSIVE Cases(_, _, _, _)
Cases(remaining, positive, a, b) ==
  IF remaining = <<>> THEN Below(NormalOf(a, positive, 0), NormalOf(b, positive, 0))
  ELSE /\ Cases(Tail(remaining), positive, a, b)
       /\ Cases(Tail(remaining), positive \cup {Head(remaining)}, a, b)

LessEqual(a, b) ==
  WellFormed(a) /\ WellFormed(b) /\ Cases(Variables(a, Variables(b, <<>>)), {}, a, b)
Equal(a, b) == LessEqual(a, b) /\ LessEqual(b, a)

-----------------------------------------------------------------------------
(* The decision under a budget.                                            *)
Init ==
  /\ left \in Levels /\ right \in Levels /\ equality \in BOOLEAN
  /\ budget \in Budgets
  /\ phase = "left" /\ found = <<>> /\ pending = <<>> /\ outcome = "none"

End(result) == phase' = "done" /\ outcome' = result /\ pending' = <<>>

\* Spends n ticks and continues, or gives up when the budget has fewer.
Spend(n, continue) ==
  IF n <= budget THEN budget' = budget - n /\ continue
  ELSE budget' = 0 /\ End("exhausted") /\ UNCHANGED found

Collect(level, next, cases) ==
  /\ Spend(VariablesTicks(level),
       IF WellFormed(level)
       THEN /\ found' = Variables(level, found)
            /\ phase' = next /\ pending' = cases /\ UNCHANGED outcome
       ELSE End("malformed") /\ UNCHANGED found)
  /\ UNCHANGED question

Case(remaining, positive) == [remaining |-> remaining, positive |-> positive]

CollectLeft == phase = "left" /\ Collect(left, "right", <<>>)
CollectRight ==
  phase = "right" /\ Collect(right, "cases", <<Case(Variables(right, found), {})>>)

\* The case where the variable is zero is decided first.
Split ==
  LET case == Head(pending)
      rest == Tail(case.remaining)
  IN /\ phase = "cases" /\ case.remaining # <<>>
     /\ Spend(1, /\ pending' = <<Case(rest, case.positive),
                                 Case(rest, case.positive \cup {Head(case.remaining)})>> \o Tail(pending)
                 /\ UNCHANGED <<found, phase, outcome>>)
     /\ UNCHANGED question

\* The first case that does not hold decides.
Decided(holds) ==
  CASE ~holds -> End("no")
    [] holds /\ Len(pending) = 1 -> End("yes")
    [] OTHER -> pending' = Tail(pending) /\ UNCHANGED <<phase, outcome>>

Compare ==
  LET positive == Head(pending).positive
      lhs == NormalOf(left, positive, 0)
      rhs == NormalOf(right, positive, 0)
      below == Below(lhs, rhs)
      reverse == below /\ equality
  IN /\ phase = "cases" /\ Head(pending).remaining = <<>>
     /\ Spend(1 + NormalTicks(left, positive) + NormalTicks(right, positive) + BelowTicks(lhs, rhs)
                + IF reverse THEN BelowTicks(rhs, lhs) ELSE 0,
              Decided(IF reverse THEN Below(rhs, lhs) ELSE below) /\ UNCHANGED found)
     /\ UNCHANGED question

Finished == phase = "done" /\ UNCHANGED vars

Next == CollectLeft \/ CollectRight \/ Split \/ Compare \/ Finished
Spec == Init /\ [][Next]_vars

-----------------------------------------------------------------------------
Valuations == [Indices -> 0..MaxValue]
Related(valuation) ==
  /\ Value(left, valuation) <= Value(right, valuation)
  /\ equality => Value(left, valuation) = Value(right, valuation)

\* An answer is right: it says that the relation holds exactly if it does for every valuation,
\* and it is the one the decision without a budget gives.
Exact ==
  outcome \in {"yes", "no"} =>
    /\ (outcome = "yes") = \A valuation \in Valuations : Related(valuation)
    /\ (outcome = "yes") = IF equality THEN Equal(left, right) ELSE LessEqual(left, right)
=============================================================================
