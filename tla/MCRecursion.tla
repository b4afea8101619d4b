---------------------------- MODULE MCRecursion ----------------------------
(***************************************************************************)
(* Recursive definitions over the family N of zero and succ, built step by *)
(* step and given to the elaborator: a function f of one or two arguments, *)
(* alone or in a group with a function g.  What the elaborator accepts is  *)
(* compared with a run of the same text that counts its calls.             *)
(*                                                                         *)
(* fOpen is the number of variables open in fBody; when it has come down   *)
(* to the arity, fBody is the body of f.                                   *)
(***************************************************************************)
EXTENDS Build

CONSTANTS MaxBodySteps,     \* bound: constructions after the first variable or zero
          MaxOpen,      \* bound: variables open at the start
          MaxNumeral,   \* bound: arguments of the runs
          Fuel,         \* bound: calls of one run; more than any run that ends here makes
          Annotations   \* domains of the argument of f: "plain", or "calls" for one that calls f

VARIABLES arity, partner, fDomain, fOpen, fBody, bodySteps
recursionVars == <<arity, partner, fDomain, fOpen, fBody, bodySteps>>

-----------------------------------------------------------------------------
\* A function from N to types that is N everywhere.
Always == Definition("Always", Arrow(Many, NTy, TUniv(LevelOne)), Fun(NTy, NTy))

\* The globals the group is elaborated in.
RecursionBase == Declared(WithN, <<Always>>)

BodyAtoms(open) == {Z} \cup {TVar(i) : i \in 0..(open - 1)}

-----------------------------------------------------------------------------
InitRecursion == /\ arity \in 1..2 /\ fOpen \in 1..MaxOpen /\ fOpen >= arity
        /\ partner \in {"none", "smaller", "same"} /\ (partner # "none" => arity = 1)
        /\ fDomain \in Annotations
        /\ fBody \in BodyAtoms(fOpen) /\ bodySteps = 0 /\ NotSubmitted

\* The steps that are left can bind the variables that are left.
GrowBody(term, open) ==
  /\ Building /\ bodySteps < MaxBodySteps /\ bodySteps' = bodySteps + 1
  /\ open - arity <= MaxBodySteps - bodySteps'
  /\ fBody' = term /\ fOpen' = open
  /\ UNCHANGED <<arity, partner, fDomain>>

Succ == GrowBody(S(fBody), fOpen)

CallSelf ==
  \/ arity = 1 /\ GrowBody(Apply(TGlobal("f"), fBody), fOpen)
  \/ /\ arity = 2
     /\ \E other \in BodyAtoms(fOpen) :
          \/ GrowBody(Apply2(TGlobal("f"), fBody, other), fOpen)
          \/ GrowBody(Apply2(TGlobal("f"), other, fBody), fOpen)

CallPartner == partner # "none" /\ GrowBody(Apply(TGlobal("g"), fBody), fOpen)

\* What was built becomes the branch of succ in a match on a variable.
MatchVariable ==
  /\ fOpen > arity
  /\ \E i \in 0..(fOpen - 2), zero \in {Z, TVar(0)} : GrowBody(Match(TVar(i), zero, fBody), fOpen - 1)

\* What was built is itself matched on.
MatchValue == GrowBody(Match(fBody, Z, TVar(0)), fOpen)

LetVariable ==
  /\ fOpen > arity
  /\ \E i \in 0..(fOpen - 2) : GrowBody(TLet(NTy, TVar(i), fBody), fOpen - 1)

SubmitRecursion == fOpen = arity /\ Submit("recursion") /\ UNCHANGED <<arity, partner, fDomain, fOpen, fBody, bodySteps>>

NextRecursion ==
  Succ \/ CallSelf \/ CallPartner \/ MatchVariable \/ MatchValue \/ LetVariable \/ SubmitRecursion
SpecRecursion == InitRecursion /\ [][NextRecursion]_<<submitted, recursionVars>>

-----------------------------------------------------------------------------
(* The group.                                                              *)
ArgumentTy == IF fDomain = "calls" THEN Apply(TGlobal("Always"), Apply(TGlobal("f"), Z)) ELSE NTy
FTy == IF arity = 1 THEN Arrow(Many, NTy, NTy) ELSE Arrow(Many, NTy, Arrow(Many, NTy, NTy))
FBody == IF arity = 1 THEN Fun(ArgumentTy, fBody) ELSE Fun(ArgumentTy, Fun(NTy, fBody))
GBody ==
  CASE partner = "smaller" -> Fun(NTy, Match(TVar(0), Z, Apply(TGlobal("f"), TVar(0))))
    [] OTHER -> Fun(NTy, Match(TVar(0), Z, Apply(TGlobal("f"), S(TVar(0)))))
RecursionGroup == <<RecMember("f", FTy, FBody)>>
         \o (IF partner = "none" THEN <<>> ELSE <<RecMember("g", Arrow(Many, NTy, NTy), GBody)>>)

ElaboratedRecursion == ElabRecGroup(RecursionBase, RecursionGroup)
AcceptedRecursion == SubmitRecursion /\ ElaboratedRecursion.ok

-----------------------------------------------------------------------------
(* A run of the text with calls by value: the numeral it ends with and the *)
(* calls that are left, or no numeral when there are none left.            *)
Ran(n, fuel) == [ok |-> TRUE, val |-> n, fuel |-> fuel]
OutOfFuel == [ok |-> FALSE]

RECURSIVE Run(_, _, _), RunCall(_, _, _)
Run(term, env, fuel) ==
  CASE term.kind = "var" -> Ran(env[term.index + 1], fuel)
    [] term.kind = "lan" -> Ran(0, fuel)
    [] term.kind = "in" ->
         IF term.args = <<>> THEN Ran(0, fuel)
         ELSE LET sub == Run(term.args[1], env, fuel)
              IN IF sub.ok THEN Ran(sub.val + 1, sub.fuel) ELSE sub
    [] term.kind = "let" ->
         LET sub == Run(term.value, env, fuel)
         IN IF sub.ok THEN Run(term.body, Cons(sub.val, env), sub.fuel) ELSE sub
    [] term.kind = "elim" ->
         LET sub == Run(term.scrut, env, fuel)
         IN CASE ~sub.ok -> sub
              [] sub.ok /\ sub.val = 0 -> Run(term.branches[1].leg.body, env, sub.fuel)
              [] OTHER -> Run(term.branches[2].leg.body, Cons(sub.val - 1, env), sub.fuel)
    [] term.kind = "out" /\ term.head.kind = "global" ->
         LET sub == Run(term.addr.arg, env, fuel)
         IN IF sub.ok THEN RunCall(term.head.name, <<sub.val>>, sub.fuel) ELSE sub
    [] term.kind = "out" /\ term.head.kind = "out" ->
         LET first == Run(term.head.addr.arg, env, fuel)
             second == Run(term.addr.arg, env, first.fuel)
         IN IF first.ok THEN (IF second.ok THEN RunCall("f", <<first.val, second.val>>, second.fuel) ELSE second)
            ELSE first

\* A call looks at the domain of the function, then at its body.
RunCall(name, args, fuel) ==
  LET at == IF name = "f" /\ fuel > 0 THEN Run(ArgumentTy, <<>>, fuel - 1) ELSE Ran(0, fuel - 1)
  IN CASE name = "Always" -> Ran(0, fuel)
       [] name # "Always" /\ fuel = 0 -> OutOfFuel
       [] name = "f" /\ fuel > 0 -> IF at.ok THEN Run(fBody, Rev(args), at.fuel) ELSE at
       [] name = "g" /\ fuel > 0 -> Run(GBody.legs[1].body, args, at.fuel)

RunArguments == [1..arity -> 0..MaxNumeral]

-----------------------------------------------------------------------------
(* Every recursion the elaborator accepts ends: the certificate is a proof *)
(* that each call makes the argument of its position smaller, through      *)
(* matches, aliases and the other members of the group.                    *)
AcceptedRunsEnd ==
  [][AcceptedRecursion => \A args \in RunArguments : RunCall("f", args, Fuel).ok]_<<submitted, recursionVars>>

(* The evaluator computes what the text says: unfolding f only at a        *)
(* constructor in the certified position never leaves a closed call stuck  *)
(* and never takes another branch.                                         *)
RECURSIVE NumeralTerm(_)
NumeralTerm(n) == IF n = 0 THEN Z ELSE S(NumeralTerm(n - 1))
CallTerm(args) ==
  IF arity = 1 THEN Apply(TGlobal("f"), NumeralTerm(args[1]))
  ELSE Apply2(TGlobal("f"), NumeralTerm(args[1]), NumeralTerm(args[2]))
EvaluatesAsRun ==
  [][AcceptedRecursion => \A args \in RunArguments :
       LET run == RunCall("f", args, Fuel)
           g == ElaboratedRecursion.val
       IN run.ok => NormalForm(g, CallTerm(args)) = Done(NumeralTerm(run.val))]_<<submitted, recursionVars>>
=============================================================================
