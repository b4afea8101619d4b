------------------------------- MODULE MCBase -------------------------------
(***************************************************************************)
(* The data structures the kernel stands on, in one run: a behaviour       *)
(* builds usages (Quantity), decides a question about levels (LevelEq),    *)
(* makes versions of the environment (Globals) or enters and leaves the    *)
(* scopes of locals (Context), and the variables of the others stay as     *)
(* they are.                                                               *)
(***************************************************************************)
EXTENDS Quantity, Globals, Context, TLC

CONSTANTS Budgets,    \* how many ticks a decision may spend
          MaxValue    \* bound: valuations take values up to this one

VARIABLES subject,  \* what is looked at: "quantity", "levels", "globals" or "context"
          left, right, equality, budget, phase, found, pending, outcome \* of LevelEq

\* The hash of names: two of three meet.
BucketOf(name) == IF name = "z" THEN 2 ELSE 1

\* Levels over two variables, with every former nested in every other.
V == INSTANCE LevelVar
Base == V!LZero
Var0 == V!LVar(0)
Var1 == V!LVar(1)
Raised(amount, level) == V!LSucc(amount, level)
Larger(a, b) == V!LMax(a, b)
ZeroOrLarger(a, b) == V!LIMax(a, b)

Atoms == {Base, Var0, Var1}
Offsets == {Raised(1, Base), Raised(2, Base), Raised(1, Var0), Raised(2, Var1)}
Pairs == {Larger(Var0, Var1), Larger(Var1, Var0), Larger(Var0, Raised(1, Var1))}
  \cup {ZeroOrLarger(a, b) : a \in Atoms \cup {Raised(1, Var1)}, b \in {Var0, Var1}}
Deep == {ZeroOrLarger(Raised(1, Base), Var0), ZeroOrLarger(Var0, Larger(Var0, Var1)),
         Larger(ZeroOrLarger(Var0, Var1), Var1), ZeroOrLarger(Raised(2, Var0), ZeroOrLarger(Var1, Var0)),
         Raised(1, ZeroOrLarger(Var1, Var0)), Larger(Raised(1, Var0), Raised(1, ZeroOrLarger(Var1, Var0))),
         ZeroOrLarger(Var1, Raised(1, Var0)), ZeroOrLarger(ZeroOrLarger(Var0, Var1), Var0),
         Larger(Raised(2, Base), Larger(Var0, Raised(1, Var0)))}
Malformed == {Raised(0, Var0), Larger(Var1, Raised(0, Base))}

Decision == INSTANCE LevelEq
              WITH Levels <- Atoms \cup Offsets \cup Pairs \cup Deep \cup Malformed, Indices <- {0, 1}

decisionVars == <<left, right, equality, budget, phase, found, pending, outcome>>
baseVars == <<subject, built, decisionVars, globalsVars, contextVars>>

NoDecision == /\ left = 0 /\ right = 0 /\ equality = FALSE /\ budget = 0 /\ phase = "idle"
              /\ found = <<>> /\ pending = <<>> /\ outcome = "none"

InitBase ==
  /\ GlobalsInit /\ ContextInit
  /\ \/ subject = "quantity" /\ Init /\ NoDecision
     \/ subject = "levels" /\ built = {} /\ Decision!Init
     \/ subject \in {"globals", "context"} /\ built = {} /\ NoDecision

BuildUsages == subject = "quantity" /\ Next /\ UNCHANGED <<subject, decisionVars, globalsVars, contextVars>>
Decide == subject = "levels" /\ Decision!Next /\ UNCHANGED <<subject, built, globalsVars, contextVars>>
Derive == subject = "globals" /\ GlobalsNext /\ UNCHANGED <<subject, built, decisionVars, contextVars>>
Scope == subject = "context" /\ ContextNext /\ UNCHANGED <<subject, built, decisionVars, globalsVars>>

NextBase == BuildUsages \/ Decide \/ Derive \/ Scope
SpecBase == InitBase /\ [][NextBase]_baseVars

\* The entries of an environment are interchangeable.
Symmetry == Permutations(Entries)

-----------------------------------------------------------------------------
\* An answer about levels is right, and it is the one the decision without a budget gives.
DecisionExact == Decision!Exact
=============================================================================
