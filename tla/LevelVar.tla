------------------------------ MODULE LevelVar ------------------------------
(***************************************************************************)
(* kernel/level_var.c: universe levels with variables, and what they mean. *)
(* A level is zero, a positive offset of a level, a maximum, an            *)
(* impredicative maximum (zero where its right side is) or a variable.     *)
(* Value is the meaning, which the code does not compute: the level at a   *)
(* valuation of the variables.                                             *)
(***************************************************************************)
EXTENDS Naturals, Sequences

LZero == [kind |-> "zero"]
LVar(index) == [kind |-> "var", index |-> index]
LSucc(amount, base) == [kind |-> "succ", amount |-> amount, base |-> base]
LMax(left, right) == [kind |-> "max", left |-> left, right |-> right]
LIMax(left, right) == [kind |-> "imax", left |-> left, right |-> right]

IsPair(level) == level.kind \in {"max", "imax"}
Maximum(a, b) == IF a >= b THEN a ELSE b

-----------------------------------------------------------------------------
RECURSIVE Value(_, _)
Value(level, valuation) ==
  CASE level.kind = "zero" -> 0
    [] level.kind = "var" -> valuation[level.index]
    [] level.kind = "succ" -> level.amount + Value(level.base, valuation)
    [] level.kind = "max" -> Maximum(Value(level.left, valuation), Value(level.right, valuation))
    [] level.kind = "imax" ->
         IF Value(level.right, valuation) = 0 THEN 0
         ELSE Maximum(Value(level.left, valuation), Value(level.right, valuation))

-----------------------------------------------------------------------------
(* Well formed: every offset is positive.  In scope: well formed, with     *)
(* variables below the arity.                                              *)
RECURSIVE WellFormed(_)
WellFormed(level) ==
  /\ level.kind = "succ" => level.amount > 0 /\ WellFormed(level.base)
  /\ IsPair(level) => WellFormed(level.left) /\ WellFormed(level.right)

RECURSIVE InScope(_, _)
InScope(level, arity) ==
  /\ level.kind = "var" => level.index < arity
  /\ level.kind = "succ" => level.amount > 0 /\ InScope(level.base, arity)
  /\ IsPair(level) => InScope(level.left, arity) /\ InScope(level.right, arity)

-----------------------------------------------------------------------------
(* Substitution.  args[i + 1] is the level of the variable i; offsets that *)
(* meet are merged into one.                                               *)

Offset(amount, level) ==
  CASE amount = 0 -> level
    [] level.kind = "succ" -> LSucc(amount + level.amount, level.base)
    [] OTHER -> LSucc(amount, level)

RECURSIVE Replaced(_, _)
Replaced(level, args) ==
  CASE level.kind = "zero" -> LZero
    [] level.kind = "var" -> args[level.index + 1]
    [] level.kind = "succ" -> Offset(level.amount, Replaced(level.base, args))
    [] level.kind = "max" -> LMax(Replaced(level.left, args), Replaced(level.right, args))
    [] level.kind = "imax" -> LIMax(Replaced(level.left, args), Replaced(level.right, args))

\* The level, if there is one, as a set of at most one member.
Subst(args, level) ==
  IF InScope(level, Len(args)) /\ \A i \in DOMAIN args : WellFormed(args[i])
  THEN {Replaced(level, args)} ELSE {}
=============================================================================
