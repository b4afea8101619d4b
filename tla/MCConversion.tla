---------------------------- MODULE MCConversion ----------------------------
(***************************************************************************)
(* Pairs of terms, built step by step, given to the conversion of the      *)
(* checker, and compared with what the terms mean.                         *)
(*                                                                         *)
(* The terms are bodies of functions of a type A, two values x and y of a  *)
(* carrier, which is Nat or A, and a number z.  They mean something in a   *)
(* model, where the types are small sets and proofs of a proposition are   *)
(* all one; two of them should convert exactly if they are the same in     *)
(* every model.                                                            *)
(***************************************************************************)
EXTENDS Build

CONSTANTS MaxGrown,  \* bound: constructions of one side
          MaxBoth,   \* bound: constructions of both sides
          Carriers   \* the types of x and y: "nat", "variable"

VARIABLES carrier, leftSide, rightSide, grown
conversionVars == <<carrier, leftSide, rightSide, grown>>

-----------------------------------------------------------------------------
PairOfNats == TLan(SPi(Many, NatTy), NatTy)
TupleOfNats == ProdTy(<<NatTy, NatTy>>)
UnitType == UnitTy(LevelOne)
Claim == TGlobal("Claim")

Axioms == Declared(GlobalInitial,
  <<Postulate("f", Arrow(Many, NatTy, NatTy)),
    Postulate("h", Arrow(Many, Arrow(Many, NatTy, NatTy), NatTy)),
    Postulate("g", Arrow(Many, TUniv(LevelOne), Arrow(Many, TVar(0), NatTy))),
    Postulate("Claim", TUniv(L!LZero)), Postulate("proof1", Claim), Postulate("proof2", Claim),
    Postulate("byProof", Arrow(Many, Claim, NatTy)),
    Postulate("unit1", UnitType), Postulate("byUnit", Arrow(Many, UnitType, NatTy)),
    Postulate("p", PairOfNats), Postulate("byPair", Arrow(Many, PairOfNats, NatTy)),
    Postulate("t", TupleOfNats), Postulate("byTuple", Arrow(Many, TupleOfNats, NatTy))>>)

-----------------------------------------------------------------------------
(* Typed terms, and what can be made of one.                               *)
Side(ty, term) == [ty |-> ty, term |-> term]
TypeA == TVar(3)
X == TVar(2)
Y == TVar(1)
N0 == TVar(0)

PairTerm(a, b) == TIn(SPi(Many, NatTy), APt(Many, a), <<b>>)
Half(which, pair) ==
  TElim(SPi(Many, NatTy), pair, One, Just(Motive(None, 0, NatTy)),
        <<Branch(ALeg(0), Leg(<<Many, Many>>, TVar(1 - which)))>>)
TupleTerm(a, b) == TSec(SColl(2), TermLegs(<<a, b>>))
MemberOf(which, tuple) == TOut(SColl(2), ALeg(which), tuple)
CallAxiom(name, arg) == Apply(TGlobal(name), arg)
Identity == TAnn(Fun(NatTy, TVar(0)), Arrow(Many, NatTy, NatTy))
Inl(term) == TAnn(TIn(SColl(2), ALeg(0), <<term>>), SumTy(<<NatTy, NatTy>>))
OfInl(sum) ==
  TElim(SColl(2), sum, One, Just(Motive(None, 0, NatTy)),
        <<Branch(ALeg(0), Leg(<<Many>>, TVar(0))), Branch(ALeg(1), Leg(<<Many>>, Lit(5)))>>)

SideAtoms(c) ==
  (IF c = "nat" THEN {Side("nat", X), Side("nat", Y)} ELSE {})
  \cup {Side("carrier", X), Side("carrier", Y), Side("nat", N0)}
  \cup {Side("claim", TGlobal("proof1")), Side("claim", TGlobal("proof2"))}
  \cup {Side("unit", TGlobal("unit1")), Side("unit", UnitVal)}
  \cup {Side("pair", TGlobal("p")), Side("tuple", TGlobal("t"))}
  \cup {Side("function", TGlobal("f")), Side("function", Fun(NatTy, CallAxiom("f", TVar(0)))),
        Side("function", Fun(NatTy, TVar(0)))}

SideGrown(s) ==
  CASE s.ty = "nat" -> {Side("nat", CallAxiom("f", s.term)), Side("nat", Apply(Identity, s.term)),
                        Side("nat", TLet(NatTy, s.term, TVar(0))), Side("nat", OfInl(Inl(s.term))),
                        Side("pair", PairTerm(s.term, Lit(1))), Side("pair", PairTerm(Half(0, TGlobal("p")), s.term)),
                        Side("tuple", TupleTerm(Add2(Lit(1), Lit(1)), s.term)),
                        Side("tuple", TupleTerm(s.term, MemberOf(1, TGlobal("t"))))}
    [] s.ty = "carrier" -> {Side("nat", Apply2(TGlobal("g"), IF carrier = "nat" THEN NatTy ELSE TypeA, s.term))}
    [] s.ty = "claim" -> {Side("nat", CallAxiom("byProof", s.term))}
    [] s.ty = "unit" -> {Side("nat", CallAxiom("byUnit", s.term))}
    [] s.ty = "pair" -> {Side("nat", Half(i, TAnn(s.term, PairOfNats))) : i \in 0..1}
                        \cup {Side("nat", CallAxiom("byPair", s.term))}
    [] s.ty = "tuple" -> {Side("nat", MemberOf(i, TAnn(s.term, TupleOfNats))) : i \in 0..1}
                         \cup {Side("nat", CallAxiom("byTuple", s.term))}
    [] s.ty = "function" -> {Side("nat", CallAxiom("h", s.term)),
                             Side("nat", Apply(TAnn(s.term, Arrow(Many, NatTy, NatTy)), N0))}

InitConversion == /\ carrier \in Carriers /\ leftSide \in SideAtoms(carrier) /\ rightSide \in SideAtoms(carrier)
                  /\ grown = [left |-> 0, right |-> 0] /\ NotSubmitted

More(side) == Building /\ grown[side] < MaxGrown /\ grown.left + grown.right < MaxBoth
              /\ grown' = [grown EXCEPT ![side] = @ + 1]
GrowLeft == More("left") /\ leftSide' \in SideGrown(leftSide) /\ UNCHANGED <<carrier, rightSide>>
GrowRight == grown.right < grown.left /\ More("right") /\ rightSide' \in SideGrown(rightSide) /\ UNCHANGED <<carrier, leftSide>>

SubmitConversion == leftSide.ty = rightSide.ty /\ Submit("conversion") /\ UNCHANGED <<carrier, leftSide, rightSide, grown>>

NextConversion == GrowLeft \/ GrowRight \/ SubmitConversion
SpecConversion == InitConversion /\ [][NextConversion]_<<submitted, conversionVars>>

-----------------------------------------------------------------------------
(* The terms as functions of A, x, y and z.                                *)
TypeTerm(ty) ==
  CASE ty = "nat" -> NatTy
    [] ty = "claim" -> Claim
    [] ty = "unit" -> UnitType
    [] ty = "pair" -> PairOfNats
    [] ty = "tuple" -> TupleOfNats
    [] ty = "function" -> Arrow(Many, NatTy, NatTy)
    [] ty = "carrier" -> IF carrier = "nat" THEN NatTy ELSE TypeA

CarrierAt(index) == IF carrier = "nat" THEN NatTy ELSE TVar(index)
Over(F(_, _, _), inside) ==
  F(Many, TUniv(LevelOne), F(Many, CarrierAt(0), F(Many, CarrierAt(1), F(Many, NatTy, inside))))

EmptyCtx == MakeCtx(Axioms, 0)

Converted(ctx, ty, a, b) ==
  Then(TypeIn(ctx, ty), LAMBDA tyv :
  Then(CheckUses(ctx, One, a, tyv), LAMBDA aUses :
  Then(CheckUses(ctx, One, b, tyv), LAMBDA bUses :
    Conv(ctx, tyv, Eval(ctx, a).val, Eval(ctx, b).val))))

-----------------------------------------------------------------------------
(* Models: numbers are those below 11, and a model is a number that the    *)
(* axioms depend on, each in its own way.  A type means nothing.           *)
Modulus == 11
Numbers == 0..(Modulus - 1)
Models == 1..4
Salt(i, j) == ((571 * i * i + 797 * j * j + 313 * i * j) \div 7) % Modulus

FOf(i) == [n \in Numbers |-> (Salt(i, 1) * n * n + 3 * n * n * n + Salt(i, 2)) % Modulus]
Applied(i, name, arg) ==
  CASE name = "f" -> FOf(i)[arg]
    [] name = "h" -> (Salt(i, 3) * arg[0] + 3 * arg[i] + 2 * arg[5] + Salt(i, 4)) % Modulus
    [] name = "byProof" -> Salt(i, 5)
    [] name = "byUnit" -> Salt(i, 6)
    [] name = "byPair" -> (Salt(i, 7) * arg[1] + 3 * arg[2] + Salt(i, 8)) % Modulus
    [] name = "byTuple" -> (arg[1] + Salt(i, 9) * arg[2] + Salt(i, 10)) % Modulus
Constants(i) ==
  [f |-> FOf(i), proof1 |-> 0, proof2 |-> 0, unit1 |-> <<>>,
   p |-> <<Salt(i, 12), Salt(i, 13)>>, t |-> <<Salt(i, 14), Salt(i, 15)>>]
Environment(i) == <<Salt(i, 16), Salt(i, 17), Salt(i, 18), 0>>

RECURSIVE Meaning(_, _, _)
MeaningOfCall(i, env, callee, arg) ==
  CASE callee.kind = "global" -> Applied(i, callee.name, Meaning(i, env, arg))
    [] callee.kind = "ann" -> Meaning(i, env, callee)[Meaning(i, env, arg)]
    [] callee.kind = "out" -> (5 * Meaning(i, env, arg) + Salt(i, 19)) % Modulus  \* g at a type
MeaningOfCase(i, env, scrut, branches) ==
  LET value == Meaning(i, env, scrut)
  IN Meaning(i, (IF Len(branches) = 1 THEN <<value[2], value[1]>> ELSE <<value>>) \o env, branches[1].leg.body)

Meaning(i, env, term) ==
  CASE term.kind = "var" -> env[term.index + 1]
    [] term.kind = "lit" -> term.lit.value
    [] term.kind = "global" -> Constants(i)[term.name]
    [] term.kind = "ann" -> Meaning(i, env, term.body)
    [] term.kind = "let" -> Meaning(i, Cons(Meaning(i, env, term.value), env), term.body)
    [] term.kind = "in" -> IF term.addr.kind = "pt" THEN <<Meaning(i, env, term.addr.arg), Meaning(i, env, term.args[1])>>
                           ELSE Meaning(i, env, term.args[1])
    [] term.kind = "sec" -> IF term.shape.kind = "pi" THEN [n \in Numbers |-> Meaning(i, Cons(n, env), term.legs[1].body)]
                            ELSE [j \in DOMAIN term.legs |-> Meaning(i, env, term.legs[j].body)]
    [] term.kind = "elim" -> MeaningOfCase(i, env, term.scrut, term.branches)
    [] term.kind = "out" /\ term.addr.kind = "leg" -> Meaning(i, env, term.head)[term.addr.index + 1]
    [] term.kind = "out" /\ term.head.kind = "global" /\ term.head.name = "natAdd" -> [n \in Numbers |-> (n + 1) % Modulus]
    [] OTHER -> MeaningOfCall(i, env, term.head, term.addr.arg)

SameMeaning == \A i \in Models : Meaning(i, Environment(i), leftSide.term) = Meaning(i, Environment(i), rightSide.term)

(* Conversion separates what differs and identifies what does not: two     *)
(* terms of one type, as functions of A, x, y and z, convert exactly if    *)
(* they mean the same.                                                     *)
ConversionSeparates ==
  [][SubmitConversion =>
       LET ty == TypeTerm(leftSide.ty)
       IN Converted(EmptyCtx, Over(Arrow, ty), Over(FunAt, leftSide.term), Over(FunAt, rightSide.term))
            = Done(SameMeaning)]_<<submitted, conversionVars>>
=============================================================================
