------------------------------ MODULE MCUsage ------------------------------
(***************************************************************************)
(* Programs of the kernel, built step by step from functions of every      *)
(* quantity, applications, local definitions, sums, pairs and tuples, and  *)
(* given to the checker.  What it accepts is run with calls by value, each *)
(* use of each variable counted, and read back as a normal form.           *)
(*                                                                         *)
(* A program is a function of its inputs; program is its body while it is *)
(* built, with openVars variables, the last of which is index 0.           *)
(***************************************************************************)
EXTENDS Build

CONSTANTS MaxBuildSteps,  \* bound: constructions of a program
          Handed          \* what is handed to a function that erases its argument: "lambda" or "global"

VARIABLES inputs, openVars, program, buildSteps
usageVars == <<inputs, openVars, program, buildSteps>>

Quantities == {Zero, One, Many}

-----------------------------------------------------------------------------
(* Functions that may use their argument not at all, once, or freely; and  *)
(* tokens to give to a program.                                            *)
CallNames == [skip |-> Zero, take |-> One, copy |-> Many]
TokenNames == <<"t1", "t2", "t3", "t4">>
PairTy(q) == TLan(SPi(q, NatTy), NatTy)
TwoNats == SumTy(<<NatTy, NatTy>>)

Library == Declared(GlobalInitial,
  <<Postulate("skip", Arrow(Zero, NatTy, NatTy)), Postulate("take", Arrow(One, NatTy, NatTy)),
    Postulate("copy", Arrow(Many, NatTy, NatTy)),
    Postulate("join", Arrow(One, NatTy, Arrow(One, NatTy, NatTy)))>>
  \o [i \in 1..4 |-> Postulate(TokenNames[i], NatTy)])

Input(q, ty) == [q |-> q, ty |-> ty]
\* What a program may be a function of.
Inputs ==
  {<<Input(q, ty)>> : q \in Quantities, ty \in {NatTy, TwoNats}}
  \cup {<<Input(q, PairTy(p))>> : q \in {One, Many}, p \in Quantities}
  \cup {<<Input(q, NatTy), Input(One, NatTy)>> : q \in {Zero, One}}

-----------------------------------------------------------------------------
(* Constructions.                                                          *)
Join(a, b) == ApplyAt(One, ApplyAt(One, TGlobal("join"), a), b)
ToNat == Just(Motive(None, 0, NatTy))
CaseOf(scrut, b, first, second) ==
  TElim(SColl(2), scrut, One, ToNat, <<Branch(ALeg(0), Leg(<<b>>, first)), Branch(ALeg(1), Leg(<<b>>, second))>>)
SplitPair(q, scrut, inside) ==
  TElim(SPi(q, NatTy), scrut, One, ToNat, <<Branch(ALeg(0), Leg(<<q, One>>, inside))>>)
Lambda(q, inside) == TAnn(FunAt(q, NatTy, inside), Arrow(q, NatTy, NatTy))

\* A function of functions, that calls twice what it is given.
NatToNat == Arrow(One, NatTy, NatTy)
CallTwice(fn) ==
  ApplyAt(Many, TAnn(FunAt(Many, NatToNat, Join(ApplyAt(One, TVar(0), Lit(0)), ApplyAt(One, TVar(0), Lit(1)))),
                     Arrow(Many, NatToNat, NatTy)),
          fn)
\* One that calls once what it is given, for a tuple.
NatToBoth == Arrow(One, NatTy, ProdTy(<<NatTy, NatTy>>))
CallForTuple(fn) ==
  ApplyAt(Many, TAnn(FunAt(Many, NatToBoth, ApplyAt(One, TVar(0), Lit(0))), Arrow(Many, NatToBoth, ProdTy(<<NatTy, NatTy>>))), fn)

\* One that calls what it is given, with nothing at run time.
ErasedToNat == Arrow(Zero, NatTy, NatTy)
CallErased(fn) ==
  ApplyAt(Many, TAnn(FunAt(Many, ErasedToNat, ApplyAt(Zero, TVar(0), Lit(0))), Arrow(Many, ErasedToNat, NatTy)), fn)

Variables == {TVar(i) : i \in 0..(openVars - 1)}

InitUsage == /\ inputs \in Inputs /\ openVars \in Len(inputs)..3 /\ buildSteps = 0 /\ NotSubmitted
             /\ program \in {Lit(0)} \cup Variables \cup {Join(TVar(0), x) : x \in Variables}

\* The steps that are left can bind the variables that are left.
Build(next, left) ==
  /\ Building /\ buildSteps < MaxBuildSteps /\ buildSteps' = buildSteps + 1
  /\ left - Len(inputs) <= 2 * (MaxBuildSteps - buildSteps')
  /\ program' = next /\ openVars' = left /\ UNCHANGED inputs
\* The last variable is bound by what is built.
Binds == openVars > Len(inputs)
Outer == {TVar(i) : i \in 0..(openVars - 2)}

CallNamed == \E name \in DOMAIN CallNames : Build(ApplyAt(CallNames[name], TGlobal(name), program), openVars)
JoinWith == \E x \in Variables : Build(Join(program, x), openVars)
Inject == \E i \in 0..1 :
  Build(CaseOf(TAnn(TIn(SColl(2), ALeg(i), <<program>>), TwoNats), One, TVar(0), ApplyAt(One, TGlobal("take"), TVar(0))), openVars)
Tuple == \E x \in Variables, i \in 0..1 :
  Build(TOut(SColl(2), ALeg(i), TAnn(TSec(SColl(2), TermLegs(<<program, x>>)), ProdTy(<<NatTy, NatTy>>))), openVars)
LetBind == Binds /\ \E x \in Outer \cup {Lit(1)} : Build(TLet(NatTy, x, program), openVars - 1)
CallLambda == Binds /\ \E q \in Quantities, x \in Outer : Build(ApplyAt(q, Lambda(q, program), x), openVars - 1)
CallClosure == Binds /\ Build(CallTwice(FunAt(One, NatTy, program)), openVars - 1)
CallPartly == Build(CallTwice(ApplyAt(One, TGlobal("join"), program)), openVars)
CallTupled == Binds /\ \E x \in Outer, i \in 0..1 :
  Build(TOut(SColl(2), ALeg(i), CallForTuple(FunAt(One, NatTy, TSec(SColl(2), TermLegs(<<program, x>>))))), openVars - 1)
CallNullary ==
  \/ "lambda" \in Handed /\ Binds /\ Build(CallErased(FunAt(Zero, NatTy, program)), openVars - 1)
  \/ "global" \in Handed /\ Build(Join(CallErased(TGlobal("skip")), program), openVars)
\* A sum or a pair is the first input, or it is made on the spot.
OuterInput(ty, left) == IF inputs[1].ty = ty THEN {TVar(left - 1)} ELSE {}
Case == Binds /\ \E scrut \in OuterInput(TwoNats, openVars - 1), other \in {Lit(0), TVar(0), program} :
  Build(CaseOf(scrut, One, program, other), openVars - 1)
MadePair(q, first) == TAnn(TIn(SPi(q, NatTy), APt(q, first), <<Lit(1)>>), PairTy(q))
Split == openVars - 1 > Len(inputs) /\ \E q \in Quantities :
  \E scrut \in OuterInput(PairTy(q), openVars - 2) \cup {MadePair(q, TVar(i)) : i \in 0..(openVars - 3)} :
    Build(SplitPair(q, scrut, program), openVars - 2)

SubmitUsage == openVars = Len(inputs) /\ Submit("usage") /\ UNCHANGED <<inputs, openVars, program, buildSteps>>

NextUsage ==
  \/ CallNamed \/ JoinWith \/ Inject \/ Tuple \/ LetBind \/ CallLambda \/ CallClosure \/ CallPartly
  \/ CallTupled \/ CallNullary \/ Case \/ Split
  \/ SubmitUsage
SpecUsage == InitUsage /\ [][NextUsage]_<<submitted, usageVars>>

-----------------------------------------------------------------------------
(* The program and its type.                                               *)
Abstracted(f(_, _, _), inside) ==
  LET From[i \in 1..(Len(inputs) + 1)] ==
        IF i > Len(inputs) THEN inside ELSE f(inputs[i].q, inputs[i].ty, From[i + 1])
  IN From[1]
Program == Abstracted(FunAt, program)
ProgramTy == Abstracted(Arrow, NatTy)
TypeValue == Evaluate(Library, <<>>, ProgramTy).val
AcceptedProgram == SubmitUsage /\ CheckTerm(Library, Program, TypeValue).ok

-----------------------------------------------------------------------------
(* A run, with calls by value.  It knows of every variable that came into  *)
(* being its quantity and how often it was read.  What is erased is not    *)
(* run.                                                                    *)
Tree(head, args) == [kind |-> "tree", head |-> head, args |-> args]
Number(n) == [kind |-> "number", n |-> n]
Closure(q, inside, env) == [kind |-> "closure", q |-> q, body |-> inside, env |-> env]
Injected(leg, value) == [kind |-> "in", leg |-> leg, value |-> value]
Pair(first, second) == [kind |-> "pair", first |-> first, second |-> second]
TupleOf(values) == [kind |-> "tuple", values |-> values]
Erased == [kind |-> "erased"]

Cell(value, id) == [value |-> value, id |-> id]
NoReads == [q |-> <<>>, reads |-> <<>>]
Born(m, q) == [q |-> Append(m.q, q), reads |-> Append(m.reads, 0)]
Newest(m) == Len(m.q)
Result(value, m) == [value |-> value, m |-> m]

RECURSIVE RunTerm(_, _, _), RunLegs(_, _, _)

\* inside with one more variable.
Enter(inside, env, m, q, value) ==
  LET born == Born(m, q) IN RunTerm(inside, Cons(Cell(value, Newest(born)), env), born)

CallQuantity(callee) ==
  IF callee.kind = "closure" THEN callee.q
  ELSE IF callee.head \in DOMAIN CallNames THEN CallNames[callee.head] ELSE One
CallValue(callee, arg, m) ==
  IF callee.kind = "closure" THEN Enter(callee.body, callee.env, m, callee.q, arg)
  ELSE Result(Tree(callee.head, Append(callee.args, arg)), m)

RunCallTo(callee, arg, env) ==
  IF CallQuantity(callee.value) = Zero THEN CallValue(callee.value, Erased, callee.m)
  ELSE LET got == RunTerm(arg, env, callee.m) IN CallValue(callee.value, got.value, got.m)

RunLegs(legs, env, m) ==
  IF legs = <<>> THEN Result(<<>>, m)
  ELSE LET first == RunTerm(Head(legs).body, env, m)
           rest == RunLegs(Tail(legs), env, first.m)
       IN Result(Cons(first.value, rest.value), rest.m)

RunPairParts(t, env, m) ==
  LET first == IF t.addr.q = Zero THEN Result(Erased, m) ELSE RunTerm(t.addr.arg, env, m)
      second == RunTerm(t.args[1], env, first.m)
  IN Result(Pair(first.value, second.value), second.m)

RunCase(t, got, env) ==
  LET branch == IF got.value.kind = "pair" THEN t.branches[1] ELSE t.branches[got.value.leg + 1]
      qs == branch.leg.binders
  IN IF got.value.kind = "pair"
     THEN LET born == Born(Born(got.m, qs[1]), qs[2])
          IN RunTerm(branch.leg.body, <<Cell(got.value.second, Newest(born)),
                                        Cell(got.value.first, Newest(born) - 1)>> \o env, born)
     ELSE Enter(branch.leg.body, env, got.m, qs[1], got.value.value)

RunTerm(t, env, m) ==
  CASE t.kind = "var" ->
         LET cell == env[t.index + 1] IN Result(cell.value, [m EXCEPT !.reads[cell.id] = @ + 1])
    [] t.kind = "lit" -> Result(Number(t.lit.value), m)
    [] t.kind = "global" -> Result(Tree(t.name, <<>>), m)
    [] t.kind = "ann" -> RunTerm(t.body, env, m)
    [] t.kind = "let" ->
         LET got == RunTerm(t.value, env, m) IN Enter(t.body, env, got.m, Many, got.value)
    [] t.kind = "sec" /\ t.shape.kind = "pi" -> Result(Closure(t.shape.q, t.legs[1].body, env), m)
    [] t.kind = "sec" /\ t.shape.kind = "coll" ->
         LET all == RunLegs(t.legs, env, m) IN Result(TupleOf(all.value), all.m)
    [] t.kind = "out" /\ t.addr.kind = "pt" -> RunCallTo(RunTerm(t.head, env, m), t.addr.arg, env)
    [] t.kind = "out" /\ t.addr.kind = "leg" ->
         LET got == RunTerm(t.head, env, m) IN Result(got.value.values[t.addr.index + 1], got.m)
    [] t.kind = "in" /\ t.addr.kind = "leg" ->
         LET got == RunTerm(t.args[1], env, m) IN Result(Injected(t.addr.index, got.value), got.m)
    [] t.kind = "in" /\ t.addr.kind = "pt" -> RunPairParts(t, env, m)
    [] t.kind = "elim" -> RunCase(t, RunTerm(t.scrut, env, m), env)

-----------------------------------------------------------------------------
(* The arguments of a program.                                             *)
Token(i) == TGlobal(TokenNames[i])
ArgumentsOf(i, ty) ==
  CASE ty = NatTy -> {Token(i)}
    [] ty = TwoNats -> {TIn(SColl(2), ALeg(leg), <<Token(i)>>) : leg \in 0..1}
    [] OTHER -> {TIn(ty.shape, APt(ty.shape.q, Token(i)), <<Token(i + 2)>>)}
Given == {args \in [1..Len(inputs) -> UNION {ArgumentsOf(i, inputs[i].ty) : i \in DOMAIN inputs}] :
            \A i \in DOMAIN args : args[i] \in ArgumentsOf(i, inputs[i].ty)}
AppliedProgram(args) ==
  LET Upto[i \in 0..Len(args)] ==
        IF i = 0 THEN TAnn(Program, ProgramTy) ELSE ApplyAt(inputs[i].q, Upto[i - 1], args[i])
  IN Upto[Len(args)]
RunOf(args) == RunTerm(AppliedProgram(args), <<>>, NoReads)

(* What the checker says of the quantity of a variable is what a run does: *)
(* on every run of an accepted program, in every branch and however often  *)
(* a closure is called, a linear variable is read exactly once and an      *)
(* erased one never.                                                       *)
UsesAsDeclared ==
  [][AcceptedProgram => \A args \in Given :
       LET m == RunOf(args).m
       IN \A id \in DOMAIN m.q : /\ m.q[id] = One => m.reads[id] = 1
                                 /\ m.q[id] = Zero => m.reads[id] = 0]_<<submitted, usageVars>>

(* The normal form as a tree; erased arguments are left out.               *)
RECURSIVE TreeOf(_)
TreeOf(t) ==
  CASE t.kind = "lit" -> Number(t.lit.value)
    [] t.kind = "global" -> Tree(t.name, <<>>)
    [] t.kind = "out" ->
         LET callee == TreeOf(t.head)
         IN Tree(callee.head, Append(callee.args, IF CallQuantity(callee) = Zero THEN Erased ELSE TreeOf(t.addr.arg)))

(* The evaluator, which calls by name, gives what the run gives; and the   *)
(* normal form of a program is accepted at its type and equal to it.       *)
EvaluationPreserves ==
  [][AcceptedProgram =>
       /\ \A args \in Given : TreeOf(NormalForm(Library, AppliedProgram(args)).val) = RunOf(args).value
       /\ LET ctx == MakeCtx(Library, 0)
              normal == NormalForm(Library, Program).val
          IN /\ CheckUses(ctx, Zero, normal, TypeValue).ok
             /\ Conv(ctx, TypeValue, Eval(ctx, Program).val, Eval(ctx, normal).val) = Yes]_<<submitted, usageVars>>
=============================================================================
