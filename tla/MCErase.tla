------------------------------ MODULE MCErase ------------------------------
(***************************************************************************)
(* The programs of MCUsage and the recursions of MCRecursion that are      *)
(* accepted are erased, compiled and run on the machine.                   *)
(*                                                                         *)
(* The functions and tokens of the library are code of their own here:     *)
(* each builds a node of a tree, and is numbered so that no node is one of *)
(* the numbers 0 and 1 of the programs.                                    *)
(***************************************************************************)
EXTENDS MCRecursion, MCUsage, Emit

-----------------------------------------------------------------------------
(* The machine: what WebAssembly says of the instructions of Emit, which   *)
(* functions are valid and what they do.  Two types are the same if they   *)
(* have the same fields and stand alone; types that are declared in one    *)
(* group differ.  The type of a place is <<"none">> if no value gets there.*)
SameAs(l, key) == IF GroupOf(l, key) = {key} THEN CompType(key) ELSE <<"group">> \o key
SubType(l, a, b) ==
  CASE a = <<"none">> \/ b = <<"eq">> -> TRUE
    [] b = <<"i31">> -> a = <<"i31">>
    [] OTHER -> /\ a \notin {<<"eq">>, <<"i31">>}
                /\ SameAs(l, a) = SameAs(l, b)

-----------------------------------------------------------------------------
(* Validation: a type, or none of them if the instructions are not valid.  *)
Invalid == <<"invalid">>
FieldTy(key, index) == <<CompType(key)[index + 1]>>

RECURSIVE StaticTy(_, _, _, _)
Fits(m, func, locals, x, ty) ==
  LET got == StaticTy(m, func, locals, x) IN got # Invalid /\ SubType(m.l, got, ty)
AllFit(m, func, locals, xs, tys) ==
  Len(xs) = Len(tys) /\ \A i \in DOMAIN xs : Fits(m, func, locals, xs[i], tys[i])
Leaves(m, func, result) == IF SubType(m.l, result, func.result) THEN <<"none">> ELSE Invalid
Eqs(count) == [i \in 1..count |-> <<"eq">>]
Joined(types, ty) == IF Invalid \in types THEN Invalid ELSE ty
ArmTypes(m, func, locals, arms) == {StaticTy(m, func, locals, arms[i].body) : i \in DOMAIN arms}

StaticTy(m, func, locals, x) ==
  CASE x.kind = "num" -> <<"i31">>
    [] x.kind = "big" -> <<"nat-big">>
    [] x.kind = "runtime" -> <<"eq">>
    [] x.kind = "local" -> locals[x.index + 1]
    [] x.kind = "let" ->
         LET ty == StaticTy(m, func, locals, x.value)
         IN IF ty = Invalid THEN Invalid ELSE StaticTy(m, func, Append(locals, ty), x.body)
    [] x.kind \in {"call", "return_call"} ->
         LET callee == m.funcs[x.func]
         IN CASE ~AllFit(m, func, locals, x.args, callee.params) -> Invalid
              [] x.kind = "call" -> callee.result
              [] OTHER -> Leaves(m, func, callee.result)
    [] x.kind \in {"call_ref", "return_call_ref"} ->
         CASE ~AllFit(m, func, locals, Cons(x.callee, x.args), Cons(<<"clos">>, Eqs(x.count))) -> Invalid
           [] x.kind = "call_ref" -> <<"eq">>
           [] OTHER -> Leaves(m, func, <<"eq">>)
    [] x.kind = "closure" -> IF Fits(m, func, locals, x.env, <<"eq">>) THEN <<"clos">> ELSE Invalid
    [] x.kind = "new" ->
         IF AllFit(m, func, locals, x.args, [i \in DOMAIN CompType(x.key) |-> FieldTy(x.key, i - 1)])
         THEN x.key ELSE Invalid
    [] x.kind = "field" ->
         IF x.index < Len(CompType(x.key)) /\ Fits(m, func, locals, x.value, x.key)
         THEN FieldTy(x.key, x.index) ELSE Invalid
    [] x.kind = "cast" -> IF Fits(m, func, locals, x.value, <<"eq">>) THEN x.key ELSE Invalid
    [] x.kind = "case" ->
         LET arms == ArmTypes(m, func, Append(locals, <<"eq">>), x.arms)
         IN IF Fits(m, func, locals, x.scrut, <<"eq">>)
               /\ \A ty \in arms : ty # Invalid /\ SubType(m.l, ty, x.ty)
            THEN x.ty ELSE Invalid
    [] x.kind = "by_arity" ->
         IF Fits(m, func, locals, x.callee, <<"clos">>)
         THEN Joined(ArmTypes(m, func, locals, x.arms), <<"eq">>) ELSE Invalid
    [] x.kind = "unreachable" ->
         IF StaticTy(m, func, locals, x.value) = Invalid THEN Invalid ELSE <<"none">>

\* A local is declared with the type of what is put in it or one above that.
ValidModule(m) == \A key \in DOMAIN m.funcs : Fits(m, m.funcs[key], m.funcs[key].params, m.funcs[key].body, m.funcs[key].result)

-----------------------------------------------------------------------------
(* A run gives a value, or stops at an instruction that cannot go on.      *)
I31(n) == [kind |-> "i31", n |-> n]
BigNat(n) == [kind |-> "big", n |-> n]
Struct(key, fields) == [kind |-> "struct", key |-> key, fields |-> fields]
ClosureRef(count, func, env) == [kind |-> "clos", count |-> count, func |-> func, env |-> env]
Trap == [kind |-> "trap"]
\* What leaves the function it is in.
Left(value) == [kind |-> "left", value |-> value]
Stay(value) == IF value.kind = "left" THEN value.value ELSE value

IsOf(l, value, key) ==
  CASE key = <<"i31">> -> value.kind = "i31"
    [] key = <<"clos">> -> value.kind = "clos"
    [] OTHER -> value.kind = "struct" /\ SameAs(l, value.key) = SameAs(l, key)

(* The functions of nat_runtime.c.  The limbs of a big number are left out: its number   *)
(* is what the loops over them compute, and a Nat is an i31 when it fits in two of them. *)
MaxSmall == 1073741823
NatNormal(n) == IF n <= MaxSmall THEN I31(n) ELSE BigNat(n)
SlowNat(name, a, b) ==
  CASE name = "natAdd" -> NatNormal(a + b)
    [] name = "natSub" -> IF a < b THEN I31(0) ELSE NatNormal(a - b)
    [] name = "natMul" -> NatNormal(a * b)
    [] name = "natEq" -> I31(IF a = b THEN 1 ELSE 0)
    [] name = "natLt" -> I31(IF a < b THEN 1 ELSE 0)
SmallNat(name, a, b) ==
  CASE name = "natAdd" -> IF a + b > MaxSmall THEN SlowNat(name, a, b) ELSE I31(a + b)
    [] name = "natSub" -> I31(IF a < b THEN 0 ELSE a - b)
    [] name = "natMul" ->
         IF a = 0 THEN I31(0) ELSE IF b > MaxSmall \div a THEN SlowNat(name, a, b) ELSE I31(a * b)
    [] name = "natEq" -> I31(IF a = b THEN 1 ELSE 0)
    [] name = "natLt" -> I31(IF a < b THEN 1 ELSE 0)
\* Both operands are unboxed first; one that is neither an i31 nor a nat-big does not cast.
RunRuntime(name, args) ==
  LET kinds == {args[1].kind, args[2].kind}
  IN CASE kinds = {"i31"} -> SmallNat(name, args[1].n, args[2].n)
       [] kinds \subseteq {"i31", "big"} -> SlowNat(name, args[1].n, args[2].n)
       [] OTHER -> Trap

\* A value, and then what is done with it.
With(value, next(_)) == IF value.kind \in {"trap", "left"} THEN value ELSE next(value)
WithAll(values, next(_)) ==
  LET stopped == {i \in DOMAIN values : values[i].kind \in {"trap", "left"}}
  IN IF stopped = {} THEN next(values) ELSE values[CHOOSE i \in stopped : \A j \in stopped : i <= j]
ArmFor(arms, tag, next(_)) ==
  LET at == {i \in DOMAIN arms : arms[i].tag = tag}
  IN IF at = {} THEN Trap ELSE next(arms[CHOOSE i \in at : \A j \in at : i <= j].body)

RECURSIVE RunIn(_, _, _)
RunAll(m, locals, xs) == [i \in DOMAIN xs |-> RunIn(m, locals, xs[i])]
CallFunc(m, key, args) ==
  IF m.funcs[key].body.kind = "runtime" THEN RunRuntime(m.funcs[key].body.name, args)
  ELSE Stay(RunIn(m, args, m.funcs[key].body))
\* The function in a closure is cast to the type of functions of that many arguments.
CallRef(m, count, callee, args) ==
  IF Len(m.funcs[callee.func].params) = count + 1
  THEN CallFunc(m, callee.func, Cons(callee.env, args)) ELSE Trap
TagOf(m, keys, value) ==
  CASE value.kind = "i31" -> value
    [] value.kind = "struct" /\ (\E key \in keys : IsOf(m.l, value, key)) -> value.fields[1]
    [] OTHER -> Trap

RunIn(m, locals, x) ==
  CASE x.kind = "num" -> I31(x.n)
    [] x.kind = "big" -> BigNat(x.n)
    [] x.kind = "local" -> locals[x.index + 1]
    [] x.kind = "let" ->
         With(RunIn(m, locals, x.value), LAMBDA value : RunIn(m, Append(locals, value), x.body))
    [] x.kind = "call" ->
         WithAll(RunAll(m, locals, x.args), LAMBDA args : CallFunc(m, x.func, args))
    [] x.kind = "return_call" ->
         WithAll(RunAll(m, locals, x.args), LAMBDA args : With(CallFunc(m, x.func, args), Left))
    [] x.kind \in {"call_ref", "return_call_ref"} ->
         WithAll(RunAll(m, locals, Cons(x.callee, x.args)), LAMBDA all :
           LET value == CallRef(m, x.count, Head(all), Tail(all))
           IN IF x.kind = "call_ref" THEN value ELSE With(value, Left))
    [] x.kind = "closure" ->
         With(RunIn(m, locals, x.env), LAMBDA env : ClosureRef(x.count, x.func, env))
    [] x.kind = "new" -> WithAll(RunAll(m, locals, x.args), LAMBDA fields : Struct(x.key, fields))
    [] x.kind = "field" -> With(RunIn(m, locals, x.value), LAMBDA value : value.fields[x.index + 1])
    [] x.kind = "cast" ->
         With(RunIn(m, locals, x.value), LAMBDA value : IF IsOf(m.l, value, x.key) THEN value ELSE Trap)
    [] x.kind = "case" ->
         With(RunIn(m, locals, x.scrut), LAMBDA value :
         With(TagOf(m, x.keys, value), LAMBDA tag :
           ArmFor(x.arms, tag.n, LAMBDA inside : RunIn(m, Append(locals, value), inside))))
    [] x.kind = "by_arity" ->
         With(RunIn(m, locals, x.callee), LAMBDA callee :
           ArmFor(x.arms, callee.count, LAMBDA inside : RunIn(m, locals, inside)))
    [] x.kind = "unreachable" -> Trap

RunExport(m, name) == CallFunc(m, <<"fun", <<name>>>>, <<>>)

-----------------------------------------------------------------------------
(* The runs.                                                               *)

VARIABLE source  \* what is built and compiled: "recursion" or "usage"

eraseVars == <<submitted, source, recursionVars, usageVars>>

InitErase ==
  \/ /\ source = "recursion" /\ InitRecursion
     /\ inputs = <<>> /\ openVars = 1 /\ program = Z /\ buildSteps = 0
  \/ /\ source = "usage" /\ InitUsage
     /\ arity = 1 /\ partner = "none" /\ fDomain = "plain" /\ fOpen = 0 /\ fBody = Z /\ bodySteps = 0
Recur == source = "recursion" /\ NextRecursion /\ UNCHANGED <<source, usageVars>>
Use == source = "usage" /\ NextUsage /\ UNCHANGED <<source, recursionVars>>
NextErase == Recur \/ Use
SpecErase == InitErase /\ [][NextErase]_eraseVars

-----------------------------------------------------------------------------

\* The program, and a definition that calls it.
MainAndEntry(args) ==
  LET Upto[i \in 0..Len(args)] ==
        IF i = 0 THEN TGlobal("main") ELSE ApplyAt(inputs[i].q, Upto[i - 1], args[i])
  IN <<Row("main", Def(ProgramTy, Program, TRUE, None)), Row("entry", Def(NatTy, Upto[Len(args)], TRUE, None))>>

\* The library: what of each function's arguments there is at run time.
LibraryArity == [t1 |-> 0, t2 |-> 0, t3 |-> 0, t4 |-> 0, skip |-> 0, take |-> 1, copy |-> 1, join |-> 2]
NodeNames == <<"t1", "t2", "t3", "t4", "skip", "take", "copy", "join">>
NodeTag(i) == i + 1
NodeFields(i) == [j \in 1..LibraryArity[NodeNames[i]] |-> NatRepr]
NodeLegs == [i \in DOMAIN NodeNames |-> MuLegTid("Tree", NodeTag(i), NodeFields(i))]
NodeVars(i) == [j \in 1..Len(NodeFields(i)) |-> KVar(Len(NodeFields(i)) - j)]
LibraryRow(i) ==
  [name |-> NodeNames[i],
   entry |-> Code(<<KRec(NodeLegs),
                    KFun(<<NodeNames[i]>>, NodeFields(i), NatRepr, KTag(MuTid("Tree"), NodeTag(i), NodeVars(i)))>>)]
LibraryCode == [i \in DOMAIN NodeNames |-> LibraryRow(i)]

\* A value of the machine as a result of a run.
RECURSIVE Decoded(_)
Decoded(value) ==
  CASE value.kind = "i31" -> IF value.n - 1 \in DOMAIN NodeNames THEN Tree(NodeNames[value.n - 1], <<>>) ELSE Number(value.n)
    [] value.kind = "struct" /\ value.fields[1].n - 1 \in DOMAIN NodeNames ->
         Tree(NodeNames[value.fields[1].n - 1], [i \in 1..(Len(value.fields) - 1) |-> Decoded(value.fields[i + 1])])
    [] OTHER -> value

\* A result of a run without what it gave for erased arguments.
RECURSIVE WithoutErased(_)
WithoutErased(value) ==
  IF value.kind = "number" THEN value
  ELSE LET kept == SelectSeq(value.args, LAMBDA arg : arg # Erased)
       IN Tree(value.head, [i \in DOMAIN kept |-> WithoutErased(kept[i])])

(* A recursion, and a definition that calls it.                            *)
RecursionAndEntry(args) ==
  [i \in DOMAIN RecursionGroup |->
    Row(RecursionGroup[i].name, ElaboratedRecursion.val.entries[RecursionGroup[i].name])]
  \o <<Row("entry", Def(NTy, CallTerm(args), TRUE, None))>>
RECURSIVE NumeralOf(_)
NumeralOf(value) == IF value = I31(0) THEN 0 ELSE 1 + NumeralOf(value.fields[2])

Emitted(rows) == Then(LinkProgram(rows), LAMBDA l : EmitFuncs(l, "entry"))
Compiled(g, before, rows) == Then(EraseProgram(g, rows), LAMBDA erased : Emitted(before \o erased))
GivesDecoded(compiled, decode(_), wanted) ==
  compiled.ok /\ ValidModule(compiled.val) /\ decode(RunExport(compiled.val, "entry")) = wanted

(* Every accepted program is compiled, to functions that are valid, and    *)
(* the code gives what the program gives: the captures that are dropped,   *)
(* the variables that only the code has, the arguments that are erased,    *)
(* the casts, the calls that leave their function and the closures that    *)
(* are called with too few arguments change nothing.                       *)
CompiledPreserves ==
  /\ [][AcceptedProgram => \A args \in Given :
          GivesDecoded(Compiled(Library, LibraryCode, MainAndEntry(args)), Decoded,
                       WithoutErased(RunOf(args).value))]_<<submitted, usageVars>>
  /\ [][AcceptedRecursion => \A args \in RunArguments :
          LET run == RunCall("f", args, Fuel)
          IN run.ok => GivesDecoded(Compiled(ElaboratedRecursion.val, <<>>, RecursionAndEntry(args)),
                                    NumeralOf, run.val)]_<<submitted, recursionVars>>
=============================================================================
