-------------------------------- MODULE Emit --------------------------------
(***************************************************************************)
(* wasm/emit.c: the functions of the WebAssembly module of a linked        *)
(* program.                                                                *)
(*                                                                         *)
(* The instructions that leave a value on the stack are a tree here, with  *)
(* the instructions that compute its operands below it.  Locals are        *)
(* numbered: the parameters first, then those bound on the way to a place; *)
(* places that no path connects share numbers.  A function that is called  *)
(* through a closure takes the closure's environment first.                *)
(***************************************************************************)
EXTENDS Link

XNum(n) == [kind |-> "num", n |-> n]
XBig(n) == [kind |-> "big", n |-> n]
XLocal(index) == [kind |-> "local", index |-> index]
XLet(value, inside) == [kind |-> "let", value |-> value, body |-> inside]
XCall(func, args) == [kind |-> "call", func |-> func, args |-> args]
XReturnCall(func, args) == [kind |-> "return_call", func |-> func, args |-> args]
XCallRef(count, callee, args) == [kind |-> "call_ref", count |-> count, callee |-> callee, args |-> args]
XReturnCallRef(count, callee, args) ==
  [kind |-> "return_call_ref", count |-> count, callee |-> callee, args |-> args]
XClosure(count, func, env) == [kind |-> "closure", count |-> count, func |-> func, env |-> env]
XNew(key, args) == [kind |-> "new", key |-> key, args |-> args]
XField(key, index, value) == [kind |-> "field", key |-> key, index |-> index, value |-> value]
XCast(key, value) == [kind |-> "cast", key |-> key, value |-> value]
XCase(ty, keys, scrut, arms) == [kind |-> "case", ty |-> ty, keys |-> keys, scrut |-> scrut, arms |-> arms]
XArm(tag, inside) == [tag |-> tag, body |-> inside]
XByArity(callee, arms) == [kind |-> "by_arity", callee |-> callee, arms |-> arms]
XUnreachable(after) == [kind |-> "unreachable", value |-> after]

Erasing == XNum(0)  \* what stands for a value that does not exist at run time

\* The variables of the code: the local each is in and how it is represented.
EmitEnv(bound, next) == [bound |-> bound, next |-> next]
BindLocal(env, repr) == EmitEnv(Cons([index |-> env.next, repr |-> repr], env.bound), env.next + 1)
SkipLocal(env) == [env EXCEPT !.next = @ + 1]
ParamEnv(params) ==
  EmitEnv(Rev([i \in DOMAIN params |-> [index |-> i - 1, repr |-> params[i]]]), Len(params))
ReprsIn(env) == [i \in DOMAIN env.bound |-> env.bound[i].repr]
EmitCtx(l, result) == [l |-> l, result |-> result]
Rep(c, env, node) == Infer(c.l.prog, ReprsIn(env), node)

-----------------------------------------------------------------------------
(* Casts: none, or to a type.                                              *)
CoerceDiff(l, src, dst) ==
  CASE src.kind = "struct" /\ dst.kind = "struct" ->
         Then(FieldsOf(src.tid), LAMBDA from :
         Then(FieldsOf(dst.tid), LAMBDA to :
         Then(Require(Len(from) = Len(to), "mismatch"), LAMBDA same : Done(None))))
    [] dst.kind = "union" -> Done(None)
    [] dst.kind = "thunk" -> Fail("not_yet")
    [] OTHER -> Then(ValType(l, dst), LAMBDA ty : Done(Just(ty)))
Coerce(l, src, dst) == IF src = dst THEN Done(None) ELSE CoerceDiff(l, src, dst)

RECURSIVE Terminal(_)
Terminal(x) == x.kind = "unreachable" \/ (x.kind = "let" /\ Terminal(x.body))
Casted(cast, x) == IF cast = None THEN x ELSE XCast(cast[1], x)
WithCoercion(cast, x) == IF Terminal(x) THEN x ELSE Casted(cast, x)

\* Mistake: whatever is in tail position leaves the function.
TailAlways(c, tail, repr) == tail
\* A call leaves the function only if its result is the function's without a cast.
TailOk(c, tail, repr) == tail /\ Coerce(c.l, repr, c.result) = Done(None)
CallFor(c, tail, repr, func, args) ==
  IF TailOk(c, tail, repr) THEN XReturnCall(func, args) ELSE XCall(func, args)

-----------------------------------------------------------------------------
(* Values that need no instruction of their own operands.                  *)
Literal(l, lit) ==
  CASE lit.kind = "string" -> Fail("not_yet")
    [] lit.kind # "string" /\ lit.value < 2^30 -> Done(XNum(lit.value))
    [] OTHER -> Then(HasType(l, <<"nat-big">>), LAMBDA present : Done(XBig(lit.value)))

ClosureValue(l, name, count) ==
  LET func == <<"wrap", <<name>>, 0>>
  IN Then(HasFunc(l, func), LAMBDA present :
     Then(HasType(l, <<"clos">>), LAMBDA known : Done(XClosure(count, func, Erasing))))

GlobalFun(c, tail, fun, name) ==
  IF fun.params # <<>> THEN ClosureValue(c.l, name, Len(fun.params))
  ELSE Then(HasFunc(c.l, <<"fun", <<name>>>>), LAMBDA present :
         Done(CallFor(c, tail, fun.result, <<"fun", <<name>>>>, <<>>)))
EmitGlobal(c, tail, name) ==
  LET head == HeadOfName(c.l.prog, name)
  IN CASE head.kind = "fun" -> GlobalFun(c, tail, head.fun, name)
       [] head.kind = "prim" -> ClosureValue(c.l, name, 2)
       [] head.kind = "value" -> Fail("unbound")

Variable(env, index) ==
  IF index < Len(env.bound) THEN Done(XLocal(env.bound[index + 1].index)) ELSE Fail("unbound")

-----------------------------------------------------------------------------
RECURSIVE Go(_, _, _, _)
Each(c, env, nodes) == Collect([i \in DOMAIN nodes |-> Go(c, env, FALSE, nodes[i])])
ArgAt(c, env, node, repr) ==
  Then(Go(c, env, FALSE, node), LAMBDA x :
  Then(Rep(c, env, node), LAMBDA from :
  Then(Coerce(c.l, from, repr), LAMBDA cast : Done(Casted(cast, x)))))
\* Each cast to what it is taken as.
EachAt(c, env, nodes, reprs) ==
  Then(Collect([i \in DOMAIN nodes \cap DOMAIN reprs |-> ArgAt(c, env, nodes[i], reprs[i])]), LAMBDA all :
  Then(Require(Len(nodes) = Len(reprs), "mismatch"), LAMBDA same : Done(all)))

-----------------------------------------------------------------------------
(* Applications.                                                           *)

\* A value is called through the helper for that number of arguments.
StepsApply(c, env, tail, head, repr, args) ==
  LET k == Len(args)
  IN Then(Each(c, env, args), LAMBDA values :
     Then(HasFunc(c.l, <<"apply", k>>), LAMBDA present :
     Then(StepsResult(repr, k), LAMBDA want :
     Then(Coerce(c.l, AnyRepr, want), LAMBDA cast :
       Done(Casted(cast, CallFor(c, tail, AnyRepr, <<"apply", k>>, Cons(head, values))))))))
Steps(c, env, tail, head, repr, args) ==
  CASE args = <<>> /\ ~NullaryClosure(repr) -> Done(head)
    [] (args # <<>> \/ NullaryClosure(repr)) /\ repr.kind = "func" ->
         Then(ArityOfFn(repr.tid), LAMBDA m : StepsApply(c, env, tail, head, repr, args))
    [] args # <<>> /\ repr.kind = "union" -> StepsApply(c, env, tail, head, repr, args)
    [] args # <<>> /\ repr.kind = "thunk" -> Fail("not_yet")
    [] OTHER -> Fail("mismatch")

\* A function that is known: as a value for fewer arguments than it has parameters.
Short(c, env, tail, name, count, args) ==
  Then(ClosureValue(c.l, name, count), LAMBDA head : Steps(c, env, tail, head, FnRepr(count), args))
Direct(c, env, tail, fun, name, args) ==
  LET m == Len(fun.params)
      func == <<"fun", <<name>>>>
      rest == SubSeq(args, m + 1, Len(args))
  IN IF Len(args) < m THEN Short(c, env, tail, name, m, args)
     ELSE Then(EachAt(c, env, SubSeq(args, 1, m), fun.params), LAMBDA values :
          Then(HasFunc(c.l, func), LAMBDA present :
            IF rest = <<>> THEN Done(CallFor(c, tail, fun.result, func, values))
            ELSE Steps(c, env, tail, XCall(func, values), fun.result, rest)))
Primitive(c, env, tail, name, args) ==
  IF Len(args) < 2 THEN Short(c, env, tail, name, 2, args)
  ELSE Then(Each(c, env, SubSeq(args, 1, 2)), LAMBDA values :
       Then(HasFunc(c.l, <<"nat-runtime", name>>), LAMBDA present :
         Steps(c, env, tail, XCall(<<"nat-runtime", name>>, values), PrimResult(name),
               SubSeq(args, 3, Len(args)))))

ApplyNode(c, env, tail, head, args) ==
  LET kind == HeadKind(c.l.prog, head)
  IN CASE kind.kind # "value" /\ args = <<>> -> Go(c, env, tail, head)
       [] kind.kind = "fun" /\ args # <<>> -> Direct(c, env, tail, kind.fun, head.name, args)
       [] kind.kind = "prim" /\ args # <<>> -> Primitive(c, env, tail, head.name, args)
       [] kind.kind = "value" ->
            Then(Go(c, env, FALSE, head), LAMBDA x :
            Then(Rep(c, env, head), LAMBDA repr : Steps(c, env, tail, x, repr, args)))

-----------------------------------------------------------------------------
(* Closures, tuples and sums.                                              *)
CaptureEnv(l, reprs, values) ==
  IF reprs = <<>> THEN Done(Erasing)
  ELSE Then(HasType(l, EnvTid(reprs)), LAMBDA present : Done(XNew(EnvTid(reprs), values)))
ClosNode(c, env, node) ==
  LET count == Len(node.args)
      func == <<"wrap", node.fid, count>>
  IN Then(CaptureReprs(c.l.prog, node.fid, count), LAMBDA reprs :
     Then(EachAt(c, env, node.args, reprs), LAMBDA values :
     Then(HasFunc(c.l, func), LAMBDA present :
     Then(HasType(c.l, <<"clos">>), LAMBDA known :
     Then(CaptureEnv(c.l, reprs, values), LAMBDA record : Done(XClosure(node.arity, func, record)))))))
StructNode(c, env, node) ==
  Then(FieldsOf(node.tid), LAMBDA reprs :
  Then(HasType(c.l, node.tid), LAMBDA present :
  Then(EachAt(c, env, node.args, reprs), LAMBDA values : Done(XNew(node.tid, values)))))
ProjNode(c, env, node) ==
  Then(ArgAt(c, env, node.value, RStruct(node.tid)), LAMBDA x :
  Then(HasType(c.l, node.tid), LAMBDA present :
  Then(Rep(c, env, node), LAMBDA repr :
  Then(Coerce(c.l, AnyRepr, repr), LAMBDA cast : Done(Casted(cast, XField(node.tid, node.index, x)))))))
TagNode(c, env, node) ==
  Then(LegAt(c.l.prog, node.tid, node.tag), LAMBDA leg :
    IF leg = None THEN Done(XNum(node.tag))
    ELSE Then(HasType(c.l, leg[1].key), LAMBDA present :
         Then(EachAt(c, env, node.args, leg[1].fields), LAMBDA values :
           Done(XNew(leg[1].key, Cons(XNum(node.tag), values))))))

BranchCode(c, env, tail, repr, node) ==
  Then(Go(c, env, tail, node), LAMBDA x :
  Then(Rep(c, env, node), LAMBDA from :
  Then(Coerce(c.l, from, repr), LAMBDA cast : Done(WithCoercion(cast, x)))))

\* The fields of a leg from the i-th on, each read into a local of its own, then the branch.
RECURSIVE LegReads(_, _, _, _, _, _, _)
LegReads(c, env, tail, repr, leg, i, node) ==
  IF i > Len(leg.fields) THEN BranchCode(c, env, tail, repr, node)
  ELSE LET field == leg.fields[i]
           scrut == XLocal(env.next - i)
       IN Then(ValType(c.l, field), LAMBDA ty :
          Then(Coerce(c.l, AnyRepr, field), LAMBDA cast :
          Then(LegReads(c, BindLocal(env, field), tail, repr, leg, i + 1, node), LAMBDA more :
            Done(XLet(Casted(cast, XField(leg.key, i, XCast(leg.key, scrut))), more)))))
BranchOf(c, env, tail, tid, repr, branch) ==
  Then(BranchBinders(c.l.prog, tid, branch), LAMBDA binders :
    IF binders = <<>> THEN BranchCode(c, env, tail, repr, branch.body)
    ELSE Then(LegAt(c.l.prog, tid, branch.tag), LAMBDA leg :
         Then(Require(leg # None, "mismatch"), LAMBDA carries :
         Then(HasType(c.l, leg[1].key), LAMBDA present :
           LegReads(c, env, tail, repr, leg[1], 1, branch.body)))))

\* The scrutinee is put in a local; its tag is read by whichever type it is of.
CaseTerm(c, env, tail, node, x) ==
  Then(SumLegs(c.l.prog, node.tid), LAMBDA legs :
  LET keys == {legs[i][1].key : i \in {i \in DOMAIN legs : legs[i] # None}}
  IN Then(Require(keys \subseteq c.l.types, "unbound"), LAMBDA present :
     Then(Rep(c, env, node), LAMBDA repr :
     Then(ValType(c.l, repr), LAMBDA ty :
     Then(Collect([i \in DOMAIN node.branches |->
            BranchOf(c, SkipLocal(env), tail, node.tid, repr, node.branches[i])]), LAMBDA bodies :
       Done(XCase(ty, keys, x, [i \in DOMAIN bodies |-> XArm(node.branches[i].tag, bodies[i])])))))))
CaseNode(c, env, tail, node) ==
  Then(Go(c, env, FALSE, node.scrut), LAMBDA x :
    IF node.branches = <<>> THEN Done(XUnreachable(x)) ELSE CaseTerm(c, env, tail, node, x))
LetNode(c, env, tail, node) ==
  Then(Go(c, env, FALSE, node.value), LAMBDA x :
  Then(Rep(c, env, node.value), LAMBDA repr :
  Then(ValType(c.l, repr), LAMBDA ty :
  Then(Go(c, BindLocal(env, repr), tail, node.body), LAMBDA inside : Done(XLet(x, inside))))))

Go(c, env, tail, node) ==
  CASE node.kind = "var" -> Variable(env, node.index)
    [] node.kind = "lit" -> Literal(c.l, node.lit)
    [] node.kind = "global" -> EmitGlobal(c, tail, node.name)
    [] node.kind = "erased" -> Done(Erasing)
    [] node.kind = "let" -> LetNode(c, env, tail, node)
    [] node.kind = "clos" -> ClosNode(c, env, node)
    [] node.kind = "app" -> ApplyNode(c, env, FALSE, node.head, node.args)
    [] node.kind = "tail" -> ApplyNode(c, env, tail, node.head, node.args)
    [] node.kind = "struct" -> StructNode(c, env, node)
    [] node.kind = "proj" -> ProjNode(c, env, node)
    [] node.kind = "tag" -> TagNode(c, env, node)
    [] node.kind = "case" -> CaseNode(c, env, tail, node)
    [] node.kind \in {"delay", "force"} -> Fail("not_yet")

-----------------------------------------------------------------------------
(* Functions.                                                              *)
Func(params, result, inside) == [params |-> params, result |-> result, body |-> inside]
Generic(count, inside) == Func([i \in 1..(count + 1) |-> <<"eq">>], <<"eq">>, inside)
Locals(first, last) == [i \in 1..(last - first + 1) |-> XLocal(first + i - 1)]

ProgFunc(l, fun) ==
  LET c == EmitCtx(l, fun.result)
  IN Then(HasType(l, SigKey(fun)), LAMBDA present :
     Then(Infer(l.prog, Rev(fun.params), fun.body), LAMBDA repr :
     Then(Coerce(l, repr, fun.result), LAMBDA cast :
     Then(Go(c, ParamEnv(fun.params), TRUE, fun.body), LAMBDA x :
     Then(ValTypes(l, fun.params), LAMBDA params :
     Then(ValType(l, fun.result), LAMBDA result : Done(Func(params, result, WithCoercion(cast, x)))))))))

\* From anything to the representation each is taken as.
FromAny(l, reprs, values) ==
  Collect([i \in DOMAIN reprs |->
    Then(Coerce(l, AnyRepr, reprs[i]), LAMBDA cast : Done(Casted(cast, values[i])))])
WrapperEnv(l, reprs) ==
  LET record == XCast(EnvTid(reprs), XLocal(0))
  IN IF reprs = <<>> THEN Done(<<>>)
     ELSE Then(HasType(l, EnvTid(reprs)), LAMBDA present :
            FromAny(l, reprs, [i \in DOMAIN reprs |-> XField(EnvTid(reprs), i - 1, record)]))
WrapperFun(l, fun, captures) ==
  LET own == SubSeq(fun.params, captures + 1, Len(fun.params))
      func == <<"fun", fun.fid>>
  IN Then(HasType(l, <<"fn", Len(own)>>), LAMBDA present :
     Then(HasFunc(l, func), LAMBDA known :
     Then(CaptureReprs(l.prog, fun.fid, captures), LAMBDA reprs :
     Then(WrapperEnv(l, reprs), LAMBDA captured :
     Then(FromAny(l, own, Locals(1, Len(own))), LAMBDA args :
       Done(Generic(Len(own), XReturnCall(func, captured \o args))))))))
WrapperPrim(l, name) ==
  Then(HasType(l, <<"fn", 2>>), LAMBDA present :
  Then(HasFunc(l, <<"nat-runtime", name>>), LAMBDA known :
    Done(Generic(2, XReturnCall(<<"nat-runtime", name>>, Locals(1, 2))))))
Wrapper(l, fid, captures) ==
  LET fun == FunOf(l.prog, fid)
  IN CASE fun # None -> WrapperFun(l, fun[1], captures)
       [] fun = None /\ fid[1] \in Prims -> WrapperPrim(l, fid[1])
       [] OTHER -> Fail("unbound")

\* k arguments for a closure of m parameters: all of them, too many, or too few.
ApplyArm(l, k, m) ==
  LET callee == XCast(<<"clos">>, XLocal(0))
  IN Then(HasType(l, <<"fn", m>>), LAMBDA present :
       CASE m = k -> Done(XReturnCallRef(m, callee, Locals(1, k)))
         [] m < k -> Then(HasFunc(l, <<"apply", k - m>>), LAMBDA known :
              Done(XReturnCall(<<"apply", k - m>>, Cons(XCallRef(m, callee, Locals(1, m)), Locals(m + 1, k)))))
         [] m > k -> Then(HasType(l, <<"pap", m, k>>), LAMBDA known :
              Then(HasFunc(l, <<"papw", m, k>>), LAMBDA wrapped :
                Done(XClosure(m - k, <<"papw", m, k>>, XNew(<<"pap", m, k>>, Locals(0, k)))))))
ApplyFunc(l, k) ==
  LET arities == Sorted(l.arities)
  IN Then(Require({<<"applyfn", k>>, <<"clos">>} \subseteq l.types, "unbound"), LAMBDA present :
     Then(Collect([i \in DOMAIN arities |-> ApplyArm(l, k, arities[i])]), LAMBDA arms :
       Done(Generic(k, XByArity(XCast(<<"clos">>, XLocal(0)),
                                [i \in DOMAIN arms |-> XArm(arities[i], arms[i])])))))

\* The rest of the arguments of a closure of m parameters that has k of them.
PapwFunc(l, m, k) ==
  LET saved == XCast(<<"pap", m, k>>, XLocal(0))
      Saved(i) == XField(<<"pap", m, k>>, i, saved)
  IN Then(Require({<<"fn", m - k>>, <<"clos">>, <<"pap", m, k>>, <<"fn", m>>} \subseteq l.types, "unbound"),
          LAMBDA present :
            Done(Generic(m - k, XReturnCallRef(m, XCast(<<"clos">>, Saved(0)),
                                               [i \in 1..k |-> Saved(i)] \o Locals(1, m - k)))))

EntryFunc(l, name) ==
  Then(HasType(l, <<"entryfn">>), LAMBDA present :
  Then(HasFunc(l, <<"fun", <<name>>>>), LAMBDA known :
    Done(Func(<<>>, <<"i31">>, XCast(<<"i31">>, XCall(<<"fun", <<name>>>>, <<>>))))))

OneFunc(l, name, key) ==
  CASE key[1] = "fun" -> ProgFunc(l, FunOf(l.prog, key[2])[1])
    [] key[1] = "wrap" -> Wrapper(l, key[2], key[3])
    [] key[1] = "apply" -> ApplyFunc(l, key[2])
    [] key[1] = "papw" -> PapwFunc(l, key[2], key[3])
    [] key[1] = "entry" -> EntryFunc(l, name)
    [] key[1] = "nat-runtime" -> Done(Func(<<<<"eq">>, <<"eq">>>>, <<"eq">>, [kind |-> "runtime", name |-> key[2]]))

CheckExport(p, name) ==
  LET fun == FunOf(p, <<name>>)
  IN Then(Require(fun # None, "unbound"), LAMBDA known :
          Require(fun[1].params = <<>> /\ fun[1].result = NatRepr, "mismatch"))
EmitFuncs(l, name) ==
  LET made == [key \in l.funcs |-> OneFunc(l, name, key)]
      failed == {key \in l.funcs : ~made[key].ok}
  IN IF failed # {} THEN made[CHOOSE key \in failed : TRUE]
     ELSE Done([l |-> l, funcs |-> [key \in l.funcs |-> made[key].val]])
EmitProgram(rows, name) ==
  Then(CheckExport(ProgramTable(rows), name), LAMBDA sound :
  Then(LinkProgram(rows), LAMBDA l : EmitFuncs(l, name)))
=============================================================================
