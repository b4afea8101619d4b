-------------------------------- MODULE Link --------------------------------
(***************************************************************************)
(* wasm/link.c: the functions of an erased program, how each piece of its  *)
(* code is represented, and which types and functions of WebAssembly the   *)
(* module must have.                                                       *)
(*                                                                         *)
(* Identifiers, texts in the code, are tuples already (see EraseRepr),     *)
(* and so are the keys of types and functions.  A key says all of a type   *)
(* or function; the index a key gets is left out, only whether it gets one *)
(* matters.  A leg of a sum with nothing to carry is a bare tag and has no *)
(* key.                                                                    *)
(***************************************************************************)
EXTENDS Erase

(* The program: its functions, postulates and the legs of its families.    *)
MuLeg(tid) == [tid |-> tid, family |-> tid[2], tag |-> tid[3], fields |-> SubSeq(tid, 4, Len(tid))]
MuLegsOf(tids) == {MuLeg(tids[i]) : i \in {i \in DOMAIN tids : tids[i][1] = "leg"}}

EntryDecls(entry) == IF entry.kind = "code" THEN entry.decls ELSE <<>>
ProgramTable(rows) ==
  LET decls == Seqs!FlattenSeq([i \in DOMAIN rows |-> EntryDecls(rows[i].entry)])
  IN [funs |-> SelectSeq(decls, LAMBDA decl : decl.kind = "fun"),
      posts |-> {rows[i].name : i \in {i \in DOMAIN rows : rows[i].entry.kind = "postulate"}},
      mus |-> UNION {MuLegsOf(decls[i].tids) : i \in {i \in DOMAIN decls : decls[i].kind = "rec"}}]
FunOf(p, fid) ==
  LET at == {i \in DOMAIN p.funs : p.funs[i].fid = fid}
  IN IF at = {} THEN None ELSE Just(p.funs[CHOOSE i \in at : \A j \in at : i <= j])

\* What an identifier says.
FieldsOf(tid) == IF tid[1] \in {"pair", "tuple"} THEN Done(Tail(tid)) ELSE Fail("mismatch")
ArityOfFn(tid) == IF tid[1] = "fn" THEN Done(tid[2]) ELSE Fail("mismatch")
FnRepr(count) == RFunc(<<"fn", count>>)
NatRepr == RUnion(<<"nat">>)

\* A leg: its type and what it carries.
CarryingLeg(key, fields) == Just([key |-> key, fields |-> fields])
LegOfRepr(repr) == IF repr = UnitLeg THEN None ELSE CarryingLeg(<<"leg", repr>>, <<repr>>)
MuAt(legs, tag) ==
  LET here == {leg \in legs : leg.tag = tag /\ leg.fields # <<>>}
  IN IF here = {} THEN None ELSE LET leg == CHOOSE leg \in here : TRUE IN CarryingLeg(leg.tid, leg.fields)
MuTop(legs) == CHOOSE n \in {leg.tag + 1 : leg \in legs} : \A leg \in legs : leg.tag < n
SumLegs(p, tid) ==
  LET family == {leg \in p.mus : leg.family = tid}
  IN CASE family # {} -> Done([i \in 1..MuTop(family) |-> MuAt(family, i - 1)])
       [] family = {} /\ tid[1] = "sum" -> Done([i \in 1..(Len(tid) - 1) |-> LegOfRepr(tid[i + 1])])
       [] OTHER -> Fail("mismatch")
LegFields(leg) == IF leg = None THEN <<>> ELSE leg[1].fields
LegAt(p, tid, tag) ==
  Then(SumLegs(p, tid), LAMBDA legs :
    IF tag + 1 \in DOMAIN legs THEN Done(legs[tag + 1]) ELSE Fail("wrong_leg"))

-----------------------------------------------------------------------------
(* How code is represented.                                                *)
Prims == {"natAdd", "natSub", "natMul", "natEq", "natLt"}
PrimResult(name) == IF name \in {"natEq", "natLt"} THEN RUnion(<<"sum", UnitLeg, UnitLeg>>) ELSE NatRepr

HeadFun(fun) == [kind |-> "fun", fun |-> fun]
HeadPrim(name) == [kind |-> "prim", name |-> name]
HeadValue == [kind |-> "value"]
HeadOfName(p, name) ==
  LET fun == FunOf(p, <<name>>)
  IN CASE fun # None -> HeadFun(fun[1])
       [] fun = None /\ name \in Prims -> HeadPrim(name)
       [] OTHER -> HeadValue
HeadKind(p, head) == IF head.kind = "global" THEN HeadOfName(p, head.name) ELSE HeadValue

GlobalRepr(p, name) ==
  LET head == HeadOfName(p, name)
  IN CASE head.kind = "fun" ->
            Done(IF head.fun.params = <<>> THEN head.fun.result ELSE FnRepr(Len(head.fun.params)))
       [] head.kind = "prim" -> Done(FnRepr(2))
       [] head.kind = "value" -> Fail("unbound")

\* What a value is after k arguments, and what a function of m parameters gives for k.
NullaryClosure(repr) == repr = FnRepr(0)
AfterArgs(m, k) == IF m > k THEN FnRepr(m - k) ELSE AnyRepr
StepsResult(repr, k) ==
  CASE k = 0 -> Done(IF NullaryClosure(repr) THEN AnyRepr ELSE repr)
    [] k > 0 /\ repr.kind = "func" -> Then(ArityOfFn(repr.tid), LAMBDA m : Done(AfterArgs(m, k)))
    [] k > 0 /\ repr.kind = "union" -> Done(AnyRepr)
    [] k > 0 /\ repr.kind = "thunk" -> Fail("not_yet")
    [] OTHER -> Fail("mismatch")
AfterHead(m, result, k) ==
  CASE k = m -> Done(result)
    [] k > m -> StepsResult(result, k - m)
    [] k < m -> StepsResult(FnRepr(m), k)

\* The variables a branch binds, the last field innermost.
BranchBinders(p, tid, branch) ==
  IF branch.arity = 0 THEN Done(<<>>)
  ELSE Then(LegAt(p, tid, branch.tag), LAMBDA leg :
       Then(Require(Len(LegFields(leg)) = branch.arity, "mismatch"), LAMBDA same : Done(Rev(LegFields(leg)))))

RECURSIVE Infer(_, _, _)
InferApp(p, env, head, count) ==
  LET kind == HeadKind(p, head)
  IN CASE kind.kind = "fun" -> AfterHead(Len(kind.fun.params), kind.fun.result, count)
       [] kind.kind = "prim" -> AfterHead(2, PrimResult(kind.name), count)
       [] kind.kind = "value" -> Then(Infer(p, env, head), LAMBDA repr : StepsResult(repr, count))
\* A case is what its first branch is.
InferCase(p, env, node) ==
  IF node.branches = <<>> THEN Done(AnyRepr)
  ELSE Then(BranchBinders(p, node.tid, node.branches[1]), LAMBDA binders :
         Infer(p, binders \o env, node.branches[1].body))
Infer(p, env, node) ==
  CASE node.kind = "var" -> IF node.index < Len(env) THEN Done(env[node.index + 1]) ELSE Fail("unbound")
    [] node.kind = "lit" -> Done(NatRepr)
    [] node.kind = "global" -> GlobalRepr(p, node.name)
    [] node.kind = "erased" -> Done(AnyRepr)
    [] node.kind = "let" ->
         Then(Infer(p, env, node.value), LAMBDA repr : Infer(p, Cons(repr, env), node.body))
    [] node.kind = "clos" -> Done(FnRepr(node.arity))
    [] node.kind \in {"app", "tail"} -> InferApp(p, env, node.head, Len(node.args))
    [] node.kind = "struct" -> Done(RStruct(node.tid))
    [] node.kind = "tag" -> Done(RUnion(node.tid))
    [] node.kind = "proj" ->
         Then(FieldsOf(node.tid), LAMBDA fields :
           IF node.index < Len(fields) THEN Done(fields[node.index + 1]) ELSE Fail("wrong_leg"))
    [] node.kind = "case" -> InferCase(p, env, node)
    [] node.kind \in {"delay", "force"} -> Fail("not_yet")

CaptureReprs(p, fid, count) ==
  LET fun == FunOf(p, fid)
  IN Then(Require(fun # None, "unbound"), LAMBDA known :
     Then(Require(count <= Len(fun[1].params), "mismatch"), LAMBDA enough :
       Done(SubSeq(fun[1].params, 1, count))))

-----------------------------------------------------------------------------
(* The types and functions that code needs.                                *)
Keys(types, funcs) == [types |-> types, funcs |-> funcs]
NoKeys == Keys({}, {})
TypeKeys(types) == Keys(types, {})
FuncKey(key) == Keys({}, {key})
Merge(a, b) == Keys(a.types \cup b.types, a.funcs \cup b.funcs)
MergeAll(results) ==
  Then(Collect(results), LAMBDA all :
    Done(Keys(UNION {all[i].types : i \in DOMAIN all}, UNION {all[i].funcs : i \in DOMAIN all})))
And(result, keys) == Then(result, LAMBDA more : Done(Merge(keys, more)))

FnTypeKeys(count) == TypeKeys({<<"clos">>, <<"fn", count>>})
NatDataKeys == TypeKeys({<<"nat-limbs">>, <<"nat-big">>})
NatRuntimeKeys == Merge(NatDataKeys, Keys({}, {<<"nat-runtime", name>> : name \in Prims}))
WrapKey(fid, captures) == FuncKey(<<"wrap", fid, captures>>)
EnvTid(reprs) == Cons("tuple", reprs)
ApplyKeys(k) == Keys({<<"clos">>, <<"applyfn", k>>}, {<<"apply", k>>})
NeedApply(repr, k) ==
  CASE k = 0 -> Done(IF NullaryClosure(repr) THEN ApplyKeys(0) ELSE NoKeys)
    [] k > 0 /\ repr.kind = "func" -> Then(ArityOfFn(repr.tid), LAMBDA m : Done(ApplyKeys(k)))
    [] k > 0 /\ repr.kind = "union" -> Done(ApplyKeys(k))
    [] k > 0 /\ repr.kind = "thunk" -> Fail("not_yet")
    [] OTHER -> Fail("mismatch")

RECURSIVE NeedRepr(_, _)
NeedReprs(p, reprs) == MergeAll([i \in DOMAIN reprs |-> NeedRepr(p, reprs[i])])
NeedStruct(p, tid) ==
  Then(FieldsOf(tid), LAMBDA fields : And(NeedReprs(p, fields), TypeKeys({tid})))
NeedRepr(p, repr) ==
  CASE repr.kind = "i31" -> Done(NoKeys)
    [] repr.kind = "union" -> Done(IF repr = NatRepr THEN NatDataKeys ELSE NoKeys)
    [] repr.kind = "struct" -> NeedStruct(p, repr.tid)
    [] repr.kind = "func" -> Then(ArityOfFn(repr.tid), LAMBDA count : Done(FnTypeKeys(count)))
    [] repr.kind = "thunk" -> Fail("not_yet")
NeedSum(p, tid) ==
  Then(SumLegs(p, tid), LAMBDA legs :
    MergeAll([i \in DOMAIN legs |->
      IF legs[i] = None THEN Done(NoKeys)
      ELSE And(NeedReprs(p, legs[i][1].fields), TypeKeys({legs[i][1].key}))]))

\* A function that is a value is called through its wrapper.
NeedWrap(p, name) ==
  LET head == HeadOfName(p, name)
  IN CASE head.kind = "fun" ->
            And(NeedReprs(p, Append(head.fun.params, head.fun.result)),
                Merge(FnTypeKeys(Len(head.fun.params)), WrapKey(<<name>>, 0)))
       [] head.kind = "prim" -> Done(Merge(NatRuntimeKeys, Merge(FnTypeKeys(2), WrapKey(<<name>>, 0))))
       [] head.kind = "value" -> Then(GlobalRepr(p, name), LAMBDA repr : Done(NoKeys))
NeedGlobal(p, name) ==
  LET head == HeadOfName(p, name)
  IN IF head.kind = "fun" /\ head.fun.params = <<>> THEN Done(NoKeys) ELSE NeedWrap(p, name)
NeedSaturated(p, name, m, result, k) ==
  IF k >= m THEN NeedApply(result, k - m)
  ELSE Then(NeedWrap(p, name), LAMBDA wrap : And(NeedApply(FnRepr(m), k), wrap))

RECURSIVE NeedTerm(_, _, _)
NeedTerms(p, env, nodes) == MergeAll([i \in DOMAIN nodes |-> NeedTerm(p, env, nodes[i])])
NeedHead(p, env, head, k) ==
  LET kind == HeadKind(p, head)
  IN CASE kind.kind # "value" /\ k = 0 -> NeedTerm(p, env, head)
       [] kind.kind = "fun" /\ k > 0 ->
            NeedSaturated(p, head.name, Len(kind.fun.params), kind.fun.result, k)
       [] kind.kind = "prim" /\ k > 0 ->
            And(NeedSaturated(p, kind.name, 2, PrimResult(kind.name), k), NatRuntimeKeys)
       [] kind.kind = "value" ->
            Then(NeedTerm(p, env, head), LAMBDA keys :
            Then(Infer(p, env, head), LAMBDA repr : And(NeedApply(repr, k), keys)))
NeedBranches(p, env, tid, branches) ==
  MergeAll([i \in DOMAIN branches |->
    Then(BranchBinders(p, tid, branches[i]), LAMBDA binders :
    Then(NeedTerm(p, binders \o env, branches[i].body), LAMBDA keys : And(NeedReprs(p, binders), keys)))])
NeedCase(p, env, node) ==
  MergeAll(<<NeedTerm(p, env, node.scrut),
             IF node.branches = <<>> THEN Done(NoKeys) ELSE NeedSum(p, node.tid),
             Then(Infer(p, env, node), LAMBDA repr : NeedRepr(p, repr)),
             NeedBranches(p, env, node.tid, node.branches)>>)
NeedClosure(p, env, node) ==
  LET count == Len(node.args)
  IN Then(NeedTerms(p, env, node.args), LAMBDA captured :
     Then(CaptureReprs(p, node.fid, count), LAMBDA reprs :
     Then(NeedReprs(p, reprs), LAMBDA kept :
     Then(IF count = 0 THEN Done(NoKeys) ELSE NeedStruct(p, EnvTid(reprs)), LAMBDA record :
       Done(Merge(Merge(captured, kept),
                  Merge(record, Merge(FnTypeKeys(node.arity), WrapKey(node.fid, count)))))))))
NeedTerm(p, env, node) ==
  CASE node.kind \in {"var", "erased"} -> Done(NoKeys)
    [] node.kind = "lit" -> Done(NatDataKeys)
    [] node.kind = "global" -> NeedGlobal(p, node.name)
    [] node.kind = "let" ->
         Then(Infer(p, env, node.value), LAMBDA repr :
           MergeAll(<<NeedTerm(p, env, node.value), NeedRepr(p, repr),
                      NeedTerm(p, Cons(repr, env), node.body)>>))
    [] node.kind = "clos" -> NeedClosure(p, env, node)
    [] node.kind \in {"app", "tail"} ->
         Then(NeedTerms(p, env, node.args), LAMBDA keys : And(NeedHead(p, env, node.head, Len(node.args)), keys))
    [] node.kind = "struct" -> Then(NeedStruct(p, node.tid), LAMBDA keys : And(NeedTerms(p, env, node.args), keys))
    [] node.kind = "proj" -> Then(NeedStruct(p, node.tid), LAMBDA keys : And(NeedTerm(p, env, node.value), keys))
    [] node.kind = "tag" -> Then(NeedSum(p, node.tid), LAMBDA keys : And(NeedTerms(p, env, node.args), keys))
    [] node.kind = "case" -> NeedCase(p, env, node)
    [] node.kind \in {"delay", "force"} -> Fail("not_yet")

SigKey(fun) == <<"sig", fun.params, fun.result>>
NeedFun(p, fun) ==
  Then(NeedReprs(p, Append(fun.params, fun.result)), LAMBDA keys :
    And(NeedTerm(p, Rev(fun.params), fun.body),
        Merge(keys, Keys({SigKey(fun)}, {<<"fun", fun.fid>>}))))
NeedFuns(p) == MergeAll([i \in DOMAIN p.funs |-> NeedFun(p, p.funs[i])])

-----------------------------------------------------------------------------
(* The layout.  A closure of any arity may be called with any number of    *)
(* arguments a call gives: what is then left, of the closure or of the     *)
(* arguments, is an arity or a number of arguments again.                  *)
ArityDiffs(arities, calls) == {pair[1] - pair[2] : pair \in {q \in arities \X calls : q[1] > q[2]}}
CallDiffs(arities, calls) ==
  {pair[1] - pair[2] : pair \in {q \in calls \X arities : q[1] > q[2] /\ q[2] # 0}}

RECURSIVE CloseArities(_, _, _)
CloseArities(fuel, arities, calls) ==
  LET more == arities \cup ArityDiffs(arities, calls)
      others == calls \cup CallDiffs(arities, calls)
  IN IF fuel = 0 THEN [arities |-> arities, calls |-> calls]
     ELSE CloseArities(IF more = arities /\ others = calls THEN 0 ELSE fuel - 1, more, others)

MaxOf(numbers) == CHOOSE n \in numbers \cup {0} : \A m \in numbers : m <= n
HelperKeys(arities, calls) ==
  LET short == {pair \in arities \X calls : pair[1] > pair[2]}
  IN Keys({<<"applyfn", k>> : k \in calls} \cup {<<"fn", m>> : m \in arities}
            \cup UNION {{<<"pap", pair[1], pair[2]>>, <<"fn", pair[1] - pair[2]>>} : pair \in short},
          {<<"apply", k>> : k \in calls} \cup {<<"papw", pair[1], pair[2]>> : pair \in short})

Linked(p, base) ==
  LET arities == {key[2] : key \in {k \in base.types : k[1] = "fn"}}
      calls == {key[2] : key \in {k \in base.types : k[1] = "applyfn"}}
      closed == CloseArities(1 + MaxOf(arities) + MaxOf(calls), arities, calls)
      keys == Merge(base, HelperKeys(closed.arities, closed.calls))
  IN [prog |-> p, types |-> keys.types, funcs |-> keys.funcs, arities |-> closed.arities]
LinkProgram(rows) ==
  LET p == ProgramTable(rows)
  IN Then(NeedFuns(p), LAMBDA keys : Done(Linked(p, Merge(keys, Keys({<<"entryfn">>}, {<<"entry">>})))))

HasType(l, key) == Require(key \in l.types, "unbound")
HasFunc(l, key) == Require(key \in l.funcs, "unbound")

-----------------------------------------------------------------------------
(* The types of a family that mentions itself are declared in one group    *)
(* with those of the families it is mutual with.                           *)
FamilyEdges(p) ==
  {edge \in {leg.family : leg \in p.mus} \X {leg.family : leg \in p.mus} :
     \E leg \in p.mus : leg.family = edge[1] /\ RUnion(edge[2]) \in Seqs!ToSet(leg.fields)}
RECURSIVE ReachedFrom(_, _)
ReachedFrom(edges, families) ==
  LET more == families \cup {edge[2] : edge \in {e \in edges : e[1] \in families}}
  IN IF more = families THEN families ELSE ReachedFrom(edges, more)
Reach(edges, family) == ReachedFrom(edges, {edge[2] : edge \in {e \in edges : e[1] = family}})
IsMuLeg(key) == key[1] = "leg" /\ Len(key) > 2
GroupOf(l, key) ==
  LET edges == FamilyEdges(l.prog)
  IN IF ~IsMuLeg(key) \/ key[2] \notin Reach(edges, key[2]) THEN {key}
     ELSE {other \in l.types : IsMuLeg(other) /\ (other = key \/ (other[2] \in Reach(edges, key[2])
                                                                   /\ key[2] \in Reach(edges, other[2])))}

\* What a value of a representation is in WebAssembly: of a type, i31 or anything.
ValType(l, repr) ==
  CASE repr.kind = "i31" -> Done(<<"i31">>)
    [] repr.kind = "union" -> Done(<<"eq">>)
    [] repr.kind = "struct" -> Then(HasType(l, repr.tid), LAMBDA present : Done(repr.tid))
    [] repr.kind = "func" -> Then(HasType(l, <<"clos">>), LAMBDA present : Done(<<"clos">>))
    [] repr.kind = "thunk" -> Fail("not_yet")
ValTypes(l, reprs) == Collect([i \in DOMAIN reprs |-> ValType(l, reprs[i])])

\* The shape of a type: what its fields are.
CompType(key) ==
  CASE key[1] \in {"pair", "tuple"} -> [i \in 1..(Len(key) - 1) |-> "eq"]
    [] IsMuLeg(key) -> Cons("i31", [i \in 1..(Len(key) - 3) |-> "eq"])
    [] key[1] = "leg" /\ ~IsMuLeg(key) -> <<"i31", "eq">>
    [] key[1] = "pap" -> [i \in 1..(key[3] + 1) |-> "eq"]
    [] key[1] = "clos" -> <<"i32", "func", "eq">>
    [] key[1] = "nat-big" -> <<"i32", "limbs">>
=============================================================================
