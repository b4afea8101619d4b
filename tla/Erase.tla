------------------------------- MODULE Erase -------------------------------
(***************************************************************************)
(* kernel/erase.c: checked terms to code.  What has no value at run time   *)
(* is dropped; functions are lifted to closed ones that take what they     *)
(* capture; calls in tail position are marked.                             *)
(*                                                                         *)
(* EraseTerm goes by the type a position expects, or infers it.  Chain     *)
(* erases a function together with the functions it returns at once: one   *)
(* code function takes all their arguments.  The accumulator has the       *)
(* number of the next lifted function, those lifted so far, and the        *)
(* identifiers of the layouts of families that the code mentions.          *)
(* Arguments that are erased leave no trace; the head of an application is *)
(* then called with those that are left, or stands for itself.             *)
(***************************************************************************)
EXTENDS EraseRepr, Declare

Acc(next, lifted, groups) == [next |-> next, lifted |-> lifted, groups |-> groups]
NoneLifted == Acc(0, <<>>, <<>>)
Advance(acc) == [acc EXCEPT !.next = @ + 1]
AddLift(acc, decl) == [acc EXCEPT !.lifted = Append(@, decl)]
AddGroups(acc, tids) == [acc EXCEPT !.groups = @ \o tids]

Out(value, acc) == [value |-> value, acc |-> acc]
Outs(values, acc) == [values |-> values, acc |-> acc]
Job(expected, term) == [expected |-> expected, term |-> term]
Jobs(keep, ty, term) == IF keep THEN <<Job(Just(ty), term)>> ELSE <<>>
Signature(params, result) == [params |-> params, result |-> result]
ChainOf(params, result, body, acc) == [params |-> params, result |-> result, body |-> body, acc |-> acc]

RECURSIVE EraseTerm(_, _, _, _, _), Chain(_, _, _, _, _), EraseFold(_, _, _)

PositionTy(ec, expected, t) == IF expected # None THEN Done(expected[1]) ELSE InferTy(ec, t)

\* Several terms, in turn.
EraseFold(jobs, ec, acc) ==
  IF jobs = <<>> THEN Done(Outs(<<>>, acc))
  ELSE Then(EraseTerm(ec, acc, FALSE, Head(jobs).expected, Head(jobs).term), LAMBDA one :
       Then(EraseFold(Tail(jobs), ec, one.acc), LAMBDA more :
         Done(Outs(Cons(one.value, more.values), more.acc))))
EraseAt(ec, acc, ty, term) == EraseTerm(ec, acc, FALSE, Just(ty), term)

VarArm(ec, acc, index) ==
  Then(Require(InSlots(ec.slots, index), "unbound"), LAMBDA present :
    LET found == Lookup(ec.slots, index)
    IN Done(Out(IF found = None THEN KErased ELSE KVar(found[1]), acc)))

AsLam(t) ==
  IF t.kind = "sec" /\ t.shape.kind = "pi" /\ Len(t.legs) = 1 THEN Just(t.legs[1]) ELSE None
FunctionNode(value) == value.kind = "ran" /\ value.shape.kind \in {"pi", "zk"}
FunctionResult(ec, ty) == Then(WhnfOf(ec, ty), LAMBDA value : Done(FunctionNode(value)))

-----------------------------------------------------------------------------
(* Encryption, shared computation and proofs: calls of the host.           *)
HostArg(ec, acc, term) ==
  Then(InferTy(ec, term), LAMBDA ty :
  Then(RuntimeTy(ec, ty), LAMBDA keep :
    IF keep THEN EraseAt(ec, acc, ty, term) ELSE Done(Out(KErased, acc))))
RECURSIVE HostArgs(_, _, _)
HostArgs(ec, acc, terms) ==
  IF terms = <<>> THEN Done(Outs(<<>>, acc))
  ELSE Then(HostArg(ec, acc, Head(terms)), LAMBDA one :
       Then(HostArgs(ec, one.acc, Tail(terms)), LAMBDA more :
         Done(Outs(Cons(one.value, more.values), more.acc))))
HostCall(name, ec, acc, terms) ==
  Then(HostArgs(ec, acc, terms), LAMBDA outs : Done(Out(KApp(KGlobal(name), outs.values), outs.acc)))

PlainLegs(legs) == \A i \in DOMAIN legs : legs[i].binders = <<>>
FhcSec(ec, acc, level, legs) ==
  Then(Require(Len(legs) = 2 /\ PlainLegs(legs), "mismatch"), LAMBDA two :
  Then(InferTy(ec, legs[1].body), LAMBDA ty :
  Then(FunctionResult(ec, ty), LAMBDA evaluates :
    IF evaluates THEN HostCall("fhcEval", ec, acc, <<level, legs[1].body, legs[2].body>>)
    ELSE HostCall("fhcEnc", ec, acc, <<level, legs[2].body>>))))
MpcSec(ec, acc, legs) ==
  Then(Require(PlainLegs(legs) /\ legs # <<>>, "mismatch"), LAMBDA some :
    HostCall(IF Len(legs) <= 2 THEN "mpcInput" ELSE "mpcShare", ec, acc, LegChildren(legs)))
ZkIn(ec, acc, addr, args) ==
  Then(PointArg(addr), LAMBDA point :
    CASE Len(args) = 1 -> HostCall("zkProve", ec, acc, <<point>>)
      [] Len(args) = 2 -> HostCall("zkProve", ec, acc, <<args[2], point>>)
      [] OTHER -> Fail("mismatch"))

-----------------------------------------------------------------------------
(* Tuples, pairs and injections.                                           *)
TupleFinish(ec, ty, outs) ==
  IF outs.values = <<>> THEN Done(Out(KErased, outs.acc))
  ELSE Then(TidOf(ec, ty), LAMBDA tid : Done(Out(KStruct(tid, outs.values), outs.acc)))

TupleArm(ec, acc, ty, count, legs) ==
  Then(FormerView(ec.check, "ran", ty), LAMBDA former :
  Then(LegTypes(ec, count, former.clo), LAMBDA types :
  Then(Flags(ec, types), LAMBDA flags :
    LET common == SelectSeq([i \in DOMAIN legs |-> i], LAMBDA i : i \in DOMAIN types)
        jobs == Seqs!FlattenSeq([i \in DOMAIN common |-> Jobs(flags[i], types[i], legs[i].body)])
    IN Then(EraseFold(jobs, ec, acc), LAMBDA outs : TupleFinish(ec, ty, outs)))))

PairIntro(ec, acc, former, addr, args) ==
  LET q == former.shape.q
      dom == former.shape.args[1]
  IN Then(IF addr.kind = "pt" THEN Done(addr.arg) ELSE Fail("mismatch"), LAMBDA first :
     Then(OneOf(args, "mismatch"), LAMBDA second :
     Then(PointRuntime(ec, q, dom), LAMBDA keepFirst :
     Then(UnderPoint(ec, q, dom, former.clo), LAMBDA under :
     Then(RuntimeTy(under.ec, under.cod), LAMBDA keepSecond :
     Then(EvalIn(ec, first), LAMBDA point :
     Then(OpenIn(ec, former.clo, <<point>>), LAMBDA cod :
     Then(EraseFold(Jobs(keepFirst, dom, first) \o Jobs(keepSecond, cod, second), ec, acc), LAMBDA outs :
       TupleFinish(ec, former, outs)))))))))

LegAddress(addr) == IF addr.kind = "leg" THEN Done(addr.index) ELSE Fail("mismatch")
TagIntro(ec, acc, former, addr, args) ==
  Then(LegAddress(addr), LAMBDA index :
  Then(LegTypes(ec, former.shape.count, former.clo), LAMBDA types :
  Then(Require(index \in 0..(Len(types) - 1), "mismatch"), LAMBDA inside :
  Then(RuntimeTy(ec, types[index + 1]), LAMBDA keep :
  Then(OneOf(args, "mismatch"), LAMBDA payload :
  Then(EraseFold(Jobs(keep, types[index + 1], payload), ec, acc), LAMBDA outs :
  Then(TidOf(ec, former), LAMBDA tid : Done(Out(KTag(tid, index, outs.values), outs.acc)))))))))

InTyped(ec, acc, ty, addr, args) ==
  Then(WhnfOf(ec, ty), LAMBDA value :
    CASE value.kind = "lan" /\ value.shape.kind \in {"pi", "zk"} -> PairIntro(ec, acc, value, addr, args)
      [] value.kind = "lan" /\ value.shape.kind = "coll" -> TagIntro(ec, acc, value, addr, args)
      [] OTHER -> Fail("mismatch"))

-----------------------------------------------------------------------------
(* Constructors of families.                                               *)
Position(names, name) ==
  LET at == {i \in DOMAIN names : names[i] = name}
  IN IF at = {} THEN Fail("unbound") ELSE Done((CHOOSE i \in at : \A j \in at : i <= j) - 1)
Constructor(name, family) ==
  LET ctor == CtorOf(name, family) IN IF ctor = None THEN Fail("unbound") ELSE Done(ctor[1])

RECURSIVE MuFields(_, _, _, _, _, _)
MuFields(ec, acc, env, tele, args, layout) ==
  CASE tele = <<>> /\ args = <<>> /\ layout = <<>> -> Done(Outs(<<>>, acc))
    [] tele # <<>> /\ args # <<>> /\ layout # <<>> ->
         Then(EvalEnv(ec, env, Head(tele).ty), LAMBDA ty :
         Then(EraseFold(Jobs(Head(layout) # None, ty, Head(args)), ec, acc), LAMBDA here :
         Then(EvalIn(ec, Head(args)), LAMBDA value :
         Then(MuFields(ec, here.acc, Cons(value, env), Tail(tele), Tail(args), Tail(layout)), LAMBDA more :
           Done(Outs(here.values \o more.values, more.acc))))))
    [] OTHER -> Fail("mismatch")

MuTag(ec, acc, former, addr, args) ==
  LET name == former.shape.name
  IN Then(IF addr.kind = "ctor" THEN Done(addr.name) ELSE Fail("mismatch"), LAMBDA ctorName :
     Then(MuFamily(ec.check, name), LAMBDA family :
     Then(MuCtorNames(family), LAMBDA names :
     Then(Position(names, ctorName), LAMBDA index :
     Then(Constructor(ctorName, family), LAMBDA ctor :
     Then(MuParamEnv(ec.check, former.clo), LAMBDA penv :
     Then(MuLayout(ec, family, ctor), LAMBDA layout :
     Then(MuFields(ec, acc, penv, ctor.args, args, layout), LAMBDA outs :
     Then(MuGroupTids(ec, name, family), LAMBDA tids :
       Done(Out(KTag(MuTid(name), index, outs.values), AddGroups(outs.acc, tids))))))))))))

MuIntro(ec, acc, ty, addr, args) ==
  Then(WhnfOf(ec, ty), LAMBDA value :
    IF value.kind = "lan" /\ value.shape.kind = "mu" THEN MuTag(ec, acc, value, addr, args)
    ELSE Fail("mismatch"))

-----------------------------------------------------------------------------
(* Functions.  A chain of them becomes one function of the code.           *)

\* A section is lifted: it takes what it captures, and of that only what its body still uses.
LiftArm(ec, acc, ty, t) ==
  LET captures == CapturesOf(ec.slots, t)
      outer == Rev(Sorted(captures))
      fid == <<ec.self, acc.next>>
  IN Then(Collect([i \in DOMAIN outer |->
            Then(InferTy(ec, TVar(outer[i])), LAMBDA capturedTy : ReprOf(ec, capturedTy))]), LAMBDA reprs :
     Then(Collect([i \in DOMAIN outer |-> VarArm(ec, acc, outer[i])]), LAMBDA args :
     Then(Chain(ReplaceSlots(ec, Frame(ec.slots, captures)), Advance(acc), <<>>, ty, t), LAMBDA chain :
       LET count == Len(chain.params)
           pruned == PruneCaptures(reprs, [i \in DOMAIN args |-> args[i].value], count, chain.body)
       IN Done(Out(KClos(fid, count, pruned.captures),
                   AddLift(chain.acc, KFun(fid, pruned.reprs \o chain.params, chain.result, pruned.body)))))))

AddParam(ec, keep, ty, params) ==
  IF keep THEN Then(ReprOf(ec, ty), LAMBDA repr : Done(Append(params, repr))) ELSE Done(params)

ChainStop(ec, acc, params, ty, t) ==
  Then(ReprOf(ec, ty), LAMBDA result :
  Then(EraseTerm(ec, acc, TRUE, Just(ty), t), LAMBDA out :
    Done(ChainOf(params, result, out.value, out.acc))))

ChainPoint(ec, acc, params, former, leg) ==
  LET q == former.shape.q
      dom == former.shape.args[1]
  IN Then(PointRuntime(ec, q, dom), LAMBDA keep :
     Then(AddParam(ec, keep, dom, params), LAMBDA longer :
     Then(OpenIn(ec, former.clo, <<NextVar(ec)>>), LAMBDA cod :
       Chain(BindSlot(ec, q, dom, KeepSlot(keep)), acc, longer, cod, leg.body))))

\* What a function that is not written as one takes and gives.
RECURSIVE RemainingSignature(_, _, _)
RemainingSignature(ec, shape, clo) ==
  IF PointDom(shape) = None
  THEN Then(RanRepr(ec, shape, clo), LAMBDA repr : Done(Signature(<<>>, repr)))
  ELSE LET dom == PointDom(shape)[1]
       IN Then(PointRuntime(ec, shape.q, dom), LAMBDA keep :
          Then(AddParam(ec, keep, dom, <<>>), LAMBDA here :
          Then(UnderPoint(ec, shape.q, dom, clo), LAMBDA under :
          Then(WhnfOf(under.ec, under.cod), LAMBDA cod :
            IF cod.kind = "ran"
            THEN Then(RemainingSignature(under.ec, cod.shape, cod.clo), LAMBDA rest :
                   Done(Signature(here \o rest.params, rest.result)))
            ELSE Then(ReprOf(under.ec, under.cod), LAMBDA result : Done(Signature(here, result)))))))

EtaArgs(n) == [i \in 1..n |-> KVar(n - i)]
EtaChain(ec, acc, params, ty, former, t) ==
  Then(EraseAt(ec, acc, ty, t), LAMBDA head :
  Then(RemainingSignature(ec, former.shape, former.clo), LAMBDA sig :
    LET n == Len(sig.params)
    IN Done(ChainOf(params \o sig.params, sig.result, KTail(Shifted(n, head.value), EtaArgs(n)), head.acc))))

Chain(ec, acc, params, ty, t) ==
  Then(WhnfOf(ec, ty), LAMBDA former :
    CASE FunctionNode(former) /\ AsLam(t) # None -> ChainPoint(ec, acc, params, former, AsLam(t)[1])
      [] FunctionNode(former) /\ AsLam(t) = None -> EtaChain(ec, acc, params, ty, former, t)
      [] ~FunctionNode(former) -> ChainStop(ec, acc, params, ty, t))

-----------------------------------------------------------------------------
(* Applications: the head and all the arguments it is applied to.          *)
RECURSIVE AppSpine(_, _), AppJobs(_, _, _)
AppSpine(t, args) ==
  IF t.kind = "out" /\ t.addr.kind = "pt" /\ t.shape.kind \in {"pi", "arg"}
  THEN AppSpine(t.head, Cons(t.addr.arg, args)) ELSE [head |-> t, args |-> args]

AppJobs(args, ec, ty) ==
  IF args = <<>> THEN Done(<<>>)
  ELSE Then(WhnfOf(ec, ty), LAMBDA former :
       Then(Require(FunctionNode(former), "mismatch"), LAMBDA isFunction :
       Then(PointRuntime(ec, former.shape.q, former.shape.args[1]), LAMBDA keep :
       Then(EvalIn(ec, Head(args)), LAMBDA value :
       Then(OpenIn(ec, former.clo, <<value>>), LAMBDA cod :
       Then(AppJobs(Tail(args), ec, cod), LAMBDA more :
         Done(Jobs(keep, former.shape.args[1], Head(args)) \o more)))))))

AppBare(values, ec, ty) == IF values = <<>> THEN FunctionResult(ec, ty) ELSE Done(FALSE)
AppResult(bare, tail, head, values) ==
  CASE bare -> head
    [] ~bare /\ tail -> KTail(head, values)
    [] ~bare /\ ~tail -> KApp(head, values)

AppArm(ec, acc, tail, ty, t) ==
  LET spine == AppSpine(t, <<>>)
  IN Then(Require(spine.args # <<>>, "mismatch"), LAMBDA some :
     Then(InferTy(ec, spine.head), LAMBDA headTy :
     Then(AppJobs(spine.args, ec, headTy), LAMBDA jobs :
     Then(EraseAt(ec, acc, headTy, spine.head), LAMBDA head :
     Then(EraseFold(jobs, ec, head.acc), LAMBDA outs :
     Then(AppBare(outs.values, ec, ty), LAMBDA bare :
       Done(Out(AppResult(bare, tail, head.value, outs.values), outs.acc))))))))

-----------------------------------------------------------------------------
(* Projections and local definitions.                                      *)
FlagsBefore(flags, count) == Cardinality({i \in DOMAIN flags : flags[i] /\ i - 1 < count})
ProjArm(ec, acc, count, addr, head) ==
  Then(LegAddress(addr), LAMBDA index :
  Then(InferTy(ec, head), LAMBDA scrutTy :
  Then(FormerView(ec.check, "ran", scrutTy), LAMBDA former :
  Then(LegFlags(ec, count, former.clo), LAMBDA flags :
  Then(EraseAt(ec, acc, scrutTy, head), LAMBDA out :
  Then(TidOf(ec, scrutTy), LAMBDA tid :
    Done(Out(KProj(tid, FlagsBefore(flags, index), out.value), out.acc))))))))

LetArm(ec, acc, tail, ty, t) ==
  Then(EvalIn(ec, t.ty), LAMBDA valueTy :
  Then(RuntimeTy(ec, valueTy), LAMBDA keep :
  Then(EvalIn(ec, t.value), LAMBDA value :
    LET next == DefineSlot(ec, Many, valueTy, value, KeepSlot(keep))
    IN IF ~keep THEN EraseTerm(next, acc, tail, Just(ty), t.body)
       ELSE Then(EraseAt(ec, acc, valueTy, t.value), LAMBDA out :
            Then(EraseTerm(next, out.acc, tail, Just(ty), t.body), LAMBDA inside :
              Done(Out(KLet(out.value, inside.value), inside.acc)))))))

-----------------------------------------------------------------------------
(* Taking apart a pair: code binds the pair, then what is kept of it.      *)
ProjectLet(keep, tid, index, inside) ==
  IF keep THEN KLet(KProj(tid, index, KVar(index)), inside) ELSE inside

PairElim(ec, acc, tail, ty, scrutTy, former, t) ==
  LET q == former.shape.q
      dom == former.shape.args[1]
  IN Then(OneOf(t.branches, "mismatch"), LAMBDA branch :
     Then(Require(Len(branch.leg.binders) = 2, "mismatch"), LAMBDA two :
     Then(PointRuntime(ec, q, dom), LAMBDA keepFirst :
     Then(OpenIn(ec, former.clo, <<NextVar(ec)>>), LAMBDA cod :
     LET ec1 == BindSlot(Extra(ec), q, dom, KeepSlot(keepFirst))
     IN Then(RuntimeTy(ec1, cod), LAMBDA keepSecond :
        Then(EraseAt(ec, acc, scrutTy, t.scrut), LAMBDA scrut :
        Then(EvalShape(ec.check.g, ec.check.env, t.shape), LAMBDA shape :
        Then(ElimResult(ec.check, t.motive, Just(ty), VIn(shape, APt(q, NextVar(ec)), <<NextVar(ec1)>>)),
          LAMBDA target :
        LET ec2 == BindSlot(ec1, Many, cod, KeepSlot(keepSecond))
        IN Then(EraseTerm(ec2, scrut.acc, tail, Just(target), branch.leg.body), LAMBDA inside :
           Then(TidOf(ec, scrutTy), LAMBDA tid :
             LET second == ProjectLet(keepSecond, tid, IF keepFirst THEN 1 ELSE 0, inside.value)
             IN Done(Out(KLet(scrut.value, ProjectLet(keepFirst, tid, 0, second)), inside.acc))))))))))))

-----------------------------------------------------------------------------
(* Taking apart a sum.                                                     *)
FindLeg(branches, addr) ==
  LET at == {i \in DOMAIN branches : branches[i].addr = addr}
  IN IF at = {} THEN None ELSE Just(branches[CHOOSE i \in at : \A j \in at : i <= j].leg)

CaseLeg(leg, ec, acc, tail, ty, motive, count, index, legTy) ==
  Then(OneOf(leg.binders, "mismatch"), LAMBDA q :
  Then(PointRuntime(ec, q, legTy), LAMBDA keep :
  Then(ElimResult(ec.check, motive, Just(ty), VIn(SColl(count), ALeg(index), <<NextVar(ec)>>)), LAMBDA target :
  Then(EraseTerm(BindSlot(ec, q, legTy, KeepSlot(keep)), acc, tail, Just(target), leg.body), LAMBDA out :
    Done(Out(KBranch(index, IF keep THEN 1 ELSE 0, out.value), out.acc))))))

RECURSIVE CaseBranches(_, _, _, _, _, _, _, _)
CaseBranches(types, ec, acc, tail, ty, t, count, index) ==
  IF types = <<>> THEN Done(Outs(<<>>, acc))
  ELSE LET leg == FindLeg(t.branches, ALeg(index))
       IN Then(Require(leg # None, "mismatch"), LAMBDA found :
          Then(CaseLeg(leg[1], ec, acc, tail, ty, t.motive, count, index, Head(types)), LAMBDA one :
          Then(CaseBranches(Tail(types), ec, one.acc, tail, ty, t, count, index + 1), LAMBDA more :
            Done(Outs(Cons(one.value, more.values), more.acc)))))

CaseElim(ec, acc, tail, ty, scrutTy, former, t) ==
  Then(EraseAt(ec, acc, scrutTy, t.scrut), LAMBDA scrut :
  Then(LegTypes(ec, former.shape.count, former.clo), LAMBDA types :
  Then(CaseBranches(types, ec, scrut.acc, tail, ty, t, former.shape.count, 0), LAMBDA branches :
  Then(TidOf(ec, scrutTy), LAMBDA tid :
    Done(Out(KCase(tid, scrut.value, branches.values), branches.acc))))))

ElimTyped(ec, acc, tail, ty, t) ==
  Then(InferTy(ec, t.scrut), LAMBDA scrutTy :
  Then(WhnfOf(ec, scrutTy), LAMBDA value :
    CASE value.kind = "lan" /\ value.shape.kind \in {"pi", "zk"} ->
           PairElim(ec, acc, tail, ty, scrutTy, value, t)
      [] value.kind = "lan" /\ value.shape.kind = "coll" -> CaseElim(ec, acc, tail, ty, scrutTy, value, t)
      [] OTHER -> Fail("mismatch")))

-----------------------------------------------------------------------------
(* Taking apart a member of a family.                                      *)
Fields(ec, env, values, count) == [ec |-> ec, env |-> env, values |-> values, count |-> count]
RECURSIVE MuBinders(_, _, _, _)
MuBinders(tele, binders, layout, fields) ==
  CASE tele = <<>> /\ binders = <<>> /\ layout = <<>> -> Done(fields)
    [] tele # <<>> /\ binders # <<>> /\ layout # <<>> ->
         LET fresh == NextVar(fields.ec)
             keep == Head(layout) # None
         IN Then(EvalEnv(fields.ec, fields.env, Head(tele).ty), LAMBDA ty :
              MuBinders(Tail(tele), Tail(binders), Tail(layout),
                Fields(BindSlot(fields.ec, Head(tele).q, ty, KeepSlot(keep)), Cons(fresh, fields.env),
                       Append(fields.values, fresh), fields.count + (IF keep THEN 1 ELSE 0))))
    [] OTHER -> Fail("missing_branch")

MuBranchOf(ec, acc, tail, t, mu, ctorName, index) ==
  LET leg == FindLeg(t.branches, ACtor(ctorName))
  IN Then(Constructor(ctorName, mu.family), LAMBDA ctor :
     Then(Require(leg # None, "missing_branch"), LAMBDA found :
     Then(MuLayout(ec, mu.family, ctor), LAMBDA layout :
     Then(MuBinders(ctor.args, leg[1].binders, layout, Fields(ec, mu.penv, <<>>, 0)), LAMBDA fields :
     Then(Collect([i \in DOMAIN ctor.res_idx |-> EvalEnv(ec, fields.env, ctor.res_idx[i])]), LAMBDA indices :
     Then(MuResult(ec.check, mu.motive, indices, VIn(SMu(mu.name, indices), ACtor(ctorName), fields.values)),
       LAMBDA target :
     Then(EraseTerm(fields.ec, acc, tail, Just(target), leg[1].body), LAMBDA out :
       Done(Out(KBranch(index, fields.count, out.value), out.acc)))))))))

RECURSIVE MuBranches(_, _, _, _, _, _, _)
MuBranches(names, ec, acc, tail, t, mu, index) ==
  IF names = <<>> THEN Done(Outs(<<>>, acc))
  ELSE Then(MuBranchOf(ec, acc, tail, t, mu, Head(names), index), LAMBDA one :
       Then(MuBranches(Tail(names), ec, one.acc, tail, t, mu, index + 1), LAMBDA more :
         Done(Outs(Cons(one.value, more.values), more.acc))))

MuCase(ec, acc, tail, scrutTy, former, t) ==
  LET name == former.shape.name
  IN Then(MuFamily(ec.check, name), LAMBDA family :
     Then(MuMotiveOf(name, family, former.shape.args, t.motive), LAMBDA motive :
     Then(MuCtorNames(family), LAMBDA names :
     Then(MuParamEnv(ec.check, former.clo), LAMBDA penv :
     Then(EraseAt(ec, acc, scrutTy, t.scrut), LAMBDA scrut :
       LET mu == [name |-> name, family |-> family, motive |-> motive, penv |-> penv]
       IN Then(MuBranches(names, ec, scrut.acc, tail, t, mu, 0), LAMBDA branches :
          Then(MuGroupTids(ec, name, family), LAMBDA tids :
            Done(Out(KCase(MuTid(name), scrut.value, branches.values), AddGroups(branches.acc, tids))))))))))

MuElim(ec, acc, tail, t) ==
  Then(InferTy(ec, t.scrut), LAMBDA scrutTy :
  Then(WhnfOf(ec, scrutTy), LAMBDA value :
    IF value.kind = "lan" /\ value.shape.kind = "mu" THEN MuCase(ec, acc, tail, scrutTy, value, t)
    ELSE Fail("mismatch")))

-----------------------------------------------------------------------------
(* Terms.                                                                  *)
SecArm(ec, acc, ty, t) ==
  CASE t.shape.kind = "pi" -> LiftArm(ec, acc, ty, t)
    [] t.shape.kind = "arg" -> Fail("mismatch")
    [] t.shape.kind = "coll" -> TupleArm(ec, acc, ty, t.shape.count, t.legs)
    [] t.shape.kind = "fhc" -> FhcSec(ec, acc, t.shape.args[1], t.legs)
    [] t.shape.kind = "mpc" -> MpcSec(ec, acc, t.legs)
    [] OTHER -> Fail("not_yet")

InArm(ec, acc, ty, t) ==
  CASE t.shape.kind \in {"pi", "coll"} -> InTyped(ec, acc, ty, t.addr, t.args)
    [] t.shape.kind = "arg" -> Fail("mismatch")
    [] t.shape.kind = "mu" -> MuIntro(ec, acc, ty, t.addr, t.args)
    [] t.shape.kind = "zk" -> ZkIn(ec, acc, t.addr, t.args)
    [] OTHER -> Fail("not_yet")

OutArm(ec, acc, tail, ty, t) ==
  CASE t.shape.kind \in {"pi", "arg"} -> AppArm(ec, acc, tail, ty, t)
    [] t.shape.kind = "coll" -> ProjArm(ec, acc, t.shape.count, t.addr, t.head)
    [] t.shape.kind = "fhc" -> HostCall("fhcDec", ec, acc, <<t.head>>)
    [] t.shape.kind = "mpc" -> HostCall("mpcOpen", ec, acc, <<t.head>>)
    [] OTHER -> Fail("not_yet")

ElimArm(ec, acc, tail, ty, t) ==
  CASE t.shape.kind \in {"pi", "coll", "zk"} -> ElimTyped(ec, acc, tail, ty, t)
    [] t.shape.kind = "arg" -> Fail("mismatch")
    [] t.shape.kind = "mu" -> MuElim(ec, acc, tail, t)
    [] OTHER -> Fail("not_yet")

EraseNode(ec, acc, tail, ty, t) ==
  CASE t.kind = "var" -> VarArm(ec, acc, t.index)
    [] t.kind \in {"univ", "lan", "ran"} -> Done(Out(KErased, acc))
    [] t.kind = "sec" -> SecArm(ec, acc, ty, t)
    [] t.kind = "in" -> InArm(ec, acc, ty, t)
    [] t.kind = "out" -> OutArm(ec, acc, tail, ty, t)
    [] t.kind = "elim" -> ElimArm(ec, acc, tail, ty, t)
    [] t.kind = "let" -> LetArm(ec, acc, tail, ty, t)
    [] t.kind = "ann" -> EraseTerm(ec, acc, tail, Just(ty), t.body)
    [] t.kind = "global" -> Done(Out(KGlobal(t.name), acc))
    [] t.kind = "lit" -> Done(Out(KLit(t.lit), acc))
    [] t.kind = "auto" -> Fail("not_yet")

EraseTerm(ec, acc, tail, expected, t) ==
  Then(PositionTy(ec, expected, t), LAMBDA ty :
  Then(RuntimeTy(ec, ty), LAMBDA keep :
    IF keep THEN EraseNode(ec, acc, tail, ty, t) ELSE Done(Out(KErased, acc))))

-----------------------------------------------------------------------------
(* The identifiers the code of a definition mentions, in order.            *)
ReprTids(repr) == IF repr = RI31 THEN <<>> ELSE <<repr.tid>>
AllTids(reprs) == Seqs!FlattenSeq([i \in DOMAIN reprs |-> ReprTids(reprs[i])])
NodeTid(node) == IF node.kind \in {"struct", "proj", "tag", "case"} THEN <<node.tid>> ELSE <<>>
OrderedChildren(node) ==
  CASE node.kind = "let" -> <<node.value, node.body>>
    [] node.kind \in {"clos", "delay", "struct", "tag"} -> node.args
    [] node.kind \in {"app", "tail"} -> Cons(node.head, node.args)
    [] node.kind \in {"proj", "force"} -> <<node.value>>
    [] node.kind = "case" -> Cons(node.scrut, [i \in DOMAIN node.branches |-> node.branches[i].body])
    [] OTHER -> <<>>
RECURSIVE CodeTids(_)
CodeTids(node) ==
  LET children == OrderedChildren(node)
  IN NodeTid(node) \o Seqs!FlattenSeq([i \in DOMAIN children |-> CodeTids(children[i])])
DeclTids(decl) ==
  IF decl.kind = "rec" THEN decl.tids
  ELSE AllTids(decl.params) \o ReprTids(decl.result) \o CodeTids(decl.body)
DeclsTids(decls) == Seqs!FlattenSeq([i \in DOMAIN decls |-> DeclTids(decls[i])])
Dedup(tids) ==
  LET first == {i \in DOMAIN tids : \A j \in 1..(i - 1) : tids[j] # tids[i]}
      at == Sorted(first)
  IN [i \in DOMAIN at |-> tids[at[i]]]

-----------------------------------------------------------------------------
(* Entries and programs.                                                   *)
Dropped == [kind |-> "dropped"]
Postulated(repr) == [kind |-> "postulate", repr |-> repr]
Code(decls) == [kind |-> "code", decls |-> decls]

DefFinish(chain, name) ==
  LET decls == Append(chain.acc.lifted, KFun(<<name>>, chain.params, chain.result, chain.body))
  IN Code(Cons(KRec(Dedup(DeclsTids(decls) \o chain.acc.groups)), decls))
DefCode(ec, name, ty, body) ==
  Then(Chain(ec, NoneLifted, <<>>, ty, body), LAMBDA chain : Done(DefFinish(chain, name)))

EraseEntry(g, name, entry) ==
  LET ec == EraseCtx(MakeCtx(g, 0), <<>>, name)
  IN IF entry.kind = "prim" THEN Done(Dropped)
     ELSE Then(EvalIn(ec, entry.ty), LAMBDA ty :
          Then(RuntimeTy(ec, ty), LAMBDA keep :
            CASE ~keep -> Done(Dropped)
              [] keep /\ entry.kind = "axiom" -> Then(ReprOf(ec, ty), LAMBDA repr : Done(Postulated(repr)))
              [] keep /\ entry.kind = "def" -> DefCode(ec, name, ty, entry.body)))

\* Each in the globals before it.
RECURSIVE EraseProgram(_, _)
EraseProgram(g, rows) ==
  IF rows = <<>> THEN Done(<<>>)
  ELSE LET row == Head(rows)
       IN Then(EraseEntry(g, row.name, row.entry), LAMBDA erased :
          Then(EraseProgram(AddEntry(row.name, row.entry, g), Tail(rows)), LAMBDA more :
            Done(Cons([name |-> row.name, entry |-> erased], more))))
=============================================================================
