---------------------------- MODULE CheckEngine ----------------------------
(***************************************************************************)
(* kernel/check_engine.c: the bidirectional type checker.  Infer finds the *)
(* type of a term and how it uses its variables, Check compares a term     *)
(* with a type and finds the uses, at a mode: 0 for what is erased, 1 for  *)
(* what runs.  Introductions are checked against an expected type,         *)
(* projections and eliminations infer one.  Types are compared by Conv at  *)
(* a type, and by ConvType without one.                                    *)
(*                                                                         *)
(* The polls of the budget are left out (module Budget is about them), and *)
(* so is the scratch arena a comparison runs in: both runs use the same    *)
(* rules.  A rule is written in the order of its steps, for the first that *)
(* fails decides the error.                                                *)
(***************************************************************************)
EXTENDS Eval, Circuit

Inferred(ty, uses) == [ty |-> ty, uses |-> uses]

RECURSIVE InferUses(_, _, _), CheckUses(_, _, _, _), ConvType(_, _, _), Conv(_, _, _, _),
          Form(_, _, _, _, _)

Eval(ctx, term) == Evaluate(ctx.g, ctx.env, term)
WhnfIn(ctx, value) == Whnf(ctx.g, value)
Open(ctx, clo, args) == OpenClosure(ctx.g, clo, args)

\* The level of a term that is used as a type.
UniverseValue(value) == IF value.kind = "univ" THEN Done(value.level) ELSE Fail("universe")
InferUniv(ctx, term) ==
  Then(InferUses(ctx, Zero, term), LAMBDA got :
  Then(WhnfIn(ctx, got.ty), LAMBDA ty : UniverseValue(ty)))
\* A type, as a value.
TypeIn(ctx, term) == Then(InferUniv(ctx, term), LAMBDA level : Eval(ctx, term))

\* The levels of a term are looked at once, when the checker enters it.
Scope(ctx, term) ==
  Then(Require(ctx.checked \/ LevelsInScope(ctx.arity, term), "universe"), LAMBDA ok :
    Done([ctx EXCEPT !.checked = TRUE]))

-----------------------------------------------------------------------------
(* Leaving the scope of the variables from outer on: each linear one must  *)
(* have been used exactly once, or at most once if it is the name of a     *)
(* definition that uses linear variables itself.                           *)
CloseValid(mode, q, affine, level, uses) ==
  mode # Zero /\ q = One => IF affine THEN U!AtMostOnce(level, uses) ELSE U!ExactlyOnce(level, uses)

RECURSIVE CloseLoop(_, _, _, _, _, _)
CloseLoop(locals, size, outer, mode, uses, affine) ==
  IF locals = <<>> \/ size <= outer THEN Done(uses)
  ELSE IF CloseValid(mode, Head(locals).q, affine, size - 1, uses)
       THEN CloseLoop(Tail(locals), size - 1, outer, mode, U!Remove(uses, size - 1), affine)
       ELSE Fail("quantity")
CloseScope(ctx, outer, mode, uses, affine) ==
  CloseLoop(ctx.locals, ctx.size, outer, mode, uses, affine)

-----------------------------------------------------------------------------
(* Variables, globals, literals.                                           *)
HeadTy(ctx, head) ==
  IF head.kind = "local"
  THEN IF head.level < ctx.size THEN Done(ctx.locals[ctx.size - head.level].ty) ELSE Fail("unbound")
  ELSE LET entry == FindEntry(head.name, ctx.g)
       IN IF entry = None THEN Fail("unbound") ELSE Evaluate(ctx.g, <<>>, entry[1].ty)

InferVar(ctx, mode, index) ==
  IF index >= ctx.size THEN Fail("unbound")
  ELSE LET local == ctx.locals[index + 1]
       IN IF ~Readable(mode, local.q) THEN Fail("quantity")
          ELSE Done(Inferred(local.ty, U!Occurrence(ctx.size - 1 - index, mode)))

InferLit(ctx, lit) ==
  IF lit.kind = "string" THEN Fail("not_yet")
  ELSE Then(Require(lit.value >= 0, "mismatch"), LAMBDA ok :
       Then(Evaluate(ctx.g, <<>>, NatTy), LAMBDA ty : Done(Inferred(ty, U!Empty))))

InferAnn(ctx, mode, term) ==
  Then(TypeIn(ctx, term.ty), LAMBDA ty :
  Then(CheckUses(ctx, mode, term.body, ty), LAMBDA uses : Done(Inferred(ty, uses))))

-----------------------------------------------------------------------------
(* Local definitions.  A definition that uses linear variables stands for  *)
(* them: its name is linear, and may also remain unused.                   *)
HasLinear(ctx, uses) ==
  \E i \in 1..ctx.size : ctx.locals[i].q = One /\ U!Used(ctx.size - i, uses)

LetInner(inner, mode, body, expected) ==
  IF expected = None THEN InferUses(inner, mode, body)
  ELSE Then(CheckUses(inner, mode, body, expected[1]), LAMBDA uses :
         Done(Inferred(expected[1], uses)))

LetFinish(result, inner, size, mode, defUses, linear) ==
  Then(CloseScope(inner, size, mode, result.uses, linear), LAMBDA free :
    Done(Inferred(result.ty, U!Sequence(U!Scale(mode, defUses), free))))

LetDefined(ctx, mode, ty, value, body, expected, uses) ==
  LET linear == HasLinear(ctx, uses)
      q == IF mode = Zero THEN Zero ELSE IF linear THEN One ELSE Many
      inner == Define(q, ty, value, ctx)
  IN Then(LetInner(inner, mode, body, expected), LAMBDA result :
       LetFinish(result, inner, ctx.size, mode, uses, linear))

LetBody(ctx, mode, term, expected) ==
  Then(TypeIn(ctx, term.ty), LAMBDA ty :
  Then(CheckUses(ctx, Runtime(mode), term.value, ty), LAMBDA uses :
  Then(Eval(ctx, term.value), LAMBDA value :
    LetDefined(ctx, mode, ty, value, term.body, expected, uses))))

-----------------------------------------------------------------------------
(* Views of types and addresses.                                           *)
FormerView(ctx, kind, value) ==
  Then(WhnfIn(ctx, value), LAMBDA v : IF v.kind = kind THEN Done(v) ELSE Fail("mismatch"))
ViewPoint(shape) ==
  IF shape.kind \in {"pi", "zk"} THEN Done([q |-> shape.q, dom |-> shape.args[1]]) ELSE Fail("mismatch")
ViewColl(shape) == IF shape.kind = "coll" THEN Done(shape.count) ELSE Fail("mismatch")
MuView(shape) == IF shape.kind = "mu" THEN Done(shape) ELSE Fail("mismatch")
OneOf(items, error) == IF Len(items) = 1 THEN Done(items[1]) ELSE Fail(error)
PointArg(addr) == IF addr.kind = "pt" THEN Done(addr.arg) ELSE Fail("wrong_leg")
LegIndex(addr) == IF addr.kind = "leg" THEN Done(addr.index) ELSE Fail("wrong_leg")
BinderQuantity(marked, declared) == Require(marked = declared, "quantity")

-----------------------------------------------------------------------------
(* Functions and dependent pairs.                                          *)
PointForm(ctx, kind, q, dom, body) ==
  Then(InferUniv(ctx, dom), LAMBDA domLevel :
  Then(Eval(ctx, dom), LAMBDA domain :
  Then(InferUniv(Bind(q, domain, ctx), body), LAMBDA codLevel :
    Done(IF kind = "lan" THEN L!LMax(domLevel, codLevel) ELSE L!LIMax(domLevel, codLevel)))))

\* Mistake: what a closure captures is charged for one call.
PointIntroSecOnce(ctx, mode, legs, expected) ==
  Then(FormerView(ctx, "ran", expected), LAMBDA former :
  Then(ViewPoint(former.shape), LAMBDA point :
  Then(OneOf(legs, "mismatch"), LAMBDA leg :
  Then(OneOf(leg.binders, "mismatch"), LAMBDA marked :
  Then(BinderQuantity(marked, point.q), LAMBDA ok :
  Then(Open(ctx, former.clo, <<LocalVar(ctx.size)>>), LAMBDA target :
    LET inner == Bind(point.q, point.dom, ctx)
    IN Then(CheckUses(inner, Runtime(mode), leg.body, target), LAMBDA uses :
       Then(CloseScope(inner, ctx.size, mode, uses, FALSE), LAMBDA free :
         Done(U!Captures(free))))))))))

\* A closure may run several times: it is charged for what it captures.
PointIntroSec(ctx, mode, legs, expected) ==
  Then(FormerView(ctx, "ran", expected), LAMBDA former :
  Then(ViewPoint(former.shape), LAMBDA point :
  Then(OneOf(legs, "mismatch"), LAMBDA leg :
  Then(OneOf(leg.binders, "mismatch"), LAMBDA marked :
  Then(BinderQuantity(marked, point.q), LAMBDA ok :
  Then(Open(ctx, former.clo, <<LocalVar(ctx.size)>>), LAMBDA target :
    LET inner == Bind(point.q, point.dom, ctx)
    IN Then(CheckUses(inner, Runtime(mode), leg.body, target), LAMBDA uses :
       Then(CloseScope(inner, ctx.size, mode, uses, FALSE), LAMBDA free :
         Done(U!Scale(mode, U!Captures(free)))))))))))

PointIntroIn(ctx, mode, addr, args, expected) ==
  Then(FormerView(ctx, "lan", expected), LAMBDA former :
  Then(ViewPoint(former.shape), LAMBDA point :
  Then(PointArg(addr), LAMBDA first :
  Then(OneOf(args, "mismatch"), LAMBDA second :
  Then(CheckUses(ctx, U!Mul(mode, point.q), first, point.dom), LAMBDA pointUses :
  Then(Eval(ctx, first), LAMBDA value :
  Then(Open(ctx, former.clo, <<value>>), LAMBDA fibre :
  Then(CheckUses(ctx, mode, second, fibre), LAMBDA fibreUses :
    Done(U!Sequence(pointUses, fibreUses))))))))))

PointElimOut(ctx, mode, addr, head) ==
  Then(PointArg(addr), LAMBDA arg :
  Then(InferUses(ctx, mode, head), LAMBDA got :
  Then(FormerView(ctx, "ran", got.ty), LAMBDA former :
  Then(ViewPoint(former.shape), LAMBDA point :
  Then(CheckUses(ctx, U!Mul(mode, point.q), arg, point.dom), LAMBDA uses :
  Then(Eval(ctx, arg), LAMBDA value :
  Then(Open(ctx, former.clo, <<value>>), LAMBDA ty :
    Done(Inferred(ty, U!Sequence(got.uses, uses))))))))))

-----------------------------------------------------------------------------
(* What eliminations share.                                                *)
CheckMotive(ctx, motive, scrutTy) ==
  IF motive = None THEN Done("unit")
  ELSE Then(InferUniv(Bind(Zero, scrutTy, ctx), motive[1].body), LAMBDA level : Done("unit"))

InferScrutinee(ctx, mode, data) ==
  Then(Require(mode = Zero \/ data.q # Zero, "quantity"), LAMBDA ok :
    InferUses(ctx, U!Mul(mode, data.q), data.scrut))

\* The uses of an elimination: one of the branches runs, after the scrutinee.
ElimUses(got, mode, uses) == U!Sequence(got.uses, U!Scale(mode, uses))

RECURSIVE Alternatives(_, _)
Alternatives(uses, branches) ==
  IF branches = <<>> THEN uses ELSE Alternatives(U!Alternative(uses, Head(branches)), Tail(branches))

CheckBranch(ctx, inner, mode, body, target) ==
  Then(CheckUses(inner, Runtime(mode), body, target), LAMBDA uses :
    CloseScope(inner, ctx.size, mode, uses, FALSE))

-----------------------------------------------------------------------------
(* Taking a pair apart: the branch binds the point, at the quantity of the *)
(* type, and the value over it, at a quantity of its own.                  *)
FirstBranchPair(branch) ==
  Then(LegIndex(branch.addr), LAMBDA index :
  Then(Require(index = 0, "wrong_leg"), LAMBDA ok : Done(branch.leg)))

PointBranch(ctx, mode, leg, former, point, motive, expected) ==
  LET first == LocalVar(ctx.size)
      second == LocalVar(ctx.size + 1)
  IN Then(Require(Len(leg.binders) = 2, "missing_branch"), LAMBDA two :
     Then(BinderQuantity(leg.binders[1], point.q), LAMBDA ok :
     Then(Open(ctx, former.clo, <<first>>), LAMBDA fibre :
     Then(ElimResult(ctx, motive, expected, VIn(former.shape, APt(point.q, first), <<second>>)),
       LAMBDA target :
         CheckBranch(ctx, Bind(leg.binders[2], fibre, Bind(leg.binders[1], point.dom, ctx)),
                     mode, leg.body, target)))))

PointElimElim(ctx, mode, data, expected) ==
  Then(InferScrutinee(ctx, mode, data), LAMBDA got :
  Then(FormerView(ctx, "lan", got.ty), LAMBDA former :
  Then(ViewPoint(former.shape), LAMBDA point :
  Then(CheckMotive(ctx, data.motive, former), LAMBDA motiveOk :
  Then(Eval(ctx, data.scrut), LAMBDA scrut :
  Then(ElimResult(ctx, data.motive, expected, scrut), LAMBDA result :
  Then(OneOf(data.branches, "missing_branch"), LAMBDA branch :
  Then(FirstBranchPair(branch), LAMBDA leg :
  Then(PointBranch(ctx, mode, leg, former, point, data.motive, expected), LAMBDA uses :
    Done(Inferred(result, ElimUses(got, mode, uses))))))))))))

-----------------------------------------------------------------------------
(* Finite sums and products.                                               *)
CollLevels(ctx, legs, start) ==
  Then(Collect([i \in DOMAIN legs |->
         Then(Require(legs[i].binders = <<>>, "mismatch"), LAMBDA ok : InferUniv(ctx, legs[i].body))]),
       LAMBDA levels :
         LET Upto[i \in 0..Len(levels)] == IF i = 0 THEN start ELSE L!LMax(Upto[i - 1], levels[i])
         IN Done(Upto[Len(levels)]))

\* The empty one lives at the level that is expected, or at zero.
CollForm(ctx, count, diagram, expected) ==
  IF /\ diagram.kind = "sec" /\ diagram.shape.kind = "coll"
     /\ diagram.shape.count = count /\ Len(diagram.legs) = count
  THEN CollLevels(ctx, diagram.legs, IF count = 0 /\ expected # None THEN expected[1] ELSE L!LZero)
  ELSE Fail("mismatch")

RECURSIVE CollCheckLegs(_, _, _, _)
CollCheckLegs(ctx, mode, legs, dlegs) ==
  CASE legs = <<>> /\ dlegs = <<>> -> Done(U!Empty)
    [] legs # <<>> /\ dlegs # <<>> ->
         Then(Open(ctx, Head(dlegs).clo, <<>>), LAMBDA ty :
         Then(CheckUses(ctx, mode, Head(legs).body, ty), LAMBDA uses :
         Then(CollCheckLegs(ctx, mode, Tail(legs), Tail(dlegs)), LAMBDA others :
           Done(U!Sequence(uses, others)))))
    [] OTHER -> Fail("mismatch")

CollIntroSec(ctx, mode, count, legs, expected) ==
  Then(FormerView(ctx, "ran", expected), LAMBDA former :
  Then(ViewColl(former.shape), LAMBDA width :
  Then(Require(width = count /\ Len(legs) = count, "mismatch"), LAMBDA ok :
  Then(CollLegsOf(ctx, former.clo), LAMBDA dlegs : CollCheckLegs(ctx, mode, legs, dlegs)))))

CollIntroIn(ctx, mode, addr, args, expected) ==
  Then(FormerView(ctx, "lan", expected), LAMBDA former :
  Then(ViewColl(former.shape), LAMBDA count :
  Then(LegIndex(addr), LAMBDA index :
  Then(Require(index \in 0..(count - 1), "wrong_leg"), LAMBDA ok :
  Then(CollLegsOf(ctx, former.clo), LAMBDA dlegs :
  Then(CollLegTy(ctx, dlegs, index), LAMBDA ty :
  Then(OneOf(args, "mismatch"), LAMBDA payload : CheckUses(ctx, mode, payload, ty))))))))

CollElimOut(ctx, mode, addr, head) ==
  Then(LegIndex(addr), LAMBDA index :
  Then(InferUses(ctx, mode, head), LAMBDA got :
  Then(FormerView(ctx, "ran", got.ty), LAMBDA former :
  Then(ViewColl(former.shape), LAMBDA count :
  Then(Require(index \in 0..(count - 1), "wrong_leg"), LAMBDA ok :
  Then(CollLegsOf(ctx, former.clo), LAMBDA dlegs :
  Then(CollLegTy(ctx, dlegs, index), LAMBDA ty : Done(Inferred(ty, got.uses)))))))))

\* The branch of a leg binds the payload at a quantity of its own.
CollBranch(ctx, mode, data, shape, dlegs, expected, index) ==
  LET found == FindBranch(data.branches, ALeg(index))
  IN Then(Require(found # None, "missing_branch"), LAMBDA some :
     Then(OneOf(found[1].leg.binders, "missing_branch"), LAMBDA marked :
     Then(CollLegTy(ctx, dlegs, index), LAMBDA ty :
     Then(ElimResult(ctx, data.motive, expected, VIn(shape, ALeg(index), <<LocalVar(ctx.size)>>)),
       LAMBDA target : CheckBranch(ctx, Bind(marked, ty, ctx), mode, found[1].leg.body, target)))))

CollElimElim(ctx, mode, data, expected) ==
  Then(InferScrutinee(ctx, mode, data), LAMBDA got :
  Then(FormerView(ctx, "lan", got.ty), LAMBDA former :
  Then(ViewColl(former.shape), LAMBDA count :
  Then(CheckMotive(ctx, data.motive, former), LAMBDA motiveOk :
  Then(Eval(ctx, data.scrut), LAMBDA scrut :
  Then(ElimResult(ctx, data.motive, expected, scrut), LAMBDA result :
  Then(Require(Len(data.branches) = count, "missing_branch"), LAMBDA all :
  Then(CollLegsOf(ctx, former.clo), LAMBDA dlegs :
  Then(Collect([i \in 1..count |->
         CollBranch(ctx, mode, data, former.shape, dlegs, expected, i - 1)]), LAMBDA uses :
    Done(Inferred(result, ElimUses(got, mode, Alternatives(U!Unreachable, uses)))))))))))))

-----------------------------------------------------------------------------
(* Inductive families.                                                     *)
ParamsOf(diagram) == IF diagram.kind = "sec" THEN Done(LegChildren(diagram.legs)) ELSE Fail("mismatch")

\* Arguments against a telescope: each type is that of the arguments before it, the last innermost.
RECURSIVE TelescopeLoop(_, _, _, _, _, _)
TelescopeLoop(ctx, mode, tele, args, env, uses) ==
  IF tele = <<>> THEN Done([env |-> env, uses |-> uses])
  ELSE Then(Evaluate(ctx.g, env, Head(tele).ty), LAMBDA ty :
       Then(CheckUses(ctx, U!Mul(mode, Head(tele).q), Head(args), ty), LAMBDA next :
       Then(Eval(ctx, Head(args)), LAMBDA value :
         TelescopeLoop(ctx, mode, Tail(tele), Tail(args), Cons(value, env), U!Sequence(uses, next)))))
TelescopeUses(ctx, mode, tele, args, env) ==
  Then(Require(Len(tele) = Len(args), "mismatch"), LAMBDA same :
    TelescopeLoop(ctx, mode, tele, args, env, U!Empty))

MuForm(ctx, name, indices, diagram) ==
  Then(MuFamily(ctx, name), LAMBDA family :
  Then(ParamsOf(diagram), LAMBDA params :
  Then(TelescopeUses(ctx, Zero, family.params, params, <<>>), LAMBDA penv :
  Then(TelescopeUses(ctx, Zero, family.indices, indices, penv.env), LAMBDA all : Done(family.level)))))

\* The indices a constructor gives against those the type asks for.
RECURSIVE IndexLoop(_, _, _, _, _, _)
IndexLoop(ctx, tele, results, wants, env, indexEnv) ==
  CASE tele = <<>> /\ results = <<>> /\ wants = <<>> -> Done("unit")
    [] tele # <<>> /\ results # <<>> /\ wants # <<>> ->
         Then(Evaluate(ctx.g, indexEnv, Head(tele).ty), LAMBDA ty :
         Then(Evaluate(ctx.g, env, Head(results)), LAMBDA got :
         Then(Conv(ctx, ty, got, Head(wants)), LAMBDA same :
         Then(Require(same, "mismatch"), LAMBDA ok :
           IndexLoop(ctx, Tail(tele), Tail(results), Tail(wants), env, Cons(Head(wants), indexEnv))))))
    [] OTHER -> Fail("mismatch")
MuIndices(ctx, tele, results, penv, wants, env) ==
  Then(Require(Len(results) = Len(wants), "mismatch"), LAMBDA same :
    IndexLoop(ctx, tele, results, wants, env, penv))

CtorOf(name, family) ==
  LET named == {i \in DOMAIN family.ctors : family.ctors[i].name = name}
  IN IF named = {} THEN None
     ELSE Just(family.ctors[CHOOSE i \in named : \A j \in named : i <= j])

MuIntroIn(ctx, mode, addr, args, expected) ==
  Then(FormerView(ctx, "lan", expected), LAMBDA former :
  Then(MuView(former.shape), LAMBDA mu :
  Then(Require(addr.kind = "ctor", "wrong_leg"), LAMBDA isCtor :
  Then(MuFamily(ctx, mu.name), LAMBDA family :
    LET ctor == CtorOf(addr.name, family)
    IN Then(Require(ctor # None, "unbound"), LAMBDA known :
       Then(MuParamEnv(ctx, former.clo), LAMBDA penv :
       Then(TelescopeUses(ctx, mode, ctor[1].args, args, penv), LAMBDA got :
       Then(MuIndices(ctx, family.indices, ctor[1].res_idx, penv, mu.args, got.env), LAMBDA ok :
         Done(got.uses)))))))))

\* The motive names the family and binds its indices and the value.
MuMotiveOf(name, family, indices, motive) ==
  Then(Require(motive # None, "cannot_infer"), LAMBDA given :
  Then(Require(/\ motive[1].ind = Just(name)
               /\ motive[1].indices = Len(family.indices)
               /\ Len(indices) = Len(family.indices), "mismatch"), LAMBDA ok : Done(motive[1])))

RECURSIVE MotiveBindIndices(_, _, _, _)
MotiveBindIndices(ctx, tele, env, values) ==
  IF tele = <<>> THEN Done([ctx |-> ctx, values |-> values])
  ELSE LET fresh == LocalVar(ctx.size)
       IN Then(Evaluate(ctx.g, env, Head(tele).ty), LAMBDA ty :
            MotiveBindIndices(Bind(Zero, ty, ctx), Tail(tele), Cons(fresh, env), Append(values, fresh)))

MuMotiveLevel(ctx, name, family, motive, former, penv) ==
  Then(MotiveBindIndices(ctx, family.indices, penv, <<>>), LAMBDA bound :
    LET self == VLan(SMu(name, bound.values), former.clo, former.level)
    IN InferUniv(Bind(Zero, self, bound.ctx), motive.body))

\* Families without information: no constructor, or one whose fields are erased.
ErasedFields(tele) == \A i \in DOMAIN tele : tele[i].q = Zero
ZeroCtor(ctor) == ctor # None /\ ErasedFields(ctor[1].args) /\ ~ctor[1].self_rec
MuZeroEliminable(family) ==
  /\ family.status.kind = "complete"
  /\ \/ family.status.names = <<>>
     \/ Len(family.status.names) = 1 /\ ZeroCtor(CtorOf(family.status.names[1], family))

\* Out of a proposition only propositions may be computed, or from such a family.
MuLarge(family, level) ==
  Require(AlwaysPositive(family.level) \/ AlwaysZero(level) \/ MuZeroEliminable(family), "universe")

MuCtorNames(family) ==
  CASE family.status.kind = "complete" -> Done(family.status.names)
    [] family.status.kind = "provisional" -> Fail("unbound")
    [] family.status.kind = "builtin" -> Fail("mismatch")

\* Every constructor has one branch, and every branch a constructor.
BranchKeys(branches) ==
  Collect([i \in DOMAIN branches |->
    IF branches[i].addr.kind = "ctor" THEN Done(branches[i].addr.name) ELSE Fail("wrong_leg")])
KeysAt(keys, name) == {i \in DOMAIN keys : keys[i] = name}
CoverCount(keys, name) ==
  CASE KeysAt(keys, name) = {} -> Fail("missing_branch")
    [] \E i \in DOMAIN keys : KeysAt(keys, name) = {i} -> Done("unit")
    [] OTHER -> Fail("wrong_leg")
MuCover(names, branches) ==
  Then(BranchKeys(branches), LAMBDA keys :
  Then(Collect([i \in DOMAIN names |-> CoverCount(keys, names[i])]), LAMBDA covered :
    Require(\A i \in DOMAIN keys : \E j \in DOMAIN names : names[j] = keys[i], "unbound")))

RECURSIVE BranchBindFields(_, _, _, _, _)
BranchBindFields(ctx, tele, binders, env, values) ==
  IF tele = <<>> THEN Done([ctx |-> ctx, env |-> env, values |-> values])
  ELSE LET fresh == LocalVar(ctx.size)
       IN Then(Evaluate(ctx.g, env, Head(tele).ty), LAMBDA ty :
          Then(BinderQuantity(Head(binders), Head(tele).q), LAMBDA ok :
            BranchBindFields(Bind(Head(tele).q, ty, ctx), Tail(tele), Tail(binders),
                             Cons(fresh, env), Append(values, fresh))))

MuBranch(ctx, mode, name, family, motive, penv, branches, ctorName) ==
  LET ctor == CtorOf(ctorName, family)
      found == FindBranch(branches, ACtor(ctorName))
  IN Then(Require(ctor # None, "unbound"), LAMBDA known :
     Then(Require(found # None /\ Len(found[1].leg.binders) = Len(ctor[1].args), "missing_branch"),
       LAMBDA some :
     Then(BranchBindFields(ctx, ctor[1].args, found[1].leg.binders, penv, <<>>), LAMBDA fields :
     Then(EvalList(ctx.g, fields.env, ctor[1].res_idx), LAMBDA indices :
     Then(MuResult(ctx, motive, indices, VIn(SMu(name, indices), ACtor(ctorName), fields.values)),
       LAMBDA target : CheckBranch(ctx, fields.ctx, mode, found[1].leg.body, target))))))

MuElimElim(ctx, mode, data) ==
  Then(InferScrutinee(ctx, mode, data), LAMBDA got :
  Then(FormerView(ctx, "lan", got.ty), LAMBDA former :
  Then(MuView(former.shape), LAMBDA mu :
  Then(MuFamily(ctx, mu.name), LAMBDA family :
  Then(MuMotiveOf(mu.name, family, mu.args, data.motive), LAMBDA motive :
  Then(MuParamEnv(ctx, former.clo), LAMBDA penv :
  Then(MuMotiveLevel(ctx, mu.name, family, motive, former, penv), LAMBDA level :
  Then(MuLarge(family, level), LAMBDA large :
  Then(MuCtorNames(family), LAMBDA names :
  Then(MuCover(names, data.branches), LAMBDA covered :
  Then(Collect([i \in DOMAIN names |->
         MuBranch(ctx, mode, mu.name, family, motive, penv, data.branches, names[i])]), LAMBDA uses :
  Then(Eval(ctx, data.scrut), LAMBDA scrut :
  Then(MuResult(ctx, motive, mu.args, scrut), LAMBDA result :
    Done(Inferred(result, ElimUses(got, mode, Alternatives(U!Unreachable, uses)))))))))))))))))

-----------------------------------------------------------------------------
(* Proofs of arithmetic relations: a pair whose type is a relation that a  *)
(* circuit can decide; its certificate may be given along.                 *)
DefBodies(g) ==
  [name \in {n \in DOMAIN g.entries : g.entries[n].kind = "def"} |-> g.entries[name].body]
CircuitLevels(ctx, term) ==
  LET depth == CircuitDepth(DefBodies(ctx.g), term)
  IN IF depth.ok THEN depth ELSE Fail("not_yet")

ZkForm(ctx, q, dom, cod) ==
  Then(InferUniv(ctx, dom), LAMBDA domLevel :
  Then(Eval(ctx, dom), LAMBDA domain :
  Then(InferUniv(Bind(q, domain, ctx), cod), LAMBDA codLevel :
  Then(Require(SameLevel(ctx.arity, codLevel, L!LZero), "mismatch"), LAMBDA isProp :
  Then(CircuitLevels(ctx, cod), LAMBDA circuit : Done(L!LMax(domLevel, codLevel)))))))

ProofArgs(ctx, mode, args) ==
  CASE Len(args) = 1 -> Done([fibre |-> args[1], uses |-> U!Empty])
    [] Len(args) = 2 -> Then(InferUses(ctx, mode, args[2]), LAMBDA got :
                          Done([fibre |-> args[1], uses |-> got.uses]))
    [] OTHER -> Fail("mismatch")

ZkIntroIn(ctx, mode, addr, args, expected) ==
  Then(FormerView(ctx, "lan", expected), LAMBDA former :
  Then(ViewPoint(former.shape), LAMBDA point :
  Then(PointArg(addr), LAMBDA first :
  Then(ProofArgs(ctx, mode, args), LAMBDA proof :
  Then(CheckUses(ctx, U!Mul(mode, One), first, point.dom), LAMBDA pointUses :
  Then(Eval(ctx, first), LAMBDA value :
  Then(Open(ctx, former.clo, <<value>>), LAMBDA fibreTy :
  Then(CheckUses(ctx, mode, proof.fibre, fibreTy), LAMBDA fibreUses :
    Done(U!Sequence(pointUses, U!Sequence(fibreUses, proof.uses)))))))))))

-----------------------------------------------------------------------------
(* Ciphertexts: a product at a level, over the type of what is encrypted.  *)
(* Evaluating a function on one needs a circuit for it, whose depth raises *)
(* the level.                                                              *)
FhcShape(shape) == IF shape.kind = "fhc" THEN Done(shape.args[1]) ELSE Fail("mismatch")
FhcLevel(ctx, value) ==
  Then(WhnfIn(ctx, value), LAMBDA v :
    IF v.kind = "lit" /\ v.lit.kind = "int" THEN Done(v.lit.value) ELSE Fail("mismatch"))

\* What can be encrypted: numbers, and finite sums and products of what can.
RECURSIVE FhcFragment(_, _)
FhcFragment(ctx, ty) ==
  Then(WhnfIn(ctx, ty), LAMBDA value :
    CASE value.kind = "neutral" ->
           Require(value.head = HGlobal("Nat") /\ value.spine = <<>>, "mismatch")
      [] value.kind \in {"lan", "ran"} ->
           IF value.shape.kind # "coll" THEN Fail("mismatch")
           ELSE Then(CollLegsOf(ctx, value.clo), LAMBDA legs :
                Then(Collect([i \in DOMAIN legs |->
                       Then(Open(ctx, legs[i].clo, <<>>), LAMBDA leg : FhcFragment(ctx, leg))]),
                     LAMBDA all : Done("unit")))
      [] OTHER -> Fail("mismatch"))

FhcForm(ctx, level, diagram) ==
  Then(Eval(ctx, level), LAMBDA levelValue :
  Then(FhcLevel(ctx, levelValue), LAMBDA n :
  Then(InferUniv(ctx, diagram), LAMBDA univ :
  Then(Eval(ctx, diagram), LAMBDA ty :
  Then(FhcFragment(ctx, ty), LAMBDA ok : Done(univ))))))

\* A ciphertext: the level it is at and the type under it.
Cipher(ctx, ty) ==
  Then(FormerView(ctx, "ran", ty), LAMBDA former :
  Then(FhcShape(former.shape), LAMBDA levelValue :
  Then(FhcLevel(ctx, levelValue), LAMBDA level :
  Then(Open(ctx, former.clo, <<>>), LAMBDA under : Done([level |-> level, under |-> under])))))

FhcEval(ctx, mode, outLevel, outTy, functionTy, functionUses, function, cipher) ==
  Then(CircuitLevels(ctx, function), LAMBDA depth :
  Then(FormerView(ctx, "ran", functionTy), LAMBDA former :
  Then(ViewPoint(former.shape), LAMBDA point :
  Then(InferUses(ctx, mode, cipher), LAMBDA got :
  Then(Cipher(ctx, got.ty), LAMBDA in :
  Then(Require(outLevel = in.level + depth, "mismatch"), LAMBDA levelOk :
  Then(ConvType(ctx, point.dom, in.under), LAMBDA domOk :
  Then(Open(ctx, former.clo, <<LocalVar(ctx.size)>>), LAMBDA cod :
  Then(ConvType(Bind(point.q, point.dom, ctx), cod, outTy), LAMBDA codOk :
  Then(Require(domOk /\ codOk, "mismatch"), LAMBDA ok :
    Done(U!Sequence(functionUses, got.uses))))))))))))

\* The function cannot be inferred: it is checked against a type made from that of the ciphertext.
FhcCipherFirst(ctx, mode, outLevel, outTy, function, cipher) ==
  Then(CircuitLevels(ctx, function), LAMBDA depth :
  Then(InferUses(ctx, U!Mul(mode, Many), cipher), LAMBDA got :
  Then(Cipher(ctx, got.ty), LAMBDA in :
  Then(Require(outLevel = in.level + depth, "mismatch"), LAMBDA levelOk :
  Then(Quote(ctx.g, ctx.size + 1, outTy), LAMBDA cod :
    LET functionTy == VRan(SPi(Many, in.under), Close(ctx.env, cod), None)
    IN Then(CheckUses(ctx, U!Mul(mode, Many), function, functionTy), LAMBDA uses :
         Done(U!Sequence(uses, got.uses))))))))

IsFunction(value) == value.kind = "ran" /\ value.shape.kind \in {"pi", "zk"}

FhcLegs(ctx, mode, outLevel, outTy, first, second) ==
  LET got == InferUses(ctx, U!Mul(mode, Many), first)
  IN IF ~got.ok THEN FhcCipherFirst(ctx, mode, outLevel, outTy, first, second)
     ELSE Then(WhnfIn(ctx, got.val.ty), LAMBDA ty :
            IF IsFunction(ty)
            THEN FhcEval(ctx, mode, outLevel, outTy, ty, got.val.uses, first, second)
            ELSE Then(Require(outLevel = 0, "mismatch"), LAMBDA fresh :
                 Then(CheckUses(ctx, mode, second, outTy), LAMBDA uses :
                   Done(U!Sequence(got.val.uses, uses)))))

FhcIntroSec(ctx, mode, legs, expected) ==
  Then(Cipher(ctx, expected), LAMBDA out :
  Then(Require(Len(legs) = 2 /\ \A i \in DOMAIN legs : legs[i].binders = <<>>, "mismatch"), LAMBDA two :
    FhcLegs(ctx, mode, out.level, out.under, legs[1].body, legs[2].body)))

FhcElimOut(ctx, mode, addr, head) ==
  Then(PointArg(addr), LAMBDA key :
  Then(Require(addr.q = One, "quantity"), LAMBDA linear :
  Then(InferUses(ctx, mode, head), LAMBDA got :
  Then(FormerView(ctx, "ran", got.ty), LAMBDA former :
  Then(FhcShape(former.shape), LAMBDA levelValue :
  Then(FhcLevel(ctx, levelValue), LAMBDA level :
  Then(InferUses(ctx, U!Mul(mode, One), key), LAMBDA keyGot :
  Then(Open(ctx, former.clo, <<>>), LAMBDA ty :
    Done(Inferred(ty, U!Sequence(got.uses, keyGot.uses)))))))))))

-----------------------------------------------------------------------------
(* Shared computation: a product over the parties and an access predicate  *)
(* on sets of them.  It is introduced by the share of a party, alone or     *)
(* with the party itself, or by a function with a circuit on shares.       *)
MpcShape(shape) ==
  IF shape.kind = "mpc" THEN Done([parties |-> shape.args[1], access |-> shape.args[2]]) ELSE Fail("mismatch")

MpcForm(ctx, parties, access, diagram) ==
  Then(Eval(ctx, parties), LAMBDA partiesValue :
  Then(MpcParties(ctx, partiesValue), LAMBDA count :
  Then(MpcPredTy(count), LAMBDA pred :
  Then(Eval(ctx, pred), LAMBDA predTy :
  Then(CheckUses(ctx, Zero, access, predTy), LAMBDA uses : InferUniv(ctx, diagram))))))

MpcShareTy(ctx, mpc, ty) ==
  Then(Quote(ctx.g, ctx.size, ty), LAMBDA term :
    Done(VRan(SMpc(mpc.parties, mpc.access), Close(ctx.env, term), None)))

RECURSIVE MpcShares(_, _, _, _, _)
MpcShares(ctx, mode, mpc, functionTy, shares) ==
  IF shares = <<>> THEN Done(Inferred(functionTy, U!Empty))
  ELSE Then(FormerView(ctx, "ran", functionTy), LAMBDA former :
       Then(ViewPoint(former.shape), LAMBDA point :
       Then(MpcShareTy(ctx, mpc, point.dom), LAMBDA ty :
       Then(CheckUses(ctx, U!Mul(mode, One), Head(shares), ty), LAMBDA uses :
       Then(Open(ctx, former.clo, <<LocalVar(ctx.size)>>), LAMBDA cod :
       Then(MpcShares(ctx, mode, mpc, cod, Tail(shares)), LAMBDA rest :
         Done(Inferred(rest.ty, U!Sequence(uses, rest.uses)))))))))

MpcJoin(ctx, mode, mpc, outTy, set, function, shares) ==
  Then(MpcParties(ctx, mpc.parties), LAMBDA count :
  Then(MpcSubTy(count), LAMBDA sub :
  Then(Eval(ctx, sub), LAMBDA subTy :
  Then(CheckUses(ctx, U!Mul(mode, Many), set, subTy), LAMBDA setUses :
  Then(CircuitLevels(ctx, function), LAMBDA circuit :
  Then(InferUses(ctx, U!Mul(mode, Many), function), LAMBDA got :
  Then(MpcShares(ctx, mode, mpc, got.ty, shares), LAMBDA rest :
  Then(ConvType(ctx, rest.ty, outTy), LAMBDA same :
  Then(Require(same, "mismatch"), LAMBDA ok :
    Done(U!Sequence(setUses, U!Sequence(got.uses, rest.uses))))))))))))

MpcIntroArgs(ctx, mode, mpc, outTy, args) ==
  CASE Len(args) = 0 -> Fail("mismatch")
    [] Len(args) = 1 -> CheckUses(ctx, U!Mul(mode, One), args[1], outTy)
    [] Len(args) = 2 ->
         Then(CheckUses(ctx, U!Mul(mode, Many), args[1], mpc.parties), LAMBDA partyUses :
         Then(CheckUses(ctx, U!Mul(mode, One), args[2], outTy), LAMBDA uses :
           Done(U!Sequence(partyUses, uses))))
    [] OTHER -> MpcJoin(ctx, mode, mpc, outTy, args[1], args[2], SubSeq(args, 3, Len(args)))

MpcIntroSec(ctx, mode, legs, expected) ==
  Then(FormerView(ctx, "ran", expected), LAMBDA former :
  Then(MpcShape(former.shape), LAMBDA mpc :
  Then(Open(ctx, former.clo, <<>>), LAMBDA outTy :
  Then(Require(\A i \in DOMAIN legs : legs[i].binders = <<>>, "mismatch"), LAMBDA ok :
    MpcIntroArgs(ctx, mode, mpc, outTy, LegChildren(legs))))))

\* A set of parties with the proof that it has access.
MpcAddress(arg) ==
  IF arg.kind = "in" /\ arg.shape.kind \in {"pi", "zk"} /\ arg.addr.kind = "pt"
  THEN Then(OneOf(arg.args, "mismatch"), LAMBDA proof : Done([set |-> arg.addr.arg, proof |-> proof]))
  ELSE Fail("wrong_leg")

MpcElimOut(ctx, mode, addr, head) ==
  Then(PointArg(addr), LAMBDA arg :
  Then(Require(addr.q = Zero, "quantity"), LAMBDA erased :
  Then(MpcAddress(arg), LAMBDA pair :
  Then(InferUses(ctx, mode, head), LAMBDA got :
  Then(FormerView(ctx, "ran", got.ty), LAMBDA former :
  Then(MpcShape(former.shape), LAMBDA mpc :
  Then(MpcParties(ctx, mpc.parties), LAMBDA count :
  Then(MpcSubTy(count), LAMBDA sub :
  Then(Eval(ctx, sub), LAMBDA subTy :
  Then(CheckUses(ctx, Zero, pair.set, subTy), LAMBDA setUses :
  Then(Quote(ctx.g, ctx.size, mpc.access), LAMBDA access :
  Then(Eval(ctx, TOut(SPi(Zero, sub), APt(Zero, pair.set), access)), LAMBDA granted :
  Then(CheckUses(ctx, Zero, pair.proof, granted), LAMBDA proofUses :
  Then(Open(ctx, former.clo, <<>>), LAMBDA ty :
    Done(Inferred(ty, U!Sequence(got.uses, U!Sequence(setUses, proofUses))))))))))))))))))

-----------------------------------------------------------------------------
(* The rules by shape.  Some shapes have no rules yet.                     *)
Form(ctx, kind, shape, body, expected) ==
  CASE shape.kind = "pi" -> PointForm(ctx, kind, shape.q, shape.args[1], body)
    [] shape.kind = "arg" -> Fail("mismatch")
    [] shape.kind = "coll" -> CollForm(ctx, shape.count, body, expected)
    [] shape.kind = "mu" /\ kind = "lan" -> MuForm(ctx, shape.name, shape.args, body)
    [] shape.kind = "zk" /\ kind = "lan" -> ZkForm(ctx, shape.q, shape.args[1], body)
    [] shape.kind = "fhc" /\ kind = "ran" -> FhcForm(ctx, shape.args[1], body)
    [] shape.kind = "mpc" /\ kind = "ran" -> MpcForm(ctx, shape.args[1], shape.args[2], body)
    [] OTHER -> Fail("not_yet")

IntroSec(ctx, mode, term, expected) ==
  CASE term.shape.kind = "pi" -> PointIntroSec(ctx, mode, term.legs, expected)
    [] term.shape.kind = "arg" -> Fail("mismatch")
    [] term.shape.kind = "coll" -> CollIntroSec(ctx, mode, term.shape.count, term.legs, expected)
    [] term.shape.kind = "fhc" -> FhcIntroSec(ctx, mode, term.legs, expected)
    [] term.shape.kind = "mpc" -> MpcIntroSec(ctx, mode, term.legs, expected)
    [] OTHER -> Fail("not_yet")

IntroIn(ctx, mode, term, expected) ==
  CASE term.shape.kind = "pi" -> PointIntroIn(ctx, mode, term.addr, term.args, expected)
    [] term.shape.kind = "arg" -> Fail("mismatch")
    [] term.shape.kind = "coll" -> CollIntroIn(ctx, mode, term.addr, term.args, expected)
    [] term.shape.kind = "mu" -> MuIntroIn(ctx, mode, term.addr, term.args, expected)
    [] term.shape.kind = "zk" -> ZkIntroIn(ctx, mode, term.addr, term.args, expected)
    [] OTHER -> Fail("not_yet")

ElimOut(ctx, mode, term) ==
  CASE term.shape.kind \in {"pi", "arg"} -> PointElimOut(ctx, mode, term.addr, term.head)
    [] term.shape.kind = "coll" -> CollElimOut(ctx, mode, term.addr, term.head)
    [] term.shape.kind = "fhc" -> FhcElimOut(ctx, mode, term.addr, term.head)
    [] term.shape.kind = "mpc" -> MpcElimOut(ctx, mode, term.addr, term.head)
    [] OTHER -> Fail("not_yet")

ElimElim(ctx, mode, term, expected) ==
  CASE term.shape.kind \in {"pi", "zk"} -> PointElimElim(ctx, mode, term, expected)
    [] term.shape.kind = "arg" -> Fail("mismatch")
    [] term.shape.kind = "coll" -> CollElimElim(ctx, mode, term, expected)
    [] term.shape.kind = "mu" -> MuElimElim(ctx, mode, term)
    [] OTHER -> Fail("not_yet")

-----------------------------------------------------------------------------
(* Inferring a type.                                                       *)
InferNode(ctx, mode, term) ==
  CASE term.kind = "var" -> InferVar(ctx, mode, term.index)
    [] term.kind = "univ" -> Done(Inferred(VUniv(L!Offset(1, term.level)), U!Empty))
    [] term.kind \in {"lan", "ran"} ->
         Then(Form(ctx, term.kind, term.shape, term.body, None), LAMBDA level :
           Done(Inferred(VUniv(level), U!Empty)))
    [] term.kind = "out" -> ElimOut(ctx, mode, term)
    [] term.kind = "elim" -> ElimElim(ctx, mode, term, None)
    [] term.kind = "let" -> LetBody(ctx, mode, term, None)
    [] term.kind = "ann" -> InferAnn(ctx, mode, term)
    [] term.kind = "global" ->
         Then(HeadTy(ctx, HGlobal(term.name)), LAMBDA ty : Done(Inferred(ty, U!Empty)))
    [] term.kind = "lit" -> InferLit(ctx, term.lit)
    [] term.kind \in {"in", "sec"} -> Fail("cannot_infer")
    [] term.kind = "auto" -> Fail("not_yet")

InferUses(ctx, mode, term) == Then(Scope(ctx, term), LAMBDA inner : InferNode(inner, mode, term))

-----------------------------------------------------------------------------
(* Checking against a type.                                                *)
CheckInferred(ctx, result, expected) ==
  Then(result, LAMBDA got :
  Then(ConvType(ctx, got.ty, expected), LAMBDA same :
  Then(Require(same, "mismatch"), LAMBDA ok : Done(got.uses))))

CheckFormer(ctx, term, expected) ==
  Then(WhnfIn(ctx, expected), LAMBDA value :
  Then(UniverseValue(value), LAMBDA level :
  Then(Form(ctx, term.kind, term.shape, term.body, Just(level)), LAMBDA got :
  Then(Require(SameLevel(ctx.arity, got, level), "universe"), LAMBDA ok : Done(U!Empty)))))

CheckNode(ctx, mode, term, expected) ==
  CASE term.kind = "sec" -> IntroSec(ctx, mode, term, expected)
    [] term.kind = "in" -> IntroIn(ctx, mode, term, expected)
    [] term.kind = "elim" ->
         CheckInferred(ctx, ElimElim(ctx, mode, term, Just(expected)), expected)
    [] term.kind \in {"lan", "ran"} -> CheckFormer(ctx, term, expected)
    [] term.kind = "let" ->
         Then(LetBody(ctx, mode, term, Just(expected)), LAMBDA got : Done(got.uses))
    [] OTHER -> CheckInferred(ctx, InferUses(ctx, mode, term), expected)

CheckUses(ctx, mode, term, expected) ==
  Then(Scope(ctx, term), LAMBDA inner : CheckNode(inner, mode, term, expected))

-----------------------------------------------------------------------------
(* Conversion.  Without a type (ConvType) values are compared by form, with *)
(* one (Conv) propositions are equal, and functions and products are       *)
(* compared by what they do.  The variables of what has no type at hand    *)
(* stand under a placeholder type.                                         *)
RECURSIVE ConvList(_, _, _), ConvLegs(_, _, _), ConvBranches(_, _, _, _, _), ConvSpines(_, _, _, _)

Yes == Done(TRUE)
No == Done(FALSE)
\* The next comparison, if the ones before it succeeded.
ConvAnd(same, next) == IF same THEN next ELSE No

Placeholder == VUniv(L!LZero)
Supported(shape) == Require(shape.kind \notin {"par", "nu"}, "not_yet")
RECURSIVE ConvGrow(_, _)
ConvGrow(n, ctx) == IF n = 0 THEN ctx ELSE ConvGrow(n - 1, Bind(Many, Placeholder, ctx))

ConvList(ctx, xs, ys) ==
  IF xs = <<>> \/ ys = <<>> THEN Done(xs = ys)
  ELSE Then(ConvType(ctx, Head(xs), Head(ys)), LAMBDA same :
         ConvAnd(same, ConvList(ctx, Tail(xs), Tail(ys))))

ConvShape(ctx, a, b) ==
  CASE a.kind # b.kind -> No
    [] a.kind = b.kind /\ a.kind \in {"pi", "zk"} ->
         ConvAnd(a.q = b.q, ConvType(ctx, a.args[1], b.args[1]))
    [] a.kind = b.kind /\ a.kind = "arg" -> No
    [] a.kind = b.kind /\ a.kind = "coll" -> Done(a.count = b.count)
    [] a.kind = b.kind /\ a.kind = "mu" -> ConvAnd(a.name = b.name, ConvList(ctx, a.args, b.args))
    [] a.kind = b.kind /\ a.kind \in {"fhc", "mpc"} -> ConvList(ctx, a.args, b.args)
    [] a.kind = b.kind /\ a.kind \in {"par", "nu"} -> Fail("not_yet")

ConvAddr(ctx, ty, a, b) ==
  CASE a.kind # b.kind -> No
    [] a.kind = b.kind /\ a.kind = "pt" ->
         IF ty # None THEN Conv(ctx, ty[1], a.arg, b.arg) ELSE ConvType(ctx, a.arg, b.arg)
    [] a.kind = b.kind /\ a.kind \in {"leg", "ctor"} -> Done(a = b)

ConvClosures(ctx, arity, x, other, y) ==
  LET fresh == FreshVars(arity, ctx.size)
  IN IF arity # other THEN No
     ELSE Then(Open(ctx, x, fresh), LAMBDA v1 :
          Then(Open(ctx, y, fresh), LAMBDA v2 : ConvType(ConvGrow(arity, ctx), v1, v2)))

ConvLegs(ctx, xs, ys) ==
  IF xs = <<>> \/ ys = <<>> THEN Done(xs = ys)
  ELSE Then(ConvClosures(ctx, Len(Head(xs).binders), Head(xs).clo, Len(Head(ys).binders), Head(ys).clo),
         LAMBDA same : ConvAnd(same, ConvLegs(ctx, Tail(xs), Tail(ys))))

-----------------------------------------------------------------------------
(* Eliminations of values that are not known yet.                          *)
ConvBranchAddr(ctx, env1, env2, a, b) ==
  CASE a.kind # b.kind -> No
    [] a.kind = b.kind /\ a.kind = "pt" ->
         Then(Evaluate(ctx.g, env1, a.arg), LAMBDA v1 :
         Then(Evaluate(ctx.g, env2, b.arg), LAMBDA v2 : ConvType(ctx, v1, v2)))
    [] a.kind = b.kind /\ a.kind \in {"leg", "ctor"} -> Done(a = b)

ConvBranches(ctx, env1, env2, bs1, bs2) ==
  IF bs1 = <<>> \/ bs2 = <<>> THEN Done(bs1 = bs2)
  ELSE LET leg1 == Head(bs1).leg
           leg2 == Head(bs2).leg
       IN Then(ConvBranchAddr(ctx, env1, env2, Head(bs1).addr, Head(bs2).addr), LAMBDA addrSame :
          Then(ConvAnd(addrSame, ConvClosures(ctx, Len(leg1.binders), Close(env1, leg1.body),
                                              Len(leg2.binders), Close(env2, leg2.body))),
            LAMBDA same : ConvAnd(same, ConvBranches(ctx, env1, env2, Tail(bs1), Tail(bs2)))))

ConvMotives(ctx, env1, env2, m1, m2) ==
  IF m1 = None \/ m2 = None THEN Done(m1 = m2)
  ELSE ConvClosures(ctx, m1[1].indices + 1, Close(env1, m1[1].body),
                    m2[1].indices + 1, Close(env2, m2[1].body))

ConvStuck(ctx, e1, e2) ==
  Then(ConvShape(ctx, e1.shape, e2.shape), LAMBDA same :
  Then(ConvMotives(ctx, e1.env, e2.env, e1.motive, e2.motive), LAMBDA motivesSame :
    ConvAnd(same /\ e1.q = e2.q /\ motivesSame,
            ConvBranches(ctx, e1.env, e2.env, e1.branches, e2.branches))))

-----------------------------------------------------------------------------
(* Spines.  The type of the head gives the types of the arguments, as long *)
(* as it is known.                                                         *)
StepDefault == [arg |-> None, next |-> Placeholder]

SpineLeg(ctx, legs, index) ==
  IF index \in 0..(Len(legs) - 1)
  THEN Then(Open(ctx, legs[index + 1].clo, <<>>), LAMBDA ty : Done([arg |-> None, next |-> ty]))
  ELSE Done(StepDefault)

SpinePoint(ctx, w, dom, addr) ==
  Then(Open(ctx, w.clo, <<addr.arg>>), LAMBDA cod : Done([arg |-> dom, next |-> cod]))

SpineStep(ctx, headTy, shape, addr) ==
  Then(WhnfIn(ctx, headTy), LAMBDA w :
    CASE w.kind # "ran" -> Done(StepDefault)
      [] w.kind = "ran" /\ shape.kind = "pi" /\ addr.kind = "pt" ->
           SpinePoint(ctx, w, IF w.shape.kind = "pi" THEN PointDom(w.shape) ELSE PointDom(shape), addr)
      [] w.kind = "ran" /\ shape.kind = "arg" /\ addr.kind = "pt" ->
           SpinePoint(ctx, w, PointDom(w.shape), addr)
      [] w.kind = "ran" /\ shape.kind = "coll" /\ addr.kind = "leg" ->
           Then(CollLegsOf(ctx, w.clo), LAMBDA legs : SpineLeg(ctx, legs, addr.index))
      [] OTHER -> Then(Supported(shape), LAMBDA ok : Done(StepDefault)))

FrameShape(ctx, a, b) ==
  IF {a.kind, b.kind} \subseteq {"pi", "arg"} THEN Done(a.q = b.q) ELSE ConvShape(ctx, a, b)

ConvOutFrame(ctx, headTy, x, y, xs, ys) ==
  Then(FrameShape(ctx, x.shape, y.shape), LAMBDA same :
  Then(SpineStep(ctx, headTy, x.shape, x.addr), LAMBDA step :
  Then(ConvAddr(ctx, step.arg, x.addr, y.addr), LAMBDA addrSame :
    ConvAnd(same /\ addrSame, ConvSpines(ctx, step.next, xs, ys)))))

ConvSpines(ctx, headTy, xs, ys) ==
  CASE xs = <<>> \/ ys = <<>> -> Done(xs = ys)
    [] xs # <<>> /\ ys # <<>> /\ Head(xs).kind # Head(ys).kind -> No
    [] xs # <<>> /\ ys # <<>> /\ Head(xs).kind = "out" /\ Head(ys).kind = "out" ->
         ConvOutFrame(ctx, headTy, Head(xs), Head(ys), Tail(xs), Tail(ys))
    [] xs # <<>> /\ ys # <<>> /\ Head(xs).kind = "elim" /\ Head(ys).kind = "elim" ->
         Then(ConvStuck(ctx, Head(xs).data, Head(ys).data), LAMBDA same :
           ConvAnd(same, ConvSpines(ctx, Placeholder, Tail(xs), Tail(ys))))

-----------------------------------------------------------------------------
(* By form.                                                                *)
LevelOr(level) == IF level = None THEN L!LZero ELSE level[1]
ConvAnnotations(ctx, shape, u1, u2) ==
  shape.kind = "coll" /\ shape.count = 0 => SameLevel(ctx.arity, LevelOr(u1), LevelOr(u2))

ConvDiagram(ctx, shape, d1, d2) ==
  LET binds == DiagramArity(shape) = 1
      args == IF binds THEN <<LocalVar(ctx.size)>> ELSE <<>>
      inner == IF binds THEN Bind(shape.q, shape.args[1], ctx) ELSE ctx
  IN Then(Open(ctx, d1, args), LAMBDA a :
     Then(Open(ctx, d2, args), LAMBDA b : ConvType(inner, a, b)))

ConvFormers(ctx, a, b) ==
  Then(Supported(a.shape), LAMBDA ok :
  Then(ConvShape(ctx, a.shape, b.shape), LAMBDA same :
    ConvAnd(same /\ ConvAnnotations(ctx, a.shape, a.level, b.level),
            ConvDiagram(ctx, a.shape, a.clo, b.clo))))

ConvNeutrals(ctx, a, b) ==
  IF a.head # b.head THEN No
  ELSE Then(HeadTy(ctx, a.head), LAMBDA ty : ConvSpines(ctx, ty, a.spine, b.spine))

StructuralWhnf(ctx, a, b) ==
  CASE a.kind # b.kind -> No
    [] a.kind = "univ" /\ b.kind = "univ" -> Done(SameLevel(ctx.arity, a.level, b.level))
    [] a.kind = "lit" /\ b.kind = "lit" -> Done(a.lit = b.lit)
    [] a.kind = b.kind /\ a.kind \in {"ran", "lan"} -> ConvFormers(ctx, a, b)
    [] a.kind = "in" /\ b.kind = "in" ->
         Then(ConvShape(ctx, a.shape, b.shape), LAMBDA same :
         Then(ConvAddr(ctx, None, a.addr, b.addr), LAMBDA addrSame :
           ConvAnd(same /\ addrSame, ConvList(ctx, a.args, b.args))))
    [] a.kind = "sec" /\ b.kind = "sec" ->
         Then(ConvShape(ctx, a.shape, b.shape), LAMBDA same : ConvAnd(same, ConvLegs(ctx, a.legs, b.legs)))
    [] a.kind = "neutral" /\ b.kind = "neutral" -> ConvNeutrals(ctx, a, b)

\* Values that differ by form are unfolded, those that can be, and compared again.
DeltaRetry(ctx, same, a, b) ==
  IF same THEN Yes
  ELSE Then(UnfoldStep(ctx.g, a), LAMBDA ua :
       Then(UnfoldStep(ctx.g, b), LAMBDA ub :
         IF ua = None /\ ub = None THEN No
         ELSE ConvType(ctx, IF ua = None THEN a ELSE ua[1], IF ub = None THEN b ELSE ub[1])))

Structural(ctx, a, b) ==
  Then(WhnfCore(ctx.g, a), LAMBDA wa :
  Then(WhnfCore(ctx.g, b), LAMBDA wb :
  Then(StructuralWhnf(ctx, wa, wb), LAMBDA same : DeltaRetry(ctx, same, wa, wb))))

ConvType(ctx, a, b) == Structural(ctx, a, b)

-----------------------------------------------------------------------------
(* At a type.                                                              *)
PropProbe(ctx, ty) ==
  Then(Quote(ctx.g, ctx.size, ty), LAMBDA term :
  Then(InferUniv(ctx, term), LAMBDA level : Done(AlwaysZero(level))))

\* A type that cannot be looked at is not a proposition.
IsProp(ctx, ty) ==
  IF ty.kind = "univ" THEN FALSE ELSE LET probe == PropProbe(ctx, ty) IN probe.ok /\ probe.val

ZeroFamily(family) == AlwaysZero(family.level) /\ MuZeroEliminable(family)
Subsingleton(ctx, w) ==
  CASE w.kind # "lan" -> No
    [] w.kind = "lan" /\ w.shape.kind = "mu" ->
         LET family == MuFamily(ctx, w.shape.name)
         IN Done(IF family.ok THEN ZeroFamily(family.val) ELSE FALSE)
    [] OTHER -> Then(Supported(w.shape), LAMBDA ok : No)

\* The two halves of a pair, by elimination.
ProjBranches(q, which) ==
  <<Branch(ALeg(0), Leg(<<q, Many>>, TVar(IF which = 0 THEN 1 ELSE 0)))>>
Project(ctx, shape, motive, which, value) ==
  ElimValue(ctx.g, StuckElim(shape, One, motive, ProjBranches(shape.q, which), ctx.env), value)

SelfMotive(body) == Just(Motive(None, 0, body))
ProjMotiveBody(ctx, shape, clo, which) ==
  IF which = 0 THEN Done(shape.args[1])
  ELSE Then(Quote(ctx.g, ctx.size + 1, shape.args[1]), LAMBDA domain :
       Then(Project(ctx, shape, SelfMotive(domain), 0, LocalVar(ctx.size)), LAMBDA point :
         Open(ctx, clo, <<point>>)))
ProjMotive(ctx, shape, clo, which) ==
  Then(ProjMotiveBody(ctx, shape, clo, which), LAMBDA body :
  Then(Quote(ctx.g, ctx.size + 1, body), LAMBDA term : Done(SelfMotive(term))))

EtaPairSecond(ctx, shape, clo, point, a, b) ==
  Then(Open(ctx, clo, <<point>>), LAMBDA cod :
  Then(ProjMotive(ctx, shape, clo, 1), LAMBDA motive :
  Then(Project(ctx, shape, motive, 1, a), LAMBDA a2 :
  Then(Project(ctx, shape, motive, 1, b), LAMBDA b2 : Conv(ctx, cod, a2, b2)))))

\* Mistake: the second halves are not looked at.
EtaPairFirst(ctx, shape, clo, a, b) ==
  Then(ProjMotive(ctx, shape, clo, 0), LAMBDA motive :
  Then(Project(ctx, shape, motive, 0, a), LAMBDA a1 :
  Then(Project(ctx, shape, motive, 0, b), LAMBDA b1 : Conv(ctx, shape.args[1], a1, b1))))

EtaPair(ctx, shape, clo, a, b) ==
  Then(ProjMotive(ctx, shape, clo, 0), LAMBDA motive :
  Then(Project(ctx, shape, motive, 0, a), LAMBDA a1 :
  Then(Project(ctx, shape, motive, 0, b), LAMBDA b1 :
  Then(Conv(ctx, shape.args[1], a1, b1), LAMBDA same :
    ConvAnd(same, EtaPairSecond(ctx, shape, clo, a1, a, b))))))

RECURSIVE EtaColl(_, _, _, _, _, _)
EtaColl(ctx, index, shape, legs, a, b) ==
  IF index >= shape.count THEN Yes
  ELSE Then(CollLegTy(ctx, legs, index), LAMBDA ty :
       Then(OutValue(ctx.g, shape, ALeg(index), a), LAMBDA x :
       Then(OutValue(ctx.g, shape, ALeg(index), b), LAMBDA y :
       Then(Conv(ctx, ty, x, y), LAMBDA same :
         ConvAnd(same, EtaColl(ctx, index + 1, shape, legs, a, b))))))

EtaFunction(ctx, w, a, b) ==
  LET fresh == LocalVar(ctx.size)
      at == APt(w.shape.q, fresh)
  IN Then(Open(ctx, w.clo, <<fresh>>), LAMBDA cod :
     Then(OutValue(ctx.g, w.shape, at, a), LAMBDA fa :
     Then(OutValue(ctx.g, w.shape, at, b), LAMBDA fb :
       Conv(Bind(w.shape.q, w.shape.args[1], ctx), cod, fa, fb))))

EtaOrStructural(ctx, w, a, b) ==
  CASE w.kind = "ran" /\ w.shape.kind = "pi" -> EtaFunction(ctx, w, a, b)
    [] w.kind = "ran" /\ w.shape.kind = "coll" ->
         Then(CollLegsOf(ctx, w.clo), LAMBDA legs : EtaColl(ctx, 0, w.shape, legs, a, b))
    [] w.kind = "lan" /\ w.shape.kind = "pi" -> EtaPair(ctx, w.shape, w.clo, a, b)
    [] w.kind \in {"ran", "lan"} /\ w.shape.kind \in {"par", "nu"} -> Fail("not_yet")
    [] OTHER -> Structural(ctx, a, b)

ConvAfterQuick(ctx, w, a, b) ==
  IF IsProp(ctx, w) THEN Yes
  ELSE Then(Subsingleton(ctx, w), LAMBDA single : IF single THEN Yes ELSE EtaOrStructural(ctx, w, a, b))

Conv(ctx, ty, a, b) ==
  Then(WhnfIn(ctx, ty), LAMBDA w :
    IF w.kind = "univ" THEN Structural(ctx, a, b)
    ELSE Then(WhnfCore(ctx.g, a), LAMBDA wa :
         Then(WhnfCore(ctx.g, b), LAMBDA wb :
         Then(StructuralWhnf(ctx, wa, wb), LAMBDA quick :
           IF quick THEN Yes ELSE ConvAfterQuick(ctx, w, a, b)))))
=============================================================================
