------------------------------ MODULE ElabTerm ------------------------------
(***************************************************************************)
(* surface/elab_term.c: from the terms of the source text to the terms of  *)
(* the kernel.  Names become indices, or globals; what an expected type    *)
(* says is filled in; the type of what is applied or taken apart is        *)
(* inferred.  The checker judges the result afterwards.                    *)
(*                                                                         *)
(* A context is one of the checker with the names of its locals, the       *)
(* innermost first.  An expected type that may be absent is a sequence of  *)
(* at most one value.                                                      *)
(***************************************************************************)
EXTENDS ElabGroups

CONSTANT FamilyOrder  \* the names of families, in the order of strings

-----------------------------------------------------------------------------
(* The terms of the source text.                                           *)
SBinder(q, name, ty) == [q |-> q, name |-> name, ty |-> ty]
SField(q, name, ty) == [q |-> q, name |-> name, ty |-> ty]  \* ty may be absent
SMotive(ind, indices, self, body) == [ind |-> ind, indices |-> indices, self |-> self, body |-> body]
SBranchLeg(index, binders, body) == [kind |-> "leg", index |-> index, binders |-> binders, body |-> body]
SBranchCtor(name, fields, body) == [kind |-> "ctor", name |-> name, fields |-> fields, body |-> body]

Var(name) == [kind |-> "var", name |-> name]
NatLit(n) == [kind |-> "nat", nat |-> n]
Prop == [kind |-> "prop"]
Type(n) == [kind |-> "type", nat |-> n]
Sort(universe) == [kind |-> "sort", sort |-> universe]
PrimOp(name) == [kind |-> "prim", prim |-> name]
Unit == [kind |-> "unit"]
Auto == [kind |-> "auto"]
SPair(left, right) == [kind |-> "pair", left |-> left, right |-> right]
Items(kind, items) == [kind |-> kind, items |-> items]  \* "tuple", "sum", "prod"
Proj(head, index) == [kind |-> "proj", head |-> head, index |-> index]
Inj(index, count, value) == [kind |-> "inj", index |-> index, count |-> count, value |-> value]
Absurd(value) == [kind |-> "absurd", value |-> value]
App(head, arg) == [kind |-> "app", head |-> head, arg |-> arg]
SFun(binders, body) == [kind |-> "fun", binders |-> binders, body |-> body]
Group(kind, binder, body) == [kind |-> kind, binder |-> binder, body |-> body]  \* "arrow", "star", "zk_ty"
Prove(key, witness, relation) == [kind |-> "prove", key |-> key, witness |-> witness, relation |-> relation]
Verify(key, proof) == [kind |-> "verify", key |-> key, proof |-> proof]
FhcTy(level, ty) == [kind |-> "fhc_ty", level |-> level, ty |-> ty]
Enc(key, value) == [kind |-> "enc", key |-> key, value |-> value]
EvalCipher(function, value) == [kind |-> "eval", key |-> function, value |-> value]
Dec(key, value) == [kind |-> "dec", key |-> key, value |-> value]
MpcTy(parties, access, ty) == [kind |-> "mpc_ty", parties |-> parties, access |-> access, ty |-> ty]
Share(value) == [kind |-> "share", value |-> value]
InputOf(party, value) == [kind |-> "input", party |-> party, value |-> value]
JoinShares(parties, function, items) ==
  [kind |-> "join", parties |-> parties, function |-> function, items |-> items]
OpenShare(q, parties, proof, value) ==
  [kind |-> "open", quantity |-> q, parties |-> parties, proof |-> proof, value |-> value]
Let(name, ty, value, body) == [kind |-> "let", name |-> name, ty |-> ty, value |-> value, body |-> body]
Ann(value, ty) == [kind |-> "ann", value |-> value, ty |-> ty]
CaseTerm(kind, scrut, motive, branches) ==                \* "case", "match"
  [kind |-> kind, scrut |-> scrut, motive |-> motive, branches |-> branches]

RECURSIVE Lower(_), SpineOf(_, _)
\* A universe of the source text as a level.
Lower(universe) ==
  CASE universe.kind = "nat" ->
         IF universe.value < 0 THEN Fail("universe") ELSE Done(L!Offset(universe.value, L!LZero))
    [] universe.kind = "var" -> Done(L!LVar(universe.index))
    [] universe.kind = "succ" -> Then(Lower(universe.left), LAMBDA level : Done(L!Offset(1, level)))
    [] universe.kind \in {"max", "imax"} ->
         Then(Lower(universe.left), LAMBDA left : Then(Lower(universe.right), LAMBDA right :
           Done(IF universe.kind = "max" THEN L!LMax(left, right) ELSE L!LIMax(left, right))))
UnivOf(universe) == Then(Lower(universe), LAMBDA level : Done(TUniv(level)))

SpineOf(term, args) ==
  IF term.kind = "app" THEN SpineOf(term.head, Cons(term.arg, args)) ELSE [head |-> term, args |-> args]

-----------------------------------------------------------------------------
(* Names.  A local shadows a family, a family shadows a constructor, and a *)
(* constructor shadows a global.                                           *)
SurfaceCtx(g, levels) ==
  [g |-> g, env |-> <<>>, locals |-> <<>>, size |-> 0, arity |-> levels, checked |-> FALSE, names |-> <<>>]
BindName(name, q, ty, ctx) == [Bind(q, ty, ctx) EXCEPT !.names = Cons(name, @)]
DefineName(name, q, ty, value, ctx) == [Define(q, ty, value, ctx) EXCEPT !.names = Cons(name, @)]

NamedAt(name, ctx) == {i \in DOMAIN ctx.names : ctx.names[i] = name}
\* Mistake: the outermost of the locals with that name.
IndexOfOuter(name, ctx) ==
  LET at == NamedAt(name, ctx)
  IN IF at = {} THEN None ELSE Just((CHOOSE i \in at : \A j \in at : j <= i) - 1)
IndexOfName(name, ctx) ==
  LET at == NamedAt(name, ctx)
  IN IF at = {} THEN None ELSE Just((CHOOSE i \in at : \A j \in at : i <= j) - 1)

FamilyRef(family) == [kind |-> "family", family |-> family]
CtorRef(family, ctor) == [kind |-> "ctor", family |-> family, ctor |-> ctor]

\* The constructor of that name of the least family that has one.
Position(name) == CHOOSE i \in DOMAIN FamilyOrder : FamilyOrder[i] = name
FindCtor(name, g) ==
  LET having == {f \in DOMAIN g.families : CtorOf(name, g.families[f]) # None}
      least == g.families[CHOOSE f \in having : \A h \in having : Position(f) <= Position(h)]
  IN IF having = {} THEN None ELSE Just(CtorRef(least, CtorOf(name, least)[1]))
MuRefOf(name, ctx) ==
  LET family == FindFamily(name, ctx.g)
  IN CASE IndexOfName(name, ctx) # None -> None
       [] IndexOfName(name, ctx) = None /\ family # None -> Just(FamilyRef(family[1]))
       [] OTHER -> FindCtor(name, ctx.g)

\* The family of the expected type has the first say.
ExpectedFamily(expected, ctx) ==
  LET got == IF expected = None THEN Fail("absent") ELSE WhnfIn(ctx, expected[1])
  IN IF got.ok /\ got.val.kind = "lan" /\ got.val.shape.kind = "mu" THEN FindFamily(got.val.shape.name, ctx.g)
     ELSE None
\* Mistake: the constructor of the least family, whatever is expected.
CtorOfLeast(reference, expected, ctx) == reference
CtorIn(reference, expected, ctx) ==
  LET family == ExpectedFamily(expected, ctx)
      own == IF family = None THEN None ELSE CtorOf(reference.ctor.name, family[1])
  IN IF own = None THEN reference ELSE CtorRef(family[1], own[1])

-----------------------------------------------------------------------------
(* Views of expected and of inferred types.                                *)
FormerOf(ctx, kind, value) == FormerView(ctx, kind, value)
ExpectedFormer(ctx, kind, expected) ==
  Then(Require(expected # None, "cannot_infer"), LAMBDA given : FormerOf(ctx, kind, expected[1]))
InferType(ctx, term) == Then(InferUses(ctx, Zero, term), LAMBDA got : Done(got.ty))
TypeOf(ctx, term) == Then(InferType(ctx, term), LAMBDA ty : WhnfIn(ctx, ty))
TypeFormer(ctx, kind, term) == Then(TypeOf(ctx, term), LAMBDA ty : FormerOf(ctx, kind, ty))

ZkPoint(shape) == IF shape.kind = "zk" THEN ViewPoint(shape) ELSE Fail("mismatch")
CipherLevel(shape) == IF shape.kind = "fhc" THEN Done(shape.args[1]) ELSE Fail("mismatch")
SharedShape(shape) == IF shape.kind = "mpc" THEN Done([parties |-> shape.args[1], access |-> shape.args[2]]) ELSE Fail("mismatch")
ArityIs(want, got) == Require(want = got, "mismatch")
QuoteIn(ctx, value) == Quote(ctx.g, ctx.size, value)
QuoteValues(ctx, values) == Collect([i \in DOMAIN values |-> QuoteIn(ctx, values[i])])

\* The types of the legs of a collection of that many, if that is what is expected.
NoExpectations(count) == [i \in 1..count |-> None]
LegTypes(ctx, former, count) ==
  Then(CollLegsOf(ctx, former.clo), LAMBDA legs :
  Then(Require(count <= Len(legs), "wrong_leg"), LAMBDA enough :
    Collect([i \in 1..count |-> Then(Open(ctx, legs[i].clo, <<>>), LAMBDA ty : Done(Just(ty)))])))
LegExpectations(ctx, kind, expected, count) ==
  IF expected = None THEN Done(NoExpectations(count))
  ELSE Then(WhnfIn(ctx, expected[1]), LAMBDA v :
         IF v.kind = kind /\ v.shape.kind = "coll" /\ v.shape.count = count THEN LegTypes(ctx, v, count)
         ELSE Done(NoExpectations(count)))
InjectionExpectations(ctx, expected, count) ==
  Then(Require(count >= 0, "mismatch"), LAMBDA counted : LegExpectations(ctx, "lan", expected, count))

-----------------------------------------------------------------------------
RECURSIVE Elab(_, _, _), ElabFun(_, _, _, _), ElabCtorFields(_, _, _, _, _), BindFields(_, _, _, _, _)

ElabTerms(ctx, terms) == Collect([i \in DOMAIN terms |-> Elab(ctx, None, terms[i])])
ElabTypedItems(ctx, items, expectations) ==
  Collect([i \in DOMAIN items |-> Elab(ctx, expectations[i], items[i])])

ElabTuple(ctx, expected, items) ==
  Then(LegExpectations(ctx, "ran", expected, Len(items)), LAMBDA expectations :
  Then(ElabTypedItems(ctx, items, expectations), LAMBDA terms : Done(DiagramOf(terms))))

ElabInj(ctx, expected, s) ==
  Then(InjectionExpectations(ctx, expected, s.count), LAMBDA expectations :
    LET at == IF s.index + 1 \in DOMAIN expectations THEN expectations[s.index + 1] ELSE None
    IN Then(Elab(ctx, at, s.value), LAMBDA value : Done(TIn(SColl(s.count), ALeg(s.index), <<value>>))))

ElabPair(ctx, expected, s) ==
  Then(ExpectedFormer(ctx, "lan", expected), LAMBDA former :
  Then(ViewPoint(former.shape), LAMBDA point :
  Then(Elab(ctx, Just(point.dom), s.left), LAMBDA left :
  Then(Eval(ctx, left), LAMBDA value :
  Then(Open(ctx, former.clo, <<value>>), LAMBDA fibre :
  Then(Elab(ctx, Just(fibre), s.right), LAMBDA right :
  Then(QuoteIn(ctx, point.dom), LAMBDA domain :
    Done(TIn(SPi(point.q, domain), APt(point.q, left), <<right>>)))))))))

-----------------------------------------------------------------------------
(* Functions and the types over a binder.                                  *)
ElabBinder(ctx, binder) ==
  Then(Elab(ctx, None, binder.ty), LAMBDA ty :
  Then(Eval(ctx, ty), LAMBDA value :
    Done([q |-> binder.q, ty |-> ty, ctx |-> BindName(binder.name, binder.q, value, ctx)])))

\* What is expected of the body of a function.
CodOf(ctx, expected) ==
  IF expected = None THEN Done(None)
  ELSE Then(WhnfIn(ctx, expected[1]), LAMBDA v :
         IF v.kind = "ran" /\ v.shape.kind \in {"pi", "zk"}
         THEN Then(Open(ctx, v.clo, <<LocalVar(ctx.size)>>), LAMBDA cod : Done(Just(cod)))
         ELSE Done(None))

ElabFun(ctx, expected, binders, body) ==
  IF binders = <<>> THEN Elab(ctx, expected, body)
  ELSE Then(ElabBinder(ctx, Head(binders)), LAMBDA bound :
       Then(CodOf(ctx, expected), LAMBDA cod :
       Then(ElabFun(bound.ctx, cod, Tail(binders), body), LAMBDA inside :
         Done(TSec(SPi(bound.q, bound.ty), <<Leg(<<bound.q>>, inside)>>)))))

GroupTerm(kind, bound, body) ==
  CASE kind = "arrow" -> TRan(SPi(bound.q, bound.ty), body)
    [] kind = "star" -> TLan(SPi(bound.q, bound.ty), body)
    [] kind = "zk_ty" -> TLan(SZk(bound.q, bound.ty), body)
ElabGroup(ctx, s) ==
  Then(ElabBinder(ctx, s.binder), LAMBDA bound :
  Then(Elab(bound.ctx, None, s.body), LAMBDA body : Done(GroupTerm(s.kind, bound, body))))

ElabAppPoint(ctx, s) ==
  Then(Elab(ctx, None, s.head), LAMBDA head :
  Then(TypeFormer(ctx, "ran", head), LAMBDA former :
  Then(ViewPoint(former.shape), LAMBDA point :
  Then(Elab(ctx, Just(point.dom), s.arg), LAMBDA arg : Done(TOut(SArg(point.q), APt(point.q, arg), head))))))

-----------------------------------------------------------------------------
(* Families and constructors.                                              *)
ElabFamRef(ctx, family, args) ==
  LET params == Len(family.params)
  IN Then(ArityIs(params + Len(family.indices), Len(args)), LAMBDA counted :
     Then(ElabTerms(ctx, args), LAMBDA terms :
       Done(TLan(SMu(family.name, SubSeq(terms, params + 1, Len(terms))), DiagramOf(SubSeq(terms, 1, params))))))

CtorParamEnv(ctx, expected, family) ==
  IF family.params = <<>> THEN Done(<<>>)
  ELSE Then(ExpectedFormer(ctx, "lan", expected), LAMBDA former :
       Then(Require(Family(former.shape) = Just(family.name) /\ former.shape.kind = "mu", "mismatch"), LAMBDA same :
         MuParamEnv(ctx, former.clo)))

ElabCtorFields(ctx, tele, args, env, terms) ==
  IF tele = <<>> THEN Done([terms |-> terms, env |-> env])
  ELSE Then(Evaluate(ctx.g, env, Head(tele).ty), LAMBDA ty :
       Then(Elab(ctx, Just(ty), Head(args)), LAMBDA term :
       Then(Eval(ctx, term), LAMBDA value :
         ElabCtorFields(ctx, Tail(tele), Tail(args), Cons(value, env), Append(terms, term)))))

ElabCtorRef(ctx, expected, reference, args) ==
  LET resolved == CtorIn(reference, expected, ctx)
      family == resolved.family
      ctor == resolved.ctor
  IN Then(ArityIs(Len(ctor.args), Len(args)), LAMBDA counted :
     Then(CtorParamEnv(ctx, expected, family), LAMBDA penv :
     Then(ElabCtorFields(ctx, ctor.args, args, penv, <<>>), LAMBDA fields :
     Then(EvalList(ctx.g, fields.env, ctor.res_idx), LAMBDA values :
     Then(QuoteValues(ctx, values), LAMBDA indices :
       Done(TIn(SMu(family.name, indices), ACtor(ctor.name), fields.terms)))))))

ElabMuRef(ctx, expected, reference, args) ==
  IF reference.kind = "family" THEN ElabFamRef(ctx, reference.family, args)
  ELSE ElabCtorRef(ctx, expected, reference, args)

ElabName(ctx, expected, name) ==
  LET reference == MuRefOf(name, ctx)
      index == IndexOfName(name, ctx)
  IN CASE reference # None -> ElabMuRef(ctx, expected, reference[1], <<>>)
       [] reference = None /\ index # None -> Done(TVar(index[1]))
       [] OTHER -> Done(TGlobal(name))

ElabApp(ctx, expected, s) ==
  LET spine == SpineOf(s, <<>>)
      reference == IF spine.head.kind = "var" THEN MuRefOf(spine.head.name, ctx) ELSE None
  IN IF reference # None THEN ElabMuRef(ctx, expected, reference[1], spine.args) ELSE ElabAppPoint(ctx, s)

-----------------------------------------------------------------------------
(* Ciphertexts, shares and proofs.                                         *)
ElabCipher(ctx, expected, s) ==
  Then(ExpectedFormer(ctx, "ran", expected), LAMBDA former :
  Then(CipherLevel(former.shape), LAMBDA levelValue :
  Then(Open(ctx, former.clo, <<>>), LAMBDA ty :
  Then(Elab(ctx, None, s.key), LAMBDA left :
  Then(Elab(ctx, IF s.kind = "eval" THEN None ELSE Just(ty), s.value), LAMBDA right :
  Then(QuoteIn(ctx, levelValue), LAMBDA level : Done(TSec(SFhc(level), TermLegs(<<left, right>>)))))))))

ElabDec(ctx, s) ==
  Then(Elab(ctx, None, s.key), LAMBDA key :
  Then(Elab(ctx, None, s.value), LAMBDA cipher :
  Then(TypeFormer(ctx, "ran", cipher), LAMBDA former :
  Then(CipherLevel(former.shape), LAMBDA levelValue :
  Then(QuoteIn(ctx, levelValue), LAMBDA level : Done(TOut(SFhc(level), APt(One, key), cipher)))))))

MpcExpect(ctx, expected) ==
  Then(ExpectedFormer(ctx, "ran", expected), LAMBDA former :
  Then(SharedShape(former.shape), LAMBDA mpc :
  Then(QuoteIn(ctx, mpc.parties), LAMBDA parties :
  Then(QuoteIn(ctx, mpc.access), LAMBDA access :
  Then(Open(ctx, former.clo, <<>>), LAMBDA ty :
    Done([shape |-> SMpc(parties, access), parties |-> mpc.parties, ty |-> ty]))))))
MpcSec(mpc, terms) == TSec(mpc.shape, TermLegs(terms))

ElabShare(ctx, expected, s) ==
  Then(MpcExpect(ctx, expected), LAMBDA mpc :
  Then(Elab(ctx, Just(mpc.ty), s.value), LAMBDA value : Done(MpcSec(mpc, <<value>>))))
ElabInput(ctx, expected, s) ==
  Then(MpcExpect(ctx, expected), LAMBDA mpc :
  Then(Elab(ctx, Just(mpc.parties), s.party), LAMBDA party :
  Then(Elab(ctx, Just(mpc.ty), s.value), LAMBDA value : Done(MpcSec(mpc, <<party, value>>)))))

\* The type of a set of the parties, as a term and as a value.
SubsetTy(ctx, parties) ==
  Then(MpcParties(ctx, parties), LAMBDA count :
  Then(MpcSubTy(count), LAMBDA subset :
  Then(Eval(ctx, subset), LAMBDA value : Done([term |-> subset, value |-> value]))))
ElabJoin(ctx, expected, s) ==
  Then(MpcExpect(ctx, expected), LAMBDA mpc :
  Then(SubsetTy(ctx, mpc.parties), LAMBDA subset :
  Then(Elab(ctx, Just(subset.value), s.parties), LAMBDA parties :
  Then(Elab(ctx, None, s.function), LAMBDA function :
  Then(ElabTerms(ctx, s.items), LAMBDA shares : Done(MpcSec(mpc, <<parties, function>> \o shares)))))))

ProofQuantity(quantity) == IF quantity = None THEN Zero ELSE quantity[1]
ElabOpen(ctx, s) ==
  Then(Elab(ctx, None, s.value), LAMBDA share :
  Then(TypeFormer(ctx, "ran", share), LAMBDA former :
  Then(SharedShape(former.shape), LAMBDA mpc :
  Then(SubsetTy(ctx, mpc.parties), LAMBDA subset :
  Then(Elab(ctx, Just(subset.value), s.parties), LAMBDA parties :
  Then(Elab(ctx, None, s.proof), LAMBDA proof :
  Then(QuoteIn(ctx, mpc.parties), LAMBDA all :
  Then(QuoteIn(ctx, mpc.access), LAMBDA access :
    LET inner == TIn(SPi(Zero, subset.term), APt(Zero, parties), <<proof>>)
    IN Done(TOut(SMpc(all, access), APt(ProofQuantity(s.quantity), inner), share))))))))))

ElabProve(ctx, expected, s) ==
  Then(ExpectedFormer(ctx, "lan", expected), LAMBDA former :
  Then(ZkPoint(former.shape), LAMBDA point :
  Then(Elab(ctx, None, s.key), LAMBDA instance :
  Then(TypeOf(ctx, instance), LAMBDA typed :
  Then(Elab(ctx, Just(point.dom), s.witness), LAMBDA witness :
  Then(Eval(ctx, witness), LAMBDA value :
  Then(Open(ctx, former.clo, <<value>>), LAMBDA relationTy :
  Then(Elab(ctx, Just(relationTy), s.relation), LAMBDA relation :
  Then(QuoteIn(ctx, point.dom), LAMBDA domain :
    Done(TIn(SZk(point.q, domain), APt(point.q, witness), <<relation, instance>>)))))))))))

OneBranch(binders, body) == <<Branch(ALeg(0), Leg(binders, body))>>
\* The relation that was proved, of the witness that the branch binds.
ElabVerify(ctx, s) ==
  Then(Elab(ctx, None, s.key), LAMBDA instance :
  Then(TypeOf(ctx, instance), LAMBDA typed :
  Then(Elab(ctx, None, s.proof), LAMBDA proof :
  Then(TypeFormer(ctx, "lan", proof), LAMBDA former :
  Then(ZkPoint(former.shape), LAMBDA point :
  Then(QuoteIn(ctx, point.dom), LAMBDA domain :
  Then(Open(ctx, former.clo, <<LocalVar(ctx.size)>>), LAMBDA relationTy :
  Then(Quote(ctx.g, ctx.size + 2, relationTy), LAMBDA relation :
    Done(TElim(SZk(point.q, domain), proof, One, SelfMotive(TUniv(L!LZero)),
               OneBranch(<<point.q, Zero>>, relation)))))))))))

-----------------------------------------------------------------------------
(* Projections: .1 and .2 of a pair, whose second type depends on the      *)
(* first projection, and the members of a tuple.                           *)
ProjectionIndex(index) == IF index \in {1, 2} THEN Done(index - 1) ELSE Fail("wrong_leg")
ProjBranch(q, which) == OneBranch(<<q, Many>>, TVar(1 - which))

ProjectionBody(ctx, which, former, point) ==
  IF which = 0 THEN Done(point.dom)
  ELSE Then(Quote(ctx.g, ctx.size + 1, point.dom), LAMBDA domain :
       Then(ElimValue(ctx.g, StuckElim(former.shape, One, SelfMotive(domain), ProjBranch(point.q, 0), ctx.env),
                      LocalVar(ctx.size)), LAMBDA first : Open(ctx, former.clo, <<first>>)))

ElabPairProj(ctx, scrut, former, index) ==
  Then(ViewPoint(former.shape), LAMBDA point :
  Then(ProjectionIndex(index), LAMBDA which :
  Then(ProjectionBody(ctx, which, former, point), LAMBDA ty :
  Then(Quote(ctx.g, ctx.size + 1, ty), LAMBDA body :
  Then(QuoteIn(ctx, point.dom), LAMBDA domain :
    Done(TElim(SPi(point.q, domain), scrut, One, SelfMotive(body), ProjBranch(point.q, which))))))))

ElabProj(ctx, s) ==
  Then(Elab(ctx, None, s.head), LAMBDA scrut :
  Then(TypeOf(ctx, scrut), LAMBDA ty :
    CASE ty.kind = "lan" -> ElabPairProj(ctx, scrut, ty, s.index)
      [] ty.kind = "ran" /\ ty.shape.kind = "coll" -> Done(TOut(SColl(ty.shape.count), ALeg(s.index), scrut))
      [] OTHER -> Fail("mismatch")))

-----------------------------------------------------------------------------
(* Taking sums and families apart.                                         *)
BranchTarget(ctx, motive, expected, indices, self) ==
  IF motive = None THEN Done(expected)
  ELSE Then(MuResult(ctx, motive[1], indices, self), LAMBDA target : Done(Just(target)))

ElabMotive(ctx, motive, ty) ==
  IF motive = None THEN Done(None)
  ELSE Then(Require(motive[1].ind = None, "mismatch"), LAMBDA plain :
       Then(Elab(BindName(motive[1].self, Zero, ty, ctx), None, motive[1].body), LAMBDA body :
         Done(SelfMotive(body))))

CollBranchBody(ctx, shape, legs, motive, expected, branch) ==
  Then(OneOf(branch.binders, "missing_branch"), LAMBDA binder :
  Then(CollLegTy(ctx, legs, branch.index), LAMBDA ty :
  Then(BranchTarget(ctx, motive, expected, <<>>, VIn(shape, ALeg(branch.index), <<LocalVar(ctx.size)>>)), LAMBDA target :
  Then(Elab(BindName(binder.name, binder.q, ty, ctx), target, branch.body), LAMBDA body :
    Done(Branch(ALeg(branch.index), Leg(<<binder.q>>, body)))))))

ElabCollCase(ctx, expected, scrut, former, motive, branches) ==
  LET shape == SColl(former.shape.count)
  IN Then(CollLegsOf(ctx, former.clo), LAMBDA legs :
     Then(ElabMotive(ctx, motive, VLan(shape, former.clo, former.level)), LAMBDA made :
     Then(Collect([i \in DOMAIN branches |->
            Then(Require(branches[i].kind = "leg", "wrong_leg"), LAMBDA leg :
              CollBranchBody(ctx, shape, legs, made, expected, branches[i]))]), LAMBDA all :
       Done(TElim(shape, scrut, One, made, all)))))

RECURSIVE BindIndices(_, _, _, _, _)
BindIndices(ctx, tele, names, env, values) ==
  IF tele = <<>> THEN Done([ctx |-> ctx, values |-> values])
  ELSE LET fresh == LocalVar(ctx.size)
       IN Then(Evaluate(ctx.g, env, Head(tele).ty), LAMBDA ty :
            BindIndices(BindName(Head(names), Zero, ty, ctx), Tail(tele), Tail(names), Cons(fresh, env),
                        Append(values, fresh)))

ElabMuMotive(ctx, motive, former, family, penv) ==
  IF motive = None THEN Done(None)
  ELSE LET m == motive[1]
       IN Then(ArityIs(Len(family.indices), Len(m.indices)), LAMBDA counted :
          Then(BindIndices(ctx, family.indices, m.indices, penv, <<>>), LAMBDA bound :
            LET self == VLan(SMu(family.name, bound.values), former.clo, former.level)
            IN Then(Elab(BindName(m.self, Zero, self, bound.ctx), None, m.body), LAMBDA body :
                 Done(Just(Motive(m.ind, Len(m.indices), body))))))

\* The annotation of a field, if there is one, is the type that the constructor declares.
CheckFieldAnnotation(ctx, annotation, ty) ==
  IF annotation = None THEN Done("unit")
  ELSE Then(Elab(ctx, None, annotation[1]), LAMBDA term :
       Then(TypeIn(ctx, term), LAMBDA actual :
       Then(ConvType(ctx, actual, ty), LAMBDA agrees : Require(agrees, "mismatch"))))

BindFields(ctx, tele, fields, env, values) ==
  IF tele = <<>> THEN Done([ctx |-> ctx, env |-> env, values |-> values])
  ELSE LET field == Head(fields)
           fresh == LocalVar(ctx.size)
       IN Then(Evaluate(ctx.g, env, Head(tele).ty), LAMBDA ty :
          Then(CheckFieldAnnotation(ctx, field.ty, ty), LAMBDA agrees :
            BindFields(BindName(field.name, field.q, ty, ctx), Tail(tele), Tail(fields), Cons(fresh, env),
                       Append(values, fresh))))

FieldBinders(fields) == [i \in DOMAIN fields |-> fields[i].q]
ElabMuBranch(ctx, family, motive, penv, expected, branch) ==
  Then(Require(branch.kind = "ctor", "wrong_leg"), LAMBDA keyed :
    LET ctor == CtorOf(branch.name, family)
    IN Then(Require(ctor # None, "unbound"), LAMBDA known :
       Then(Require(Len(ctor[1].args) = Len(branch.fields), "missing_branch"), LAMBDA counted :
       Then(BindFields(ctx, ctor[1].args, branch.fields, penv, <<>>), LAMBDA bound :
       Then(EvalList(ctx.g, bound.env, ctor[1].res_idx), LAMBDA indices :
       Then(BranchTarget(ctx, motive, expected, indices,
                         VIn(SMu(family.name, indices), ACtor(branch.name), bound.values)), LAMBDA target :
       Then(Elab(bound.ctx, target, branch.body), LAMBDA body :
         Done(Branch(ACtor(branch.name), Leg(FieldBinders(branch.fields), body))))))))))

ElabMuCase(ctx, expected, scrut, former, motive, branches) ==
  LET found == FindFamily(former.shape.name, ctx.g)
  IN Then(Require(found # None, "unbound"), LAMBDA declared :
     Then(MuParamEnv(ctx, former.clo), LAMBDA penv :
     Then(ElabMuMotive(ctx, motive, former, found[1], penv), LAMBDA made :
     Then(Collect([i \in DOMAIN branches |->
            ElabMuBranch(ctx, found[1], made, penv, expected, branches[i])]), LAMBDA all :
     Then(QuoteValues(ctx, former.shape.args), LAMBDA indices :
       Done(TElim(SMu(former.shape.name, indices), scrut, One, made, all)))))))

ElabCase(ctx, expected, s) ==
  Then(Elab(ctx, None, s.scrut), LAMBDA scrut :
  Then(TypeOf(ctx, scrut), LAMBDA ty :
    CASE ty.kind = "lan" /\ ty.shape.kind = "mu" -> ElabMuCase(ctx, expected, scrut, ty, s.motive, s.branches)
      [] s.kind = "case" /\ ty.kind = "lan" /\ ty.shape.kind = "coll" ->
           ElabCollCase(ctx, expected, scrut, ty, s.motive, s.branches)
      [] OTHER -> Fail("mismatch")))

-----------------------------------------------------------------------------
ElabLet(ctx, expected, s) ==
  Then(Elab(ctx, None, s.ty), LAMBDA ty :
  Then(Eval(ctx, ty), LAMBDA tyv :
  Then(Elab(ctx, Just(tyv), s.value), LAMBDA term :
  Then(Eval(ctx, term), LAMBDA value :
  Then(Elab(DefineName(s.name, Many, tyv, value, ctx), expected, s.body), LAMBDA body :
    Done(TLet(ty, term, body)))))))
ElabAnn(ctx, s) ==
  Then(Elab(ctx, None, s.ty), LAMBDA ty :
  Then(Eval(ctx, ty), LAMBDA tyv :
  Then(Elab(ctx, Just(tyv), s.value), LAMBDA value : Done(TAnn(value, ty)))))
ElabFhcTy(ctx, s) ==
  Then(ElabTerms(ctx, <<s.level, s.ty>>), LAMBDA terms : Done(TRan(SFhc(terms[1]), terms[2])))
ElabMpcTy(ctx, s) ==
  Then(ElabTerms(ctx, <<s.parties, s.access, s.ty>>), LAMBDA terms :
    Done(TRan(SMpc(terms[1], terms[2]), terms[3])))

Elab(ctx, expected, s) ==
  CASE s.kind = "var" -> ElabName(ctx, expected, s.name)
    [] s.kind = "nat" -> Done(TLit(LInt(s.nat)))
    [] s.kind = "prop" -> Done(TUniv(L!LZero))
    [] s.kind = "type" -> UnivOf([kind |-> "nat", value |-> 1 + s.nat])
    [] s.kind = "sort" -> UnivOf(s.sort)
    [] s.kind = "prim" -> Done(TGlobal(s.prim))
    [] s.kind = "unit" -> Done(UnitVal)
    [] s.kind = "auto" -> Done(TAuto)
    [] s.kind = "pair" -> ElabPair(ctx, expected, s)
    [] s.kind = "tuple" -> ElabTuple(ctx, expected, s.items)
    [] s.kind = "sum" -> Then(ElabTerms(ctx, s.items), LAMBDA terms : Done(SumTy(terms)))
    [] s.kind = "prod" -> Then(ElabTerms(ctx, s.items), LAMBDA terms : Done(ProdTy(terms)))
    [] s.kind = "proj" -> ElabProj(ctx, s)
    [] s.kind = "inj" -> ElabInj(ctx, expected, s)
    [] s.kind = "absurd" -> Then(Elab(ctx, None, s.value), LAMBDA v : Done(TElim(SColl(0), v, One, None, <<>>)))
    [] s.kind = "app" -> ElabApp(ctx, expected, s)
    [] s.kind = "fun" -> ElabFun(ctx, expected, s.binders, s.body)
    [] s.kind \in {"arrow", "star", "zk_ty"} -> ElabGroup(ctx, s)
    [] s.kind = "prove" -> ElabProve(ctx, expected, s)
    [] s.kind = "verify" -> ElabVerify(ctx, s)
    [] s.kind = "fhc_ty" -> ElabFhcTy(ctx, s)
    [] s.kind \in {"enc", "eval"} -> ElabCipher(ctx, expected, s)
    [] s.kind = "dec" -> ElabDec(ctx, s)
    [] s.kind = "mpc_ty" -> ElabMpcTy(ctx, s)
    [] s.kind = "share" -> ElabShare(ctx, expected, s)
    [] s.kind = "input" -> ElabInput(ctx, expected, s)
    [] s.kind = "join" -> ElabJoin(ctx, expected, s)
    [] s.kind = "open" -> ElabOpen(ctx, s)
    [] s.kind = "let" -> ElabLet(ctx, expected, s)
    [] s.kind = "ann" -> ElabAnn(ctx, s)
    [] s.kind \in {"case", "match"} -> ElabCase(ctx, expected, s)

-----------------------------------------------------------------------------
(* Declarations.                                                           *)
RECURSIVE ElabTelescope(_, _, _), ElabChain(_, _, _)
ElabTelescope(binders, ctx, telescope) ==
  IF binders = <<>> THEN Done([telescope |-> telescope, ctx |-> ctx])
  ELSE Then(ElabBinder(ctx, Head(binders)), LAMBDA bound :
         ElabTelescope(Tail(binders), bound.ctx, Append(telescope, TeleBinder(bound.q, bound.ty))))

\* The arguments of a chain of arrows, and what it ends in.
ElabChain(syntax, ctx, telescope) ==
  IF syntax.kind # "arrow" THEN Done([telescope |-> telescope, body |-> syntax, ctx |-> ctx])
  ELSE Then(ElabBinder(ctx, syntax.binder), LAMBDA bound :
         ElabChain(syntax.body, bound.ctx, Append(telescope, TeleBinder(bound.q, bound.ty))))

HeaderUniverse(term) == IF term.kind = "univ" THEN Done(term.level) ELSE Fail("universe")

SFam(name, params, ty, ctors) == [name |-> name, params |-> params, ty |-> ty, ctors |-> ctors]
SFamCtor(name, ty) == [name |-> name, ty |-> ty]

ElabFamDecl(family, ctx) ==
  Then(ElabTelescope(family.params, ctx, <<>>), LAMBDA params :
  Then(ElabChain(family.ty, params.ctx, <<>>), LAMBDA indices :
  Then(Elab(indices.ctx, None, indices.body), LAMBDA header :
  Then(HeaderUniverse(header), LAMBDA level :
    Done(FamilyDecl(family.name, params.telescope, indices.telescope, level))))))

\* What a constructor of the family ends in: the family at parameters and indices.
CtorResult(term, name) ==
  Then(Require(term.kind = "lan" /\ term.shape.kind = "mu" /\ Family(term.shape) = Just(name), "mismatch"), LAMBDA same :
  Then(Require(term.body.kind = "sec", "mismatch"), LAMBDA diagram :
    Done([params |-> LegChildren(term.body.legs), indices |-> term.shape.args])))
ElabCtorDecl(ctor, ctx, name) ==
  Then(ElabChain(ctor.ty, ctx, <<>>), LAMBDA chain :
  Then(Elab(chain.ctx, None, chain.body), LAMBDA term :
  Then(CtorResult(term, name), LAMBDA result :
    Done(CtorDecl(ctor.name, chain.telescope, result.params, result.indices)))))
ElabCtorDecls(ctors, ctx, name) == Collect([i \in DOMAIN ctors |-> ElabCtorDecl(ctors[i], ctx, name)])

ElabDecl(decl, ctx) ==
  CASE decl.kind = "axiom" -> Then(Elab(ctx, None, decl.ty), LAMBDA ty : Done(Decl(decl.name, "postulate", ty, None)))
    [] decl.kind = "def" ->
         Then(Elab(ctx, None, decl.ty), LAMBDA ty :
         Then(Eval(ctx, ty), LAMBDA value :
         Then(Elab(ctx, Just(value), decl.body), LAMBDA body : Done(Decl(decl.name, "definition", ty, Just(body))))))
    [] OTHER -> Fail("mismatch")
=============================================================================
