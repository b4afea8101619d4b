------------------------------ MODULE Declare ------------------------------
(***************************************************************************)
(* kernel/positivity.c and check.c: declarations, inductive families and   *)
(* their constructors, over the checker.                                   *)
(*                                                                         *)
(* A family is declared in two steps.  DeclareFamily puts it into the      *)
(* globals as provisional, without constructors, so that the constructors' *)
(* types can mention it and the other families of its group; DefineCtors   *)
(* checks the constructors and completes it.  The budget, polled between   *)
(* the steps, is module Budget's.                                          *)
(***************************************************************************)
EXTENDS CheckEngine

TeleBinder(q, ty) == [q |-> q, ty |-> ty]
FamilyDecl(name, params, indices, level) ==
  [name |-> name, params |-> params, indices |-> indices, level |-> level]
CtorDecl(name, args, resParams, resIdx) ==
  [name |-> name, args |-> args, res_params |-> resParams, res_idx |-> resIdx]
Decl(name, kind, ty, body) == [name |-> name, kind |-> kind, ty |-> ty, body |-> body]

Provisional == [kind |-> "provisional"]
Complete(names) == [kind |-> "complete", names |-> names]

Put(name, value, f) == [n \in DOMAIN f \cup {name} |-> IF n = name THEN value ELSE f[n]]
AddEntry(name, entry, g) == [g EXCEPT !.entries = Put(name, entry, @)]
AddFamily(name, family, g) == [g EXCEPT !.families = Put(name, family, @)]

-----------------------------------------------------------------------------
(* Strict positivity of the families of group in the type of a field: they *)
(* occur only as the result of functions.                                  *)
Occurs(group, term) == ExistsName(TRUE, group, term)
Absent(group, term) == ~Occurs(group, term)
AbsentFromAll(group, terms) == \A i \in DOMAIN terms : Absent(group, terms[i])

RECURSIVE Positive(_, _)
PositiveLan(term, group) ==
  IF \E i \in DOMAIN Family(term.shape) : Family(term.shape)[i] \in group
  THEN AbsentFromAll(group, Payload(term.shape)) /\ Absent(group, term.body)
  ELSE Absent(group, term)
PositiveRan(term, group) ==
  IF PointDom(term.shape) = None THEN Absent(group, term)
  ELSE Absent(group, PointDom(term.shape)[1]) /\ Positive(term.body, group)
PositiveOut(term, group) ==
  IF PointDom(term.shape) = None \/ term.addr.kind # "pt" THEN Absent(group, term)
  ELSE Absent(group, term.addr.arg) /\ Positive(term.head, group)
Positive(term, group) ==
  CASE term.kind = "lan" -> PositiveLan(term, group)
    [] term.kind = "ran" -> PositiveRan(term, group)
    [] term.kind = "out" -> PositiveOut(term, group)
    [] term.kind \in {"global", "var", "univ", "lit", "auto"} -> TRUE
    [] OTHER -> Absent(group, term)

FieldsPositive(args, group) == \A i \in DOMAIN args : Positive(args[i].ty, group)
SelfRec(args, group) == \E i \in DOMAIN args : Occurs(group, args[i].ty)

-----------------------------------------------------------------------------
(* Declarations.                                                           *)

\* Whether the values of a type are types: a universe, or functions to one.
RECURSIVE TypeValued(_, _, _)
TypeValued(g, size, value) ==
  Then(Whnf(g, value), LAMBDA v :
    CASE v.kind = "univ" -> Done(TRUE)
      [] v.kind = "ran" /\ v.shape.kind = "pi" ->
           Then(OpenClosure(g, v.clo, <<LocalVar(size)>>), LAMBDA cod : TypeValued(g, size + 1, cod))
      [] OTHER -> Done(FALSE))

\* A definition of a type is erased and may read erased variables.
CheckDefinition(ctx, ty, body, tyv) ==
  Then(Require(body # None, "cannot_infer"), LAMBDA given :
  Then(TypeValued(ctx.g, 0, tyv), LAMBDA erased :
  Then(CheckUses(ctx, IF erased THEN Zero ELSE One, body[1], tyv), LAMBDA uses :
    Done(Def(ty, body[1], TRUE, None)))))

CheckDecl(g, arity, decl) ==
  LET ctx == MakeCtx(g, arity)
  IN Then(InferUniv(ctx, decl.ty), LAMBDA level :
     Then(Eval(ctx, decl.ty), LAMBDA tyv :
       IF decl.kind = "postulate" THEN Done(Axiom(decl.ty))
       ELSE CheckDefinition(ctx, decl.ty, decl.body, tyv)))

Row(name, entry) == [name |-> name, entry |-> entry]

\* In turn, each under those before it.
RECURSIVE CheckDecls(_, _)
CheckDecls(g, decls) ==
  IF decls = <<>> THEN Done(<<>>)
  ELSE LET decl == Head(decls)
       IN Then(Require(FindEntry(decl.name, g) = None, "mismatch"), LAMBDA absent :
          Then(CheckDecl(g, 0, decl), LAMBDA entry :
          Then(CheckDecls(AddEntry(decl.name, entry, g), Tail(decls)), LAMBDA rows :
            Done(Cons(Row(decl.name, entry), rows)))))

RECURSIVE CheckTelescope(_, _)
CheckTelescope(tele, ctx) ==
  IF tele = <<>> THEN Done(ctx)
  ELSE Then(InferUniv(ctx, Head(tele).ty), LAMBDA level :
       Then(Eval(ctx, Head(tele).ty), LAMBDA tyv :
         CheckTelescope(Tail(tele), Bind(Head(tele).q, tyv, ctx))))

-----------------------------------------------------------------------------
(* Families.                                                               *)

\* An index is erased, and its type is not above the family, unless that is a proposition.
IndexRules(ctx, level, binder) ==
  Then(Require(binder.q = Zero, "index_not_zero"), LAMBDA erased :
  Then(InferUniv(ctx, binder.ty), LAMBDA actual :
    Require(AlwaysZero(level) \/ LevelBelow(ctx.arity, actual, level), "index_above_universe")))

RECURSIVE CheckIndexTelescope(_, _, _)
CheckIndexTelescope(tele, ctx, level) ==
  IF tele = <<>> THEN Done(ctx)
  ELSE Then(IndexRules(ctx, level, Head(tele)), LAMBDA allowed :
       Then(CheckTelescope(<<Head(tele)>>, ctx), LAMBDA next :
         CheckIndexTelescope(Tail(tele), next, level)))

DeclareFamily(g, arity, decl) ==
  Then(Require(L!InScope(decl.level, arity), "universe"), LAMBDA scoped :
  Then(Require(FindFamily(decl.name, g) = None, "mismatch"), LAMBDA absent :
  Then(CheckTelescope(decl.params, MakeCtx(g, arity)), LAMBDA pctx :
  Then(CheckIndexTelescope(decl.indices, pctx, decl.level), LAMBDA ictx :
    Done(AddFamily(decl.name,
      [name |-> decl.name, params |-> decl.params, indices |-> decl.indices, level |-> decl.level,
       status |-> Provisional, ctors |-> <<>>, positive |-> FALSE], g))))))

\* The arguments given are the parameters themselves, in order; index is one above the first.
RECURSIVE ParameterAt(_, _)
ParameterAt(term, index) ==
  IF term.kind = "ann" THEN ParameterAt(term.body, index) ELSE term = TVar(index)
Pred(n) == IF n = 0 THEN 0 ELSE n - 1
RECURSIVE ParametersAt(_, _)
ParametersAt(terms, index) ==
  terms # <<>> => ParameterAt(Head(terms), Pred(index)) /\ ParametersAt(Tail(terms), Pred(index))

\* The fields, in turn; none is above the family, not even if that is a proposition.
RECURSIVE CtorFields(_, _, _)
CtorFields(tele, ctx, level) ==
  IF tele = <<>> THEN Done(ctx)
  ELSE Then(InferUniv(ctx, Head(tele).ty), LAMBDA actual :
       Then(Require(LevelBelow(ctx.arity, actual, level), "universe"), LAMBDA below :
       Then(CheckTelescope(<<Head(tele)>>, ctx), LAMBDA next : CtorFields(Tail(tele), next, level))))

CheckCtor(ctx, family, group, decl) ==
  LET np == Len(family.params)
      depth == Len(decl.args)
  IN Then(CtorFields(decl.args, ctx, family.level), LAMBDA actx :
     Then(Require(FieldsPositive(decl.args, group), "not_yet"), LAMBDA positive :
     Then(Require(Len(decl.res_params) = np /\ ParametersAt(decl.res_params, depth + np), "mismatch"),
       LAMBDA preserved :
     Then(TelescopeUses(actx, Zero, family.params, decl.res_params, <<>>), LAMBDA penv :
     Then(Require(Len(decl.res_idx) = Len(family.indices), "mismatch"), LAMBDA counted :
     Then(TelescopeUses(actx, Zero, family.indices, decl.res_idx, penv.env), LAMBDA ienv :
       Done([name |-> decl.name, args |-> decl.args, res_idx |-> decl.res_idx, full_arity |-> np + depth,
             self_rec |-> SelfRec(decl.args, group)])))))))

CheckCtors(ctx, family, group, ctors) ==
  Collect([i \in DOMAIN ctors |-> CheckCtor(ctx, family, group, ctors[i])])

CtorNames(ctors) == [i \in DOMAIN ctors |-> ctors[i].name]
Completed(family, ctors) ==
  [family EXCEPT !.status = Complete(CtorNames(ctors)), !.ctors = ctors, !.positive = TRUE]

DefineCtors(g, arity, group, name, ctors) ==
  LET family == FindFamily(name, g)
  IN Then(Require(family # None, "unbound"), LAMBDA found :
     Then(Require(family[1].status = Provisional, "mismatch"), LAMBDA first :
     Then(CheckTelescope(family[1].params, MakeCtx(g, arity)), LAMBDA ctx :
     Then(CheckCtors(ctx, family[1], group, ctors), LAMBDA checked :
       Done(AddFamily(name, Completed(family[1], checked), g))))))

\* A family schema is checked on its own and stays in Prop or in Type whatever the parameters.
CheckFamilyScheme(g, arity, decl, ctors) ==
  Then(DeclareFamily(g, arity, decl), LAMBDA declared :
  Then(Require(AlwaysZero(decl.level) \/ AlwaysPositive(decl.level), "universe"), LAMBDA stable :
  Then(DefineCtors(declared, arity, {decl.name}, decl.name, ctors), LAMBDA defined : Done("unit"))))

CheckScheme(g, arity, decl) == Then(CheckDecl(g, arity, decl), LAMBDA entry : Done("unit"))

-----------------------------------------------------------------------------
(* Terms on their own.                                                     *)
InferTerm(g, term) ==
  Then(InferUses(MakeCtx(g, 0), Runtime(Many), term), LAMBDA got : Done(got.ty))
CheckTerm(g, term, ty) ==
  Then(CheckUses(MakeCtx(g, 0), Runtime(Many), term, ty), LAMBDA uses : Done("unit"))
=============================================================================
