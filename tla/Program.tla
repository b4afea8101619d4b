------------------------------- MODULE Program -------------------------------
(***************************************************************************)
(* surface/poly.c: definitions that are polymorphic in universes.          *)
(*                                                                         *)
(* A scheme is a declaration that was checked with its levels as           *)
(* variables.  It is no global: an instance, at closed levels, is a new    *)
(* declaration, checked again.  The substitution is one walk over a term   *)
(* under an action, which also renames globals and families and forbids    *)
(* some of them (for the schemes of families).                             *)
(***************************************************************************)
EXTENDS ElabTerm

PreserveLevels == [kind |-> "preserve"]
ScopeLevels(arity) == [kind |-> "scope", arity |-> arity]
SubstituteLevels(levels) == [kind |-> "substitute", levels |-> levels]
Renaming(source, target) == [source |-> source, target |-> target]
PolyAction(levels, names, forbidden) == [levels |-> levels, names |-> names, forbidden |-> forbidden]

MapLevel(action, level) ==
  CASE action.levels.kind = "preserve" -> Done(level)
    [] action.levels.kind = "scope" -> Then(Require(L!InScope(level, action.levels.arity), "universe"), LAMBDA scoped : Done(level))
    [] action.levels.kind = "substitute" ->
         LET image == L!Subst(action.levels.levels, level)
         IN Then(Require(image # {}, "universe"), LAMBDA scoped : Done(CHOOSE l \in image : TRUE))

\* The first renaming of a name counts.
FindName(names, name) ==
  LET at == {i \in DOMAIN names : names[i].source = name}
  IN IF at = {} THEN name ELSE names[CHOOSE i \in at : \A j \in at : i <= j].target
MapName(action, name) ==
  Then(Require(name \notin action.forbidden, "not_yet"), LAMBDA allowed : Done(FindName(action.names, name)))
MapOptionalName(action, name) ==
  IF name = None THEN Done(None) ELSE Then(MapName(action, name[1]), LAMBDA mapped : Done(Just(mapped)))

RECURSIVE MapTerm(_, _)
MapTerms(action, terms) == Collect([i \in DOMAIN terms |-> MapTerm(action, terms[i])])
MapShape(action, shape) ==
  Then(IF Family(shape) = None THEN Done(shape)
       ELSE Then(MapName(action, shape.name), LAMBDA name : Done([shape EXCEPT !.name = name])), LAMBDA named :
  Then(MapTerms(action, shape.args), LAMBDA args : Done([named EXCEPT !.args = args])))
MapAddr(action, addr) ==
  IF addr.kind # "pt" THEN Done(addr) ELSE Then(MapTerm(action, addr.arg), LAMBDA arg : Done(APt(addr.q, arg)))
MapLeg(action, leg) == Then(MapTerm(action, leg.body), LAMBDA body : Done(Leg(leg.binders, body)))
MapLegs(action, legs) == Collect([i \in DOMAIN legs |-> MapLeg(action, legs[i])])
MapMotive(action, motive) ==
  IF motive = None THEN Done(None)
  ELSE Then(MapOptionalName(action, motive[1].ind), LAMBDA ind :
       Then(MapTerm(action, motive[1].body), LAMBDA body : Done(Just(Motive(ind, motive[1].indices, body)))))
MapBranches(action, branches) ==
  Collect([i \in DOMAIN branches |->
    Then(MapAddr(action, branches[i].addr), LAMBDA addr :
    Then(MapLeg(action, branches[i].leg), LAMBDA leg : Done(Branch(addr, leg))))])

\* Mistake: the walk over a binder passes its domain by.
MapKanBody(action, term) ==
  Then(MapTerm(action, term.body), LAMBDA body : Done([term EXCEPT !.body = body]))
MapKan(action, term) ==
  Then(MapShape(action, term.shape), LAMBDA shape :
  Then(MapTerm(action, term.body), LAMBDA body : Done([term EXCEPT !.shape = shape, !.body = body])))
MapIn(action, term) ==
  Then(MapShape(action, term.shape), LAMBDA shape :
  Then(MapAddr(action, term.addr), LAMBDA addr :
  Then(MapTerms(action, term.args), LAMBDA args : Done(TIn(shape, addr, args)))))
MapSec(action, term) ==
  Then(MapShape(action, term.shape), LAMBDA shape :
  Then(MapLegs(action, term.legs), LAMBDA legs : Done(TSec(shape, legs))))
MapOut(action, term) ==
  Then(MapShape(action, term.shape), LAMBDA shape :
  Then(MapAddr(action, term.addr), LAMBDA addr :
  Then(MapTerm(action, term.head), LAMBDA head : Done(TOut(shape, addr, head)))))
MapElim(action, term) ==
  Then(MapShape(action, term.shape), LAMBDA shape :
  Then(MapTerm(action, term.scrut), LAMBDA scrut :
  Then(MapMotive(action, term.motive), LAMBDA motive :
  Then(MapBranches(action, term.branches), LAMBDA branches :
    Done(TElim(shape, scrut, term.q, motive, branches))))))

MapTerm(action, term) ==
  CASE term.kind \in {"var", "lit", "auto"} -> Done(term)
    [] term.kind = "global" -> Then(MapName(action, term.name), LAMBDA name : Done(TGlobal(name)))
    [] term.kind = "univ" -> Then(MapLevel(action, term.level), LAMBDA level : Done(TUniv(level)))
    [] term.kind \in {"lan", "ran"} -> MapKan(action, term)
    [] term.kind = "in" -> MapIn(action, term)
    [] term.kind = "sec" -> MapSec(action, term)
    [] term.kind = "out" -> MapOut(action, term)
    [] term.kind = "elim" -> MapElim(action, term)
    [] term.kind = "let" -> Then(MapTerms(action, <<term.ty, term.value, term.body>>), LAMBDA parts :
                              Done(TLet(parts[1], parts[2], parts[3])))
    [] term.kind = "ann" -> Then(MapTerms(action, <<term.body, term.ty>>), LAMBDA parts :
                              Done(TAnn(parts[1], parts[2])))

MapDecl(action, decl) ==
  Then(MapTerm(action, decl.ty), LAMBDA ty :
  Then(MapTerms(action, decl.body), LAMBDA body : Done([decl EXCEPT !.ty = ty, !.body = body])))

-----------------------------------------------------------------------------
(* The catalog: a function from names to schemes.                          *)
PolyEmpty == [name \in {} |-> 0]
PolyScheme(arity, decl) == [arity |-> arity, decl |-> decl]
PolyLookup(catalog, name) == IF name \in DOMAIN catalog THEN Just(catalog[name]) ELSE None
Occupied(g, catalog, name) ==
  FindEntry(name, g) # None \/ FindFamily(name, g) # None \/ PolyLookup(catalog, name) # None

PolyDeclare(g, catalog, arity, decl) ==
  Then(Require(~Occupied(g, catalog, decl.name), "mismatch"), LAMBDA fresh :
  Then(CheckScheme(g, arity, decl), LAMBDA checked :
    Done(Put(decl.name, PolyScheme(arity, decl), catalog))))

ClosedLevels(levels) == \A i \in DOMAIN levels : L!InScope(levels[i], 0)
ValidateInstance(fresh, arity, levels) ==
  Then(Require(fresh, "mismatch"), LAMBDA free :
  Then(Require(arity = Len(levels), "universe"), LAMBDA counted : Require(ClosedLevels(levels), "universe")))

PolyInstantiate(g, catalog, name, levels, alias) ==
  LET scheme == PolyLookup(catalog, name)
  IN Then(Require(scheme # None, "unbound"), LAMBDA known :
     Then(ValidateInstance(~Occupied(g, catalog, alias), scheme[1].arity, levels), LAMBDA valid :
     Then(MapDecl(PolyAction(SubstituteLevels(levels), <<>>, {}), scheme[1].decl), LAMBDA decl :
     Then(CheckDecl(g, 0, [decl EXCEPT !.name = alias]), LAMBDA entry : Done(AddEntry(alias, entry, g))))))

-----------------------------------------------------------------------------
(* surface/elab.c: the declarations of a source text, in turn.             *)
(*                                                                         *)
(* The state is the global environment, the catalog of schemes and the     *)
(* rows of what was checked.  A declaration is elaborated under the        *)
(* globals before it and checked; the first that fails ends the program.   *)
(* Templates of families, and their catalog, are not modelled.             *)

SDef(name, ty, body) == [kind |-> "def", name |-> name, ty |-> ty, body |-> body]
SAxiom(name, ty) == [kind |-> "axiom", name |-> name, ty |-> ty]
SMuGroup(families) == [kind |-> "mu", families |-> families]
SRecDef(name, ty, body) == [name |-> name, ty |-> ty, body |-> body]
SRec(definitions) == [kind |-> "rec", definitions |-> definitions]
SPoly(universes, name, ty, body) ==
  [kind |-> "poly", universes |-> universes, name |-> name, ty |-> ty, body |-> body]
SSpecialize(template, levels, name, helpers) ==
  [kind |-> "specialize", template |-> template, levels |-> levels, name |-> name, helpers |-> helpers]

ElabProgram(g, definitions, rows) == [g |-> g, definitions |-> definitions, rows |-> rows]
TopCtx(g) == SurfaceCtx(g, 0)
NamesOf(items) == [i \in DOMAIN items |-> items[i].name]

RECURSIVE AllCtorNames(_)
AllCtorNames(families) ==
  IF families = <<>> THEN <<>> ELSE NamesOf(Head(families).ctors) \o AllCtorNames(Tail(families))

-----------------------------------------------------------------------------
(* Groups of families.                                                     *)
RECURSIVE DeclareSyntaxHeaders(_, _), DefineSyntaxFamilies(_, _, _)
DeclareSyntaxHeaders(families, g) ==
  IF families = <<>> THEN Done(g)
  ELSE Then(ElabFamDecl(Head(families), TopCtx(g)), LAMBDA decl :
       Then(DeclareFamily(g, 0, decl), LAMBDA next : DeclareSyntaxHeaders(Tail(families), next)))
DefineSyntaxFamilies(families, g, group) ==
  IF families = <<>> THEN Done(g)
  ELSE LET family == Head(families)
       IN Then(ElabTelescope(family.params, TopCtx(g), <<>>), LAMBDA params :
          Then(ElabCtorDecls(family.ctors, params.ctx, family.name), LAMBDA ctors :
          Then(DefineCtors(g, 0, group, family.name, ctors), LAMBDA next :
            DefineSyntaxFamilies(Tail(families), next, group))))
ElabSyntaxMuGroup(g, families) ==
  Then(DeclareSyntaxHeaders(families, g), LAMBDA declared :
    DefineSyntaxFamilies(families, declared, {families[i].name : i \in DOMAIN families}))

-----------------------------------------------------------------------------
(* Recursive groups: all types, then the bodies under the postulates.      *)
RecTypes(g, definitions) ==
  Collect([i \in DOMAIN definitions |->
    Then(Elab(TopCtx(g), None, definitions[i].ty), LAMBDA ty : Done(RecMember(definitions[i].name, ty, definitions[i].body)))])
RecBodies(g, typed) ==
  Collect([i \in DOMAIN typed |->
    Then(Eval(TopCtx(g), typed[i].ty), LAMBDA expected :
    Then(Elab(TopCtx(g), Just(expected), typed[i].body), LAMBDA body : Done(RecMember(typed[i].name, typed[i].ty, body))))])

ElabSyntaxRecGroup(g, definitions) ==
  Then(RecTypes(g, definitions), LAMBDA typed :
  Then(CheckDecls(g, RecPostulates(typed)), LAMBDA declared :
    LET provisional == AddRows(declared, g)
    IN Then(RecBodies(provisional, typed), LAMBDA bodies :
       Then(O!Certify(RecPairs(bodies)), LAMBDA cert : CheckRecBodies(cert, bodies, g, provisional)))))

-----------------------------------------------------------------------------
(* One declaration.  Its names are none of a scheme's; what a template or  *)
(* an instance is called is no constructor's name either.                  *)
DeclaredNames(decl) ==
  CASE decl.kind = "mu" -> NamesOf(decl.families) \o AllCtorNames(decl.families)
    [] decl.kind = "rec" -> NamesOf(decl.definitions)
    [] OTHER -> <<decl.name>>
CtorReserved(decl) == IF decl.kind \in {"poly", "specialize"} THEN <<decl.name>> ELSE <<>>
AllFresh(names, used) == Require(\A i \in DOMAIN names : names[i] \notin used, "mismatch")
CtorDeclared(g) == UNION {{g.families[f].ctors[i].name : i \in DOMAIN g.families[f].ctors} : f \in DOMAIN g.families}

AppendChecked(state, rows) == [state EXCEPT !.g = AddRows(rows, @), !.rows = @ \o rows]
LowerLevels(levels) == Collect([i \in DOMAIN levels |-> Lower(levels[i])])

ElabOrdinary(state, decl) ==
  Then(ElabDecl(decl, TopCtx(state.g)), LAMBDA raw :
  Then(CheckDecls(state.g, <<raw>>), LAMBDA rows : Done(AppendChecked(state, rows))))
ElabPoly(state, decl) ==
  Then(ElabDecl(SDef(decl.name, decl.ty, decl.body), SurfaceCtx(state.g, decl.universes)), LAMBDA raw :
  Then(PolyDeclare(state.g, state.definitions, decl.universes, raw), LAMBDA catalog :
    Done([state EXCEPT !.definitions = catalog])))
ElabSpecialize(state, decl) ==
  Then(LowerLevels(decl.levels), LAMBDA levels :
  Then(Require(decl.helpers = None \/ PolyLookup(state.definitions, decl.template) = None, "not_yet"), LAMBDA plain :
  Then(PolyInstantiate(state.g, state.definitions, decl.template, levels, decl.name), LAMBDA g :
    Done([state EXCEPT !.g = g, !.rows = Append(@, Row(decl.name, g.entries[decl.name]))]))))

ElabDeclaration(state, decl) ==
  CASE decl.kind \in {"def", "axiom"} -> ElabOrdinary(state, decl)
    [] decl.kind = "mu" -> Then(ElabSyntaxMuGroup(state.g, decl.families), LAMBDA g : Done([state EXCEPT !.g = g]))
    [] decl.kind = "rec" -> Then(ElabSyntaxRecGroup(state.g, decl.definitions), LAMBDA rows : Done(AppendChecked(state, rows)))
    [] decl.kind = "poly" -> ElabPoly(state, decl)
    [] decl.kind = "specialize" -> ElabSpecialize(state, decl)

ProgramStep(state, decl) ==
  Then(AllFresh(DeclaredNames(decl), DOMAIN state.definitions), LAMBDA fresh :
  Then(AllFresh(CtorReserved(decl), CtorDeclared(state.g)), LAMBDA free : ElabDeclaration(state, decl)))

RECURSIVE ProgramLoop(_, _)
ProgramLoop(decls, state) ==
  IF decls = <<>> THEN Done(state)
  ELSE Then(ProgramStep(state, Head(decls)), LAMBDA next : ProgramLoop(Tail(decls), next))
ElabProgramIn(g, decls) == ProgramLoop(decls, ElabProgram(g, PolyEmpty, <<>>))
=============================================================================
