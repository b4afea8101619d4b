----------------------------- MODULE ElabGroups -----------------------------
(***************************************************************************)
(* surface/elab.c: groups of families and groups of recursive definitions. *)
(*                                                                         *)
(* The families of a group are all declared before the constructors of any *)
(* of them are defined.  The members of a recursive group are first        *)
(* postulated, so that the bodies can be checked while they mention each   *)
(* other; the certificate of module Order then decides at which argument   *)
(* each of them unfolds.  A group no member of which mentions one is a     *)
(* list of ordinary definitions.                                           *)
(*                                                                         *)
(* What the elaborator has made of the source text is given here: kernel   *)
(* terms for the types, bodies and constructors.                           *)
(***************************************************************************)
EXTENDS Declare

O == INSTANCE Order

MuMember(decl, ctors) == [decl |-> decl, ctors |-> ctors]
FamilyNames(families) == {families[i].decl.name : i \in DOMAIN families}

RECURSIVE DeclareHeaders(_, _), DefineFamilies(_, _, _)
DeclareHeaders(families, g) ==
  IF families = <<>> THEN Done(g)
  ELSE Then(DeclareFamily(g, 0, Head(families).decl), LAMBDA next : DeclareHeaders(Tail(families), next))
DefineFamilies(families, g, group) ==
  IF families = <<>> THEN Done(g)
  ELSE Then(DefineCtors(g, 0, group, Head(families).decl.name, Head(families).ctors), LAMBDA next :
         DefineFamilies(Tail(families), next, group))

\* Mistake: each family is looked at on its own.
ElabMuGroupAlone(g, families) ==
  Then(DeclareHeaders(families, g), LAMBDA declared :
    IF Len(families) = 2
    THEN Then(DefineFamilies(<<families[1]>>, declared, {families[1].decl.name}), LAMBDA next :
           DefineFamilies(<<families[2]>>, next, {families[2].decl.name}))
    ELSE DefineFamilies(families, declared, FamilyNames(families)))

ElabMuGroup(g, families) ==
  Then(DeclareHeaders(families, g), LAMBDA declared :
    DefineFamilies(families, declared, FamilyNames(families)))

-----------------------------------------------------------------------------
RecMember(name, ty, body) == [name |-> name, ty |-> ty, body |-> body]
RecPairs(group) == [i \in DOMAIN group |-> O!Member(group[i].name, group[i].body)]
RecPostulates(group) == [i \in DOMAIN group |-> Decl(group[i].name, "postulate", group[i].ty, None)]
RecDeclarations(group) ==
  [i \in DOMAIN group |-> Decl(group[i].name, "definition", group[i].ty, Just(group[i].body))]

RECURSIVE AddRows(_, _)
AddRows(rows, g) ==
  IF rows = <<>> THEN g ELSE AddRows(Tail(rows), AddEntry(Head(rows).name, Head(rows).entry, g))

\* Only a member that mentions one unfolds by its argument.
RecArg(cert, body) == IF O!Mentions(cert.group, body) THEN Just(cert.arg) ELSE None

GuardedBodies(group, g, cert) ==
  Collect([i \in DOMAIN group |->
    Then(O!Translate(cert, group[i].body), LAMBDA body :
    Then(Eval(MakeCtx(g, 0), group[i].ty), LAMBDA expected :
    Then(CheckUses(MakeCtx(g, 0), Many, body, expected), LAMBDA uses :
      Done(Row(group[i].name, Def(group[i].ty, body, TRUE, RecArg(cert, group[i].body)))))))])

CheckRecBodies(cert, group, g, provisional) ==
  IF cert = None THEN CheckDecls(g, RecDeclarations(group)) ELSE GuardedBodies(group, provisional, cert[1])

ElabRecGroup(g, group) ==
  Then(CheckDecls(g, RecPostulates(group)), LAMBDA declared :
  Then(O!Certify(RecPairs(group)), LAMBDA cert :
  Then(CheckRecBodies(cert, group, g, AddRows(declared, g)), LAMBDA rows : Done(AddRows(rows, g)))))
=============================================================================
