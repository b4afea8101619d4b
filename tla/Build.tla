------------------------------- MODULE Build -------------------------------
(***************************************************************************)
(* Kernel terms as the elaborator writes them, for the modules that build  *)
(* programs: application, function, match on a natural number of the       *)
(* family N, sum, pair and tuple.                                          *)
(***************************************************************************)
EXTENDS ElabGroups

VARIABLE submitted  \* what has been given to the elaborator or the checker: "nothing", "recursion", ...

NotSubmitted == submitted = "nothing"
Building == NotSubmitted /\ UNCHANGED submitted
Submit(what) == NotSubmitted /\ submitted' = what

ApplyAt(q, head, arg) == TOut(SArg(q), APt(q, arg), head)
Apply(head, arg) == ApplyAt(Many, head, arg)
Apply2(head, a, b) == Apply(Apply(head, a), b)
FunAt(q, domain, inside) == TSec(SPi(q, domain), <<Leg(<<q>>, inside)>>)
Fun(domain, inside) == FunAt(Many, domain, inside)
Add2(a, b) == Apply2(TGlobal("natAdd"), a, b)
Lit(n) == TLit(LInt(n))

\* The family N of zero and succ.
NShape == SMu("N", <<>>)
NTy == TLan(NShape, DiagramOf(<<>>))
Z == TIn(NShape, ACtor("zero"), <<>>)
S(term) == TIn(NShape, ACtor("succ"), <<term>>)
Match(scrut, zero, succ) ==
  TElim(NShape, scrut, One, Just(Motive(Just("N"), 0, NTy)),
        <<Branch(ACtor("zero"), Leg(<<>>, zero)), Branch(ACtor("succ"), Leg(<<Many>>, succ))>>)
NDecl == MuMember(FamilyDecl("N", <<>>, <<>>, LevelOne),
                  <<CtorDecl("zero", <<>>, <<>>, <<>>),
                    CtorDecl("succ", <<TeleBinder(Many, NTy)>>, <<>>, <<>>)>>)
WithN == ElabMuGroup(GlobalInitial, <<NDecl>>).val

Declared(g, decls) == AddRows(CheckDecls(g, decls).val, g)
Postulate(name, ty) == Decl(name, "postulate", ty, None)
Definition(name, ty, body) == Decl(name, "definition", ty, Just(body))
NormalForm(g, term) == Then(Evaluate(g, <<>>, term), LAMBDA v : Normalize(g, 0, v))

\* How often a global is named in a term.
RECURSIVE Mentions(_, _)
MentionsIn(name, terms) ==
  LET f[n \in 0..Len(terms)] == IF n = 0 THEN 0 ELSE f[n - 1] + Mentions(name, terms[n])
  IN f[Len(terms)]
Mentions(name, term) ==
  (IF term.kind = "global" /\ term.name = name THEN 1 ELSE 0) + MentionsIn(name, Children(term))
=============================================================================
