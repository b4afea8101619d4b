------------------------------ MODULE MCProgram ------------------------------
(***************************************************************************)
(* Programs built step by step and given to the elaborator: the body of a  *)
(* function (first part) or of a scheme (second part).                     *)
(***************************************************************************)
EXTENDS Program, Build

CONSTANTS MaxSourceSteps,  \* bound: constructions of the body
          MaxSchemeSteps,  \* bound: constructions of the body of a scheme
          MaxInstance      \* bound: the levels of instances

-----------------------------------------------------------------------------
(* Source terms, built step by step, given to the elaborator as the body   *)
(* of a function of two parameters.                                        *)
(*                                                                         *)
(* There are two families of numbers, N of zero and succ, and M of zero    *)
(* and next, so that zero is a constructor of both.  Locals are called x   *)
(* or zero: they hide each other, and the constructors.  A typing and an   *)
(* evaluation by names, where the innermost binding of a name counts, say  *)
(* which terms are meant and what they yield.                              *)

VARIABLES sTerm, sType, sSteps  \* the term, the family of its value, how often it was extended
sourceVars == <<sTerm, sType, sSteps>>

Numbers2 == {"N", "M"}
Locals == {"x", "zero"}
StepName(family) == IF family = "N" THEN "succ" ELSE "next"
NumberFam(family) ==
  SFam(family, <<>>, Type(0),
       <<SFamCtor("zero", Var(family)),
         SFamCtor(StepName(family), Group("arrow", SBinder(Many, "n", Var(family)), Var(family)))>>)
SourceBase == ElabProgramIn(GlobalInitial, <<SMuGroup(<<NumberFam("N")>>), SMuGroup(<<NumberFam("M")>>)>>).val.g

-----------------------------------------------------------------------------
SAtoms == {Var("x"), Var("zero")}
Step(family, s) == App(Var(StepName(family)), s)
MatchOn(scrut, family, base, name, step) ==
  CaseTerm("match", scrut, Just(SMotive(Just(family), <<>>, name, Var(sType))),
           <<SBranchCtor("zero", <<>>, base), SBranchCtor(StepName(family), <<SField(Many, name, None)>>, step)>>)
\* A case on s as the i-th of a sum of N and another family.
CaseOn(i, s, family, name) ==
  CaseTerm("case", Ann(Inj(i, 2, s), Items("sum", <<Var("N"), Var(family)>>)),
           Just(SMotive(None, <<>>, name, Var(sType))),
           <<SBranchLeg(0, <<SField(Many, name, None)>>, Var("x")), SBranchLeg(1, <<SField(Many, name, None)>>, Var("zero"))>>)
PairOf(left, right) == Group("star", SBinder(Many, "first", Var(left)), Var(right))
AppliedAt(family, name, s, to, arg) ==
  App(Ann(SFun(<<SBinder(Many, name, Var(family))>>, s), Group("arrow", SBinder(Many, "given", Var(family)), Var(to))), arg)

SourceGrown(s) ==
  {Step(f, s) : f \in Numbers2}
  \cup {Let(v, Var(f), a, s) : v \in Locals, f \in Numbers2, a \in SAtoms}
  \cup {Let(v, Var(f), s, a) : v \in Locals, f \in Numbers2, a \in SAtoms}
  \cup {MatchOn(Var("x"), f, a, v, s) : v \in Locals, f \in Numbers2, a \in SAtoms}
  \cup {MatchOn(Ann(s, Var(f)), f, Var("zero"), v, a) : v \in Locals, f \in Numbers2, a \in SAtoms}
  \cup {AppliedAt(f, v, s, sType, Var("x")) : v \in Locals, f \in Numbers2}
  \cup {Proj(Ann(SPair(s, a), PairOf(f, "N")), 1) : f \in Numbers2, a \in SAtoms}
  \cup {Proj(Ann(SPair(Var("zero"), s), PairOf("N", f)), 2) : f \in Numbers2}
  \cup {Proj(Ann(Items("tuple", <<Var("x"), s>>), Items("prod", <<Var("M"), Var(f)>>)), i) : f \in Numbers2, i \in 0..1}
  \cup {CaseOn(i, s, f, v) : v \in Locals, f \in Numbers2, i \in 0..1}

InitSource == sTerm \in SAtoms /\ sType \in Numbers2 /\ sSteps = 0 /\ NotSubmitted
GrowSource == /\ Building /\ sSteps < MaxSourceSteps /\ sSteps' = sSteps + 1
              /\ sTerm' \in SourceGrown(sTerm) /\ UNCHANGED sType
SubmitSource == Submit("source") /\ UNCHANGED <<sTerm, sType, sSteps>>

NextSource == GrowSource \/ SubmitSource
SpecSource == InitSource /\ [][NextSource]_<<submitted, sourceVars>>

-----------------------------------------------------------------------------
(* By names: names are given types or values, the innermost last.          *)
Bound(env, name, value) == [n \in DOMAIN env \cup {name} |-> IF n = name THEN value ELSE env[n]]

\* A pair's projections are .1 and .2, those of a tuple count from 0.
Parts(s) == IF s.kind = "pair" THEN <<s.left, s.right>> ELSE s.items
Which(s) == IF s.head.value.kind = "pair" THEN s.index ELSE s.index + 1

RECURSIVE HasType(_, _, _), Yields(_, _)
HasType(env, s, ty) ==
  CASE s.kind = "var" -> IF s.name \in DOMAIN env THEN env[s.name] = ty ELSE s.name = "zero"
    [] s.kind = "app" /\ s.head.kind = "var" -> s.head.name = StepName(ty) /\ HasType(env, s.arg, ty)
    [] s.kind = "app" /\ s.head.kind = "ann" ->
         LET binder == s.head.value.binders[1]
         IN /\ s.head.ty.body.name = ty /\ HasType(env, s.arg, binder.ty.name)
            /\ HasType(Bound(env, binder.name, binder.ty.name), s.head.value.body, ty)
    [] s.kind = "let" -> HasType(env, s.value, s.ty.name) /\ HasType(Bound(env, s.name, s.ty.name), s.body, ty)
    [] s.kind = "match" ->
         LET family == s.motive[1].ind[1]
             of == IF s.scrut.kind = "var" THEN s.scrut ELSE s.scrut.value
         IN /\ s.motive[1].body.name = ty /\ HasType(env, of, family)
            /\ HasType(env, s.branches[1].body, ty)
            /\ HasType(Bound(env, s.branches[2].fields[1].name, family), s.branches[2].body, ty)
    [] s.kind = "case" ->
         LET types == [i \in 1..2 |-> s.scrut.ty.items[i].name]
             In(i) == Bound(env, s.branches[i].binders[1].name, types[i])
         IN /\ s.motive[1].body.name = ty /\ HasType(env, s.scrut.value.value, types[s.scrut.value.index + 1])
            /\ \A i \in 1..2 : HasType(In(i), s.branches[i].body, ty)
    [] s.kind = "proj" ->
         LET parts == Parts(s.head.value)
             types == IF s.head.ty.kind = "star" THEN <<s.head.ty.binder.ty.name, s.head.ty.body.name>>
                      ELSE [i \in 1..2 |-> s.head.ty.items[i].name]
         IN (\A i \in 1..2 : HasType(env, parts[i], types[i])) /\ types[Which(s)] = ty

Yields(env, s) ==
  CASE s.kind = "var" -> IF s.name \in DOMAIN env THEN env[s.name] ELSE 0
    [] s.kind = "app" /\ s.head.kind = "var" -> 1 + Yields(env, s.arg)
    [] s.kind = "app" /\ s.head.kind = "ann" ->
         Yields(Bound(env, s.head.value.binders[1].name, Yields(env, s.arg)), s.head.value.body)
    [] s.kind = "let" -> Yields(Bound(env, s.name, Yields(env, s.value)), s.body)
    [] s.kind = "match" ->
         LET n == Yields(env, IF s.scrut.kind = "var" THEN s.scrut ELSE s.scrut.value)
         IN IF n = 0 THEN Yields(env, s.branches[1].body)
            ELSE Yields(Bound(env, s.branches[2].fields[1].name, n - 1), s.branches[2].body)
    [] s.kind = "case" ->
         LET sum == s.scrut.value
             branch == s.branches[sum.index + 1]
         IN Yields(Bound(env, branch.binders[1].name, Yields(env, sum.value)), branch.body)
    [] s.kind = "proj" -> Yields(env, Parts(s.head.value)[Which(s)])

-----------------------------------------------------------------------------
(* The program: a function of x in N and of another x, in M, and the       *)
(* result of it.                                                           *)
RECURSIVE SNumeral(_, _), Numeral(_, _)
SNumeral(family, n) == IF n = 0 THEN Var("zero") ELSE Step(family, SNumeral(family, n - 1))
Numeral(family, n) ==
  IF n = 0 THEN TIn(SMu(family, <<>>), ACtor("zero"), <<>>)
  ELSE TIn(SMu(family, <<>>), ACtor(StepName(family)), <<Numeral(family, n - 1)>>)

SourceProgram ==
  LET To(name, from, to) == Group("arrow", SBinder(Many, name, Var(from)), to)
  IN <<SDef("d", To("x", "N", To("x", "M", Var(sType))),
            SFun(<<SBinder(Many, "x", Var("N")), SBinder(Many, "x", Var("M"))>>, sTerm)),
       SDef("result", Var(sType), App(App(Var("d"), SNumeral("N", 1)), SNumeral("M", 2)))>>

(* The elaborator means what the names say: a term is accepted exactly if  *)
(* it is typed with the innermost binding of every name, and its value is  *)
(* the one that this binding gives.                                        *)
ElaboratesAsNamed ==
  [][SubmitSource =>
       LET got == ElabProgramIn(SourceBase, SourceProgram)
       IN /\ got.ok = HasType([x |-> "M"], sTerm, sType)
          /\ got.ok => NormalForm(got.val.g, TGlobal("result")) = Done(Numeral(sType, Yields([x |-> 2], sTerm)))]_<<submitted, sourceVars>>

-----------------------------------------------------------------------------
(* Definitions over two universes u and v, built step by step, declared as *)
(* schemes and specialized at closed levels.                               *)
(*                                                                         *)
(* A definition is a function of a type X in Sort u and a value of X.  It  *)
(* yields a value (of X at first) or a type, in the sort that was computed *)
(* for it or in another one.                                               *)

VARIABLES made, declaredSort, schemeSteps  \* the body and its type, the sort that is declared for a type, steps
schemesVars == <<made, declaredSort, schemeSteps>>

Num(n) == [kind |-> "nat", value |-> n]
U0 == [kind |-> "var", index |-> 0]
V0 == [kind |-> "var", index |-> 1]
USucc(level) == [kind |-> "succ", left |-> level]
UMax(left, right) == [kind |-> "max", left |-> left, right |-> right]
UIMax(left, right) == [kind |-> "imax", left |-> left, right |-> right]

\* A body: its type is a source term, or Sort of a level.
OfType(ty, term) == [sort |-> None, ty |-> ty, term |-> term]
OfSort(level, term) == [sort |-> Just(level), ty |-> Sort(level), term |-> term]
Over2(kind, name, ty, body) == Group(kind, SBinder(Many, name, ty), body)

SchemeAtoms == {OfType(Var("X"), Var("x")), OfSort(U0, Var("X")), OfSort(USucc(V0), Sort(V0)), OfSort(Num(1), Prop)}

OfTypes(b) ==
  LET level == b.sort[1]
  IN {OfSort(UIMax(level, U0), Over2("arrow", "y", b.term, Var("X"))),
      OfSort(UIMax(U0, level), Over2("arrow", "y", Var("X"), b.term)),
      OfSort(UIMax(USucc(V0), level), Over2("arrow", "Y", Sort(V0), b.term)),
      OfSort(UMax(level, U0), Over2("star", "y", b.term, Var("X"))),
      OfSort(UMax(level, Num(1)), Items("sum", <<b.term, Var("Nat")>>))}
OfValues(b) ==
  LET pair == Ann(SPair(b.term, Var("X")), Over2("star", "y", b.ty, Sort(U0)))
      identity == Ann(SFun(<<SBinder(Many, "y", b.ty)>>, Var("y")), Over2("arrow", "y", b.ty, b.ty))
  IN {[b EXCEPT !.term = Proj(pair, 1)], OfSort(U0, Proj(pair, 2)), [b EXCEPT !.term = App(identity, @)],
      [b EXCEPT !.term = Let("y", b.ty, @, Var("y"))]}
SchemeGrown(b) == OfValues(b) \cup (IF b.sort = None THEN {} ELSE OfTypes(b))

DeclaredSorts == {Num(0), Num(1), U0, UMax(U0, V0), UIMax(V0, U0), USucc(UMax(U0, V0))}

InitSchemes == made \in SchemeAtoms /\ declaredSort = None /\ schemeSteps = 0 /\ NotSubmitted
GrowScheme == /\ Building /\ schemeSteps < MaxSchemeSteps /\ schemeSteps' = schemeSteps + 1
              /\ made' \in SchemeGrown(made) /\ UNCHANGED declaredSort
DeclareSort == /\ Building /\ made.sort # None /\ declaredSort = None
               /\ declaredSort' \in {Just(level) : level \in DeclaredSorts} /\ UNCHANGED <<made, schemeSteps>>
SubmitScheme == Submit("scheme") /\ UNCHANGED <<made, declaredSort, schemeSteps>>

NextSchemes == GrowScheme \/ DeclareSort \/ SubmitScheme
SpecSchemes == InitSchemes /\ [][NextSchemes]_<<submitted, schemesVars>>

-----------------------------------------------------------------------------
ResultTy == IF declaredSort = None THEN made.ty ELSE Sort(declaredSort[1])
SchemeTy == Over2("arrow", "X", Sort(U0), Over2("arrow", "x", Var("X"), ResultTy))
SchemeBody == SFun(<<SBinder(Many, "X", Sort(U0)), SBinder(Many, "x", Var("X"))>>, made.term)

\* The source with numbers for u and v.
RECURSIVE WrittenLevel(_, _), Written(_, _)
WrittenLevel(at, level) ==
  CASE level.kind = "var" -> Num(at[level.index + 1])
    [] level.kind = "succ" -> USucc(WrittenLevel(at, level.left))
    [] level.kind \in {"max", "imax"} -> [level EXCEPT !.left = WrittenLevel(at, @), !.right = WrittenLevel(at, @)]
    [] OTHER -> level
WrittenBinder(at, binder) == [binder EXCEPT !.ty = Written(at, @)]
Written(at, s) ==
  CASE s.kind = "sort" -> Sort(WrittenLevel(at, s.sort))
    [] s.kind \in {"arrow", "star"} -> [s EXCEPT !.binder = WrittenBinder(at, @), !.body = Written(at, @)]
    [] s.kind = "fun" -> SFun([i \in DOMAIN s.binders |-> WrittenBinder(at, s.binders[i])], Written(at, s.body))
    [] s.kind = "sum" -> Items("sum", [i \in DOMAIN s.items |-> Written(at, s.items[i])])
    [] s.kind = "pair" -> SPair(Written(at, s.left), Written(at, s.right))
    [] s.kind = "ann" -> Ann(Written(at, s.value), Written(at, s.ty))
    [] s.kind = "proj" -> Proj(Written(at, s.head), s.index)
    [] s.kind = "app" -> App(Written(at, s.head), Written(at, s.arg))
    [] s.kind = "let" -> Let(s.name, Written(at, s.ty), Written(at, s.value), Written(at, s.body))
    [] OTHER -> s

SchemeDeclared == ElabProgramIn(GlobalInitial, <<SPoly(2, "P", SchemeTy, SchemeBody)>>)
InstanceOf(state, at) ==
  ProgramStep(state, SSpecialize("P", [i \in 1..2 |-> Num(at[i])], "P1", None))
ByHand(at) == ElabProgramIn(GlobalInitial, <<SDef("P1", Written(at, SchemeTy), Written(at, SchemeBody))>>)
FormsOf(state) == LET entry == state.g.entries["P1"]
                  IN <<NormalForm(state.g, entry.ty), NormalForm(state.g, entry.body)>>

(* A scheme stands for its instances: it is accepted exactly if the        *)
(* definition with numbers written for u and v is accepted for all         *)
(* numbers; each instance is then accepted, and is that definition.        *)
InstancesAsWritten ==
  [][SubmitScheme =>
       LET scheme == SchemeDeclared
           levels == (0..MaxInstance) \X (0..MaxInstance)
       IN /\ scheme.ok = (\A at \in levels : ByHand(at).ok)
          /\ scheme.ok => \A at \in levels :
                            LET instance == InstanceOf(scheme.val, at)
                            IN instance.ok /\ FormsOf(instance.val) = FormsOf(ByHand(at).val)]_<<submitted, schemesVars>>
=============================================================================
