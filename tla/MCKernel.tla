------------------------------ MODULE MCKernel ------------------------------
(***************************************************************************)
(* The explorations of the kernel in one run: a behaviour builds recursive *)
(* definitions, groups of families, programs, or pairs of terms, and the   *)
(* variables of the other explorations stay as they are.                   *)
(***************************************************************************)
EXTENDS MCRecursion, MCUsage, MCConversion

-----------------------------------------------------------------------------
(***************************************************************************)
(* Groups of two inductive families A and B, each with one constructor of  *)
(* one field, whose type is built step by step from the families, N and a  *)
(* definition Neg, the functions from a type to N.                         *)
(*                                                                         *)
(* A family that occurs to the left of an arrow in its own field lets a    *)
(* function be applied to itself, so that checked terms need not have a    *)
(* value.  The terms that would do so are written out and given to the     *)
(* checker.                                                                *)
(***************************************************************************)

CONSTANT MaxFieldSteps  \* bound: constructions of the two field types together

VARIABLES fieldA, fieldB, fieldSteps
familiesVars == <<fieldA, fieldB, fieldSteps>>

FamilyTy(name) == TLan(SMu(name, <<>>), DiagramOf(<<>>))
TypeType == TUniv(LevelOne)
Neg == Definition("Neg", Arrow(Many, TypeType, TypeType), Fun(TypeType, Arrow(Many, TVar(0), NTy)))
FamiliesBase == Declared(WithN, <<Neg>>)
FieldAtoms == {NTy, FamilyTy("A"), FamilyTy("B")}

-----------------------------------------------------------------------------
InitFamilies == fieldA \in FieldAtoms /\ fieldB \in FieldAtoms /\ fieldSteps = 0 /\ NotSubmitted

GrowFields(a, b) ==
  /\ Building /\ fieldSteps < MaxFieldSteps /\ fieldSteps' = fieldSteps + 1
  /\ fieldA' = a /\ fieldB' = b

\* The types are closed, so that nothing is renumbered below the arrow.
FieldShapes(ty) == {Arrow(Many, dom, ty) : dom \in FieldAtoms} \cup {Arrow(Many, ty, NTy), Apply(TGlobal("Neg"), ty),
               SumTy(<<ty, NTy>>), TLan(SPi(Many, NTy), ty)}
GrowA == \E ty \in FieldShapes(fieldA) : GrowFields(ty, fieldB)
GrowB == \E ty \in FieldShapes(fieldB) : GrowFields(fieldA, ty)

SubmitFamilies == Submit("families") /\ UNCHANGED <<fieldA, fieldB, fieldSteps>>

NextFamilies == GrowA \/ GrowB \/ SubmitFamilies
SpecFamilies == InitFamilies /\ [][NextFamilies]_<<submitted, familiesVars>>

-----------------------------------------------------------------------------
FamilyGroup ==
  LET Of(name, ctor, field) ==
        MuMember(FamilyDecl(name, <<>>, <<>>, LevelOne), <<CtorDecl(ctor, <<TeleBinder(Many, field)>>, <<>>, <<>>)>>)
  IN <<Of("A", "mkA", fieldA), Of("B", "mkB", fieldB)>>
ElaboratedFamilies == ElabMuGroup(FamiliesBase, FamilyGroup)

-----------------------------------------------------------------------------
(* Self-application: w takes the function out of its argument and applies  *)
(* it to the argument; w of the value made from w does not end.  path is   *)
(* the way from the argument to the function, the constructors on it.      *)
Wrap(name, ctor, arg) == TIn(SMu(name, <<>>), ACtor(ctor), <<arg>>)
OpenWrap(name, ctor, scrut, inside) ==
  TElim(SMu(name, <<>>), scrut, One, Just(Motive(Just(name), 0, NTy)), <<Branch(ACtor(ctor), Leg(<<Many>>, inside))>>)

Other(name) == IF name = "A" THEN "B" ELSE "A"
CtorName(name) == IF name = "A" THEN "mkA" ELSE "mkB"

SelfFunction(name, path) ==
  Fun(FamilyTy(name),
      IF path = "direct" THEN OpenWrap(name, CtorName(name), TVar(0), Apply(TVar(0), TVar(1)))
      ELSE OpenWrap(name, CtorName(name), TVar(0),
             OpenWrap(Other(name), CtorName(Other(name)), TVar(0), Apply(TVar(0), TVar(2)))))
SelfArgument(name, path) ==
  IF path = "direct" THEN Wrap(name, CtorName(name), SelfFunction(name, path))
  ELSE Wrap(name, CtorName(name), Wrap(Other(name), CtorName(Other(name)), SelfFunction(name, path)))
SelfApplication(name, path) ==
  Apply(TAnn(SelfFunction(name, path), Arrow(Many, FamilyTy(name), NTy)), SelfArgument(name, path))

(* Whatever group of families is accepted, no self-application through     *)
(* their constructors passes the checker: strict positivity holds through  *)
(* the other family of the group and through definitions.                  *)
NoSelfApplication ==
  [][SubmitFamilies /\ ElaboratedFamilies.ok =>
       \A name \in {"A", "B"}, path \in {"direct", "mutual"} :
         ~Then(TypeIn(MakeCtx(ElaboratedFamilies.val, 0), NTy), LAMBDA ty :
             CheckTerm(ElaboratedFamilies.val, SelfApplication(name, path), ty)).ok]_<<submitted, familiesVars>>

-----------------------------------------------------------------------------
(* All explorations.                                                       *)

VARIABLE subject  \* what is built: "recursion", "families", "usage" or "conversion"

kernelVars == <<submitted, subject, recursionVars, familiesVars, usageVars, conversionVars>>

\* Nothing is built and nothing submitted.
NoRecursion == /\ arity = 1 /\ partner = "none" /\ fDomain = "plain" /\ fOpen = 0
               /\ fBody = Z /\ bodySteps = 0
NoFamilies == fieldA = NTy /\ fieldB = NTy /\ fieldSteps = 0
NoUsage == inputs = <<>> /\ openVars = 1 /\ program = Z /\ buildSteps = 0
NoConversion == /\ carrier = "none" /\ leftSide = Side("none", Z) /\ rightSide = Side("other", Z)
                /\ grown = [left |-> 0, right |-> 0]

InitKernel ==
  \/ subject = "recursion" /\ InitRecursion /\ NoFamilies /\ NoUsage /\ NoConversion
  \/ subject = "families" /\ NoRecursion /\ InitFamilies /\ NoUsage /\ NoConversion
  \/ subject = "usage" /\ NoRecursion /\ NoFamilies /\ InitUsage /\ NoConversion
  \/ subject = "conversion" /\ NoRecursion /\ NoFamilies /\ NoUsage /\ InitConversion

Recur == /\ subject = "recursion" /\ NextRecursion
         /\ UNCHANGED <<subject, familiesVars, usageVars, conversionVars>>
Declare == /\ subject = "families" /\ NextFamilies
           /\ UNCHANGED <<subject, recursionVars, usageVars, conversionVars>>
Use == /\ subject = "usage" /\ NextUsage
       /\ UNCHANGED <<subject, recursionVars, familiesVars, conversionVars>>
Convert == /\ subject = "conversion" /\ NextConversion
           /\ UNCHANGED <<subject, recursionVars, familiesVars, usageVars>>

NextKernel == Recur \/ Declare \/ Use \/ Convert
SpecKernel == InitKernel /\ [][NextKernel]_kernelVars
=============================================================================
