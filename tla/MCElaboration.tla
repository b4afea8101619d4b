--------------------------- MODULE MCElaboration ---------------------------
(***************************************************************************)
(* The elaboration in one run: a behaviour follows the memory of the       *)
(* elaboration through a program (CompactElab), or builds a source term    *)
(* or a scheme (MCProgram) and elaborates it, and the variables of the     *)
(* others stay as they are.                                                *)
(***************************************************************************)
EXTENDS CompactElab

CONSTANTS MaxDepth, MaxLevel, Ceiling, FamilyOrder, MaxSourceSteps, MaxSchemeSteps, MaxInstance

VARIABLES subject, submitted,             \* what is elaborated; what has been given to the elaborator
          sTerm, sType, sSteps,           \* the source term
          made, declaredSort, schemeSteps \* the scheme

P == INSTANCE MCProgram

FamiliesByName == <<"M", "N">>

sourceVars == <<sTerm, sType, sSteps>>
schemesVars == <<made, declaredSort, schemeSteps>>
elaborationVars == <<subject, submitted, vars, sourceVars, schemesVars>>

\* Nothing is built.
NoProgram == Init /\ program = <<>>
NoSource == sTerm = P!Var("x") /\ sType = "N" /\ sSteps = 0
NoScheme == made = P!OfSort(P!Num(1), P!Prop) /\ declaredSort = P!None /\ schemeSteps = 0

InitElaboration ==
  \/ subject = "memory" /\ Init /\ submitted = "nothing" /\ NoSource /\ NoScheme
  \/ subject = "source" /\ NoProgram /\ P!InitSource /\ NoScheme
  \/ subject = "scheme" /\ NoProgram /\ NoSource /\ P!InitSchemes

Manage == subject = "memory" /\ Next /\ UNCHANGED <<subject, submitted, sourceVars, schemesVars>>
Elaborate == subject = "source" /\ P!NextSource /\ UNCHANGED <<subject, vars, schemesVars>>
Specialize == subject = "scheme" /\ P!NextSchemes /\ UNCHANGED <<subject, vars, sourceVars>>
Submitted == submitted # "nothing" /\ UNCHANGED elaborationVars

NextElaboration == Manage \/ Elaborate \/ Specialize \/ Submitted
SpecElaboration == InitElaboration /\ [][NextElaboration]_elaborationVars

-----------------------------------------------------------------------------
(* Programs in which every kind of declaration follows every other, with    *)
(* members before and after a copy, and lines that are renamed or not.      *)
Plain == [kind |-> "plain"]
Group == [kind |-> "group", helpers |-> 2]
SpecLine(count, again, checked) == [members |-> count, renamed |-> again, schema |-> checked]
Compose == [kind |-> "compose", lines |-> <<SpecLine(2, TRUE, 2), SpecLine(1, FALSE, 0)>>,
            trusted |-> 2, pending |-> 1, helpers |-> 1]
Bare == [kind |-> "compose", lines |-> <<>>, trusted |-> 0, pending |-> 0, helpers |-> 2]
Instantiate == [kind |-> "instantiate", members |-> 3]
Kinds == {Plain, Group, Compose, Bare, Instantiate}

MCPrograms == {<<>>} \cup {<<a, b>> : a, b \in Kinds} \cup {<<Compose, Instantiate, Group>>}

-----------------------------------------------------------------------------
\* A source term is accepted exactly if it is typed with the innermost binding of each of its
\* names, and its value is the one that this binding gives.
ElaboratesAsNamed == P!ElaboratesAsNamed

\* A scheme is accepted exactly if it is for all levels, and each instance is the definition with
\* numbers written for its levels.
InstancesAsWritten == P!InstancesAsWritten
=============================================================================
