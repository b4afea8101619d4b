------------------------- MODULE CuoptPublishProof -------------------------
(***************************************************************************)
(* Proofs about CuoptPublish, for any set of publishers, any number of     *)
(* artifacts and any set of failing calls: the temporary directory is      *)
(* removed, contents are never replaced, and publish_directory implements  *)
(* AtomicPublish up to empty directories.                                  *)
(***************************************************************************)
EXTENDS CuoptPublish, TLAPS

LEMMA Constants ==
  /\ NumFiles \in Nat /\ NumFiles > 0
  /\ \A p \in Publishers : p \notin {"absent", "emptydir", "other"}
  BY CuoptPublishAssumption DEF CuoptPublishAssumption

USE Constants

Targets == {"absent", "emptydir", "other"} \cup Publishers

\* The state has its types.
TypeOK ==
  /\ pc \in [Publishers -> Labels]
  /\ written \in [Publishers -> 0 .. NumFiles]
  /\ opened \in [Publishers -> BOOLEAN]
  /\ scratch \in [Publishers -> BOOLEAN]
  /\ target \in Targets
  /\ whole \in BOOLEAN
  /\ outcome \in [Publishers -> Outcomes]

\* What the label of a publisher says of its temporary directory and of the artifacts in
\* it: the loop leaves only when all are complete, and nobody has an outcome before done.
Progress(p) ==
  /\ pc[p] \in {"exists", "temporary"} => ~scratch[p] /\ written[p] = 0 /\ ~opened[p]
  /\ pc[p] \in {"open", "fill"} => written[p] < NumFiles /\ (opened[p] <=> pc[p] = "fill")
  /\ pc[p] \in {"recheck", "rename", "leave"} => written[p] = NumFiles /\ ~opened[p]
  /\ pc[p] \in {"open", "fill", "recheck", "rename", "leave", "unwind"} => scratch[p]
  /\ pc[p] = "done" => (scratch[p] <=> outcome[p] = "cleanup") /\ outcome[p] # "none"

\* What has the output name through a rename is whole.
TargetWhole == target \in Publishers => whole

IInv ==
  /\ TypeOK
  /\ \A p \in Publishers : Progress(p)
  /\ TargetWhole

-----------------------------------------------------------------------------
LEMMA InitIInv == Init => IInv
<1> SUFFICES ASSUME Init PROVE IInv
  OBVIOUS
<1>1. TypeOK
  <2>1. 0 \in 0 .. NumFiles
    OBVIOUS
  <2> QED
    BY <2>1, Zenon DEF Init, TypeOK, Targets, Labels, Outcomes
<1>2. ASSUME NEW p \in Publishers PROVE Progress(p)
  BY DEF Init, Progress
<1>3. TargetWhole
  BY DEF Init, TargetWhole
<1> QED
  BY <1>1, <1>2, <1>3 DEF IInv

\* A step of one publisher keeps the types.
LEMMA StepTypeOK ==
  ASSUME IInv, NEW p \in Publishers, Step(p) \/ Crash(p)
  PROVE  TypeOK'
<1> USE DEF IInv, TypeOK, Labels, Outcomes, Goto, Finish
<1>1. CASE CheckTarget(p)
  BY <1>1 DEF CheckTarget
<1>2. CASE MakeTemporary(p)
  BY <1>2 DEF MakeTemporary
<1>3. CASE OpenArtifact(p)
  BY <1>3 DEF OpenArtifact
<1>4. CASE FillArtifact(p)
  <2>1. written[p] + 1 \in 0 .. NumFiles
    BY <1>4 DEF FillArtifact, Progress
  <2>2. \/ UNCHANGED <<written, opened>>
        \/ /\ opened' = [opened EXCEPT ![p] = FALSE]
           /\ written' = [written EXCEPT ![p] = written[p] + 1]
    BY <1>4 DEF FillArtifact
  <2>3. written' \in [Publishers -> 0 .. NumFiles] /\ opened' \in [Publishers -> BOOLEAN]
    BY <2>1, <2>2
  <2> QED
    BY <1>4, <2>3 DEF FillArtifact
<1>5. CASE RecheckTarget(p)
  BY <1>5 DEF RecheckTarget
<1>6. CASE Rename(p)
  BY <1>6 DEF Rename, Targets
<1>7. CASE Leave(p)
  BY <1>7 DEF Leave
<1>8. CASE Crash(p)
  BY <1>8 DEF Crash
<1> QED
  BY <1>1, <1>2, <1>3, <1>4, <1>5, <1>6, <1>7, <1>8 DEF Step

\* A step of one publisher keeps what its label says, and touches no other publisher.
LEMMA StepProgress ==
  ASSUME IInv, NEW p \in Publishers, Step(p) \/ Crash(p), NEW q \in Publishers
  PROVE  Progress(q)'
<1> USE DEF IInv, TypeOK, Labels, Outcomes, Goto, Finish, Progress
<1>1. CASE CheckTarget(p)
  BY <1>1 DEF CheckTarget
<1>2. CASE MakeTemporary(p)
  BY <1>2 DEF MakeTemporary
<1>3. CASE OpenArtifact(p)
  BY <1>3 DEF OpenArtifact
<1>4. CASE FillArtifact(p)
  BY <1>4 DEF FillArtifact, LastArtifact
<1>5. CASE RecheckTarget(p)
  BY <1>5 DEF RecheckTarget
<1>6. CASE Rename(p)
  BY <1>6 DEF Rename
<1>7. CASE Leave(p)
  BY <1>7 DEF Leave
<1>8. CASE Crash(p)
  BY <1>8 DEF Crash
<1> QED
  BY <1>1, <1>2, <1>3, <1>4, <1>5, <1>6, <1>7, <1>8 DEF Step

\* Only a rename gives a publisher the name, and it renames a whole directory.
LEMMA StepTargetWhole ==
  ASSUME IInv, NEW p \in Publishers, Step(p) \/ Crash(p)
  PROVE  TargetWhole'
<1>1. CASE Rename(p)
  BY <1>1 DEF IInv, TypeOK, Progress, TargetWhole, Rename
<1>2. CASE ~Rename(p)
  BY <1>2 DEF IInv, TargetWhole, Step, CheckTarget, MakeTemporary, OpenArtifact, FillArtifact,
              RecheckTarget, Leave, Crash
<1> QED
  BY <1>1, <1>2

LEMMA NextIInv == IInv /\ [Next]_vars => IInv'
<1> SUFFICES ASSUME IInv, [Next]_vars PROVE IInv'
  OBVIOUS
<1>1. ASSUME NEW p \in Publishers, Step(p) \/ Crash(p) PROVE IInv'
  BY <1>1, StepTypeOK, StepProgress, StepTargetWhole DEF IInv
<1>2. CASE Outside
  BY <1>2 DEF Outside, IInv, TypeOK, Targets, Progress, TargetWhole
<1>3. CASE UNCHANGED vars
  BY <1>3 DEF vars, IInv, TypeOK, Targets, Progress, TargetWhole
<1> QED
  BY <1>1, <1>2, <1>3 DEF Next

LEMMA Invariance == Spec => []IInv
  BY InitIInv, NextIInv, PTL DEF Spec

-----------------------------------------------------------------------------
\* However publish_directory ends, its temporary directory is gone, unless removing it was
\* what failed or the process died.
THEOREM TemporaryGone == Spec => []TemporaryRemoved
<1>1. IInv => TemporaryRemoved
  BY DEF IInv, Progress, TemporaryRemoved
<1> QED
  BY <1>1, Invariance, PTL

\* No step of a publisher or of another program replaces a directory that has contents.
THEOREM ContentsNeverReplaced == Spec => ContentsKept
<1>1. IInv /\ [Next]_vars =>
        [target \notin {"absent", "emptydir"} => target' \in {target, "absent"}]_vars
  BY DEF Next, Step, CheckTarget, MakeTemporary, OpenArtifact, FillArtifact, RecheckTarget, Rename,
         Replaceable, Leave, Crash, Outside, vars
<1> QED
  BY <1>1, Invariance, PTL DEF Spec, ContentsKept

-----------------------------------------------------------------------------
\* The refinement, step by step.
LEMMA InitAtomic == Init => Abstract!Init
  BY DEF Init, Abstract!Init, Output, Shown

\* The step of a publisher shows nothing of the others.
LEMMA MappedMove ==
  ASSUME IInv, NEW p \in Publishers, Step(p) \/ Crash(p), NEW from, NEW to,
         Shown(p) = from, Shown(p)' = to
  PROVE  Abstract!Move(p, from, to)
<1>1. ASSUME NEW q \in Publishers, q # p PROVE Shown(q)' = Shown(q)
  BY <1>1 DEF IInv, TypeOK, Shown, Step, CheckTarget, MakeTemporary, OpenArtifact, FillArtifact,
              RecheckTarget, Rename, Leave, Crash, Goto, Finish
<1> QED
  BY <1>1 DEF Abstract!Move

LEMMA MappedOutput ==
  ASSUME IInv
  PROVE  Output = IF target = "emptydir" THEN "absent" ELSE target
  BY DEF IInv, TargetWhole, Output

\* A step of publisher p is a step of p in AtomicPublish, or changes nothing there.
LEMMA StepAtomic ==
  ASSUME IInv, IInv', NEW p \in Publishers, Step(p) \/ Crash(p)
  PROVE  \/ Abstract!Commit(p) \/ Abstract!Succeed(p) \/ Abstract!Refuse(p) \/ Abstract!Crash(p)
         \/ UNCHANGED Abstract!vars
<1> USE DEF IInv, TypeOK, Progress, Labels, Outcomes
<1>1. Shown(p) \in {"pending", "committed"} /\ (Shown(p) = "committed" <=> pc[p] = "leave")
  BY DEF Shown, Step, CheckTarget, MakeTemporary, OpenArtifact, FillArtifact, RecheckTarget, Rename,
         Leave, Crash
<1>2. CASE Rename(p) /\ pc'[p] = "leave"
  <2>1. Output = "absent" /\ Output' = p
    BY <1>2, MappedOutput DEF Rename, Replaceable, Goto, Output, Targets
  <2>2. Shown(p) = "pending" /\ Shown(p)' = "committed"
    BY <1>2 DEF Rename, Shown
  <2> QED
    BY <2>1, <2>2, MappedMove DEF Abstract!Commit
<1>3. CASE ~(Rename(p) /\ pc'[p] = "leave")
  <2>1. UNCHANGED Output
    BY <1>3 DEF Output, Step, CheckTarget, MakeTemporary, OpenArtifact, FillArtifact, RecheckTarget,
                Rename, Leave, Crash, Goto
  <2>2. CASE Leave(p) /\ pc[p] = "leave"
    <3>1. Shown(p)' \in {"ok", "crashed"}
      BY <2>2 DEF Leave, Finish, Goto, Shown
    <3> QED
      BY <1>1, <2>1, <2>2, <3>1, MappedMove DEF Abstract!Succeed, Abstract!Crash
  <2>3. CASE Leave(p) /\ pc[p] = "unwind"
    <3>1. Shown(p)' \in {"failed", "crashed"}
      BY <2>3 DEF Leave, Finish, Goto, Shown
    <3> QED
      BY <1>1, <2>1, <2>3, <3>1, MappedMove DEF Abstract!Refuse, Abstract!Crash
  <2>4. CASE Crash(p)
    <3>1. Shown(p)' = "crashed"
      BY <2>4 DEF Crash, Goto, Shown
    <3> QED
      BY <1>1, <2>1, <3>1, MappedMove DEF Abstract!Crash
  <2>5. CASE ~Leave(p) /\ ~Crash(p)
    <3>1. Shown(p) = "pending" /\ Shown(p)' \in {"pending", "failed"}
      BY <1>3, <2>5 DEF Step, CheckTarget, MakeTemporary, OpenArtifact, FillArtifact, RecheckTarget,
                        Rename, Goto, Finish, Shown
    <3>2. CASE Shown(p)' = "failed"
      BY <2>1, <3>1, <3>2, MappedMove DEF Abstract!Refuse
    <3>3. CASE Shown(p)' = "pending"
      <4>1. Abstract!Move(p, "pending", "pending")
        BY <3>1, <3>3, MappedMove
      <4> QED
        BY <2>1, <3>1, <4>1 DEF Abstract!Move, Abstract!vars
    <3> QED
      BY <3>1, <3>2, <3>3
  <2> QED
    BY <2>2, <2>3, <2>4, <2>5 DEF Leave
<1> QED
  BY <1>2, <1>3

LEMMA NextAtomic ==
  ASSUME IInv, IInv', [Next]_vars
  PROVE  [Abstract!Next]_(Abstract!vars)
<1>1. CASE \E p \in Publishers : Step(p) \/ Crash(p)
  BY <1>1, StepAtomic DEF Abstract!Next
<1>2. CASE Outside
  <2>1. [p \in Publishers |-> Shown(p)]' = [p \in Publishers |-> Shown(p)]
    BY <1>2 DEF Outside, Shown
  <2>2. Output' = Output \/ Output' = IF Output = "absent" THEN "other" ELSE "absent"
    BY <1>2, MappedOutput DEF Outside, IInv, TypeOK, Targets, Output
  <2> QED
    BY <2>1, <2>2 DEF Abstract!Next, Abstract!Outside, Abstract!vars
<1>3. CASE UNCHANGED vars
  BY <1>3 DEF vars, Abstract!vars, Output, Shown
<1> QED
  BY <1>1, <1>2, <1>3 DEF Next

\* publish_directory implements the one-step publication: the output name goes from free
\* to one publisher's complete artifacts at once, and success is only reported after it.
THEOREM CuoptImplementsAtomic == Spec => Atomic
<1>1. IInv /\ IInv' /\ [Next]_vars => [Abstract!Next]_(Abstract!vars)
  BY NextAtomic
<1> QED
  BY <1>1, InitAtomic, Invariance, PTL DEF Spec, Atomic, Abstract!Spec
=============================================================================
