---------------------------- MODULE PublishProof ----------------------------
(***************************************************************************)
(* Proofs about Publish for any set of publishers, any number of files and *)
(* any choice of failing effects.                                          *)
(***************************************************************************)
EXTENDS Publish, TLAPS

\* The inductive invariant: what the labels say of index and stage (in TypeOK), the
\* files written so far, and the two facts about the output and the outcome.
IInv == TypeOK /\ WrittenSoFar /\ PublishedComplete /\ StageAccounted

USE PublishAssumption DEF Files, FileStates, Effects

\* Directories made by the model are directories.
LEMMA Directories == Empty \in Directory /\ Complete \in Directory
  BY DEF Empty, Complete, Directory

\* Changing one file of a directory leaves a directory.
LEMMA DirectoryUpdate ==
  ASSUME NEW d \in Directory, NEW f \in Files, NEW v \in FileStates
  PROVE  [d EXCEPT ![f] = v] \in Directory
  BY DEF Directory

\* The one way a publisher changes its own directory in place.
LEMMA StageUpdate ==
  ASSUME stage \in [Publishers -> Directory \cup {Absent}], NEW p \in Publishers,
         stage[p] \in Directory, NEW f \in Files, NEW v \in FileStates,
         stage' = [stage EXCEPT ![p][f] = v]
  PROVE  /\ stage' \in [Publishers -> Directory \cup {Absent}]
         /\ stage'[p] = [stage[p] EXCEPT ![f] = v]
         /\ stage'[p] \in Directory
         /\ \A q \in Publishers : q # p => stage'[q] = stage[q]
<1>1. [stage[p] EXCEPT ![f] = v] \in Directory
  BY DirectoryUpdate
<1> QED
  BY <1>1

\* Every initial state has its types.
LEMMA InitTypeOK == Init => TypeOK
  BY Directories DEF Init, TypeOK, Labels, Effectful, Outcomes, InLoop, Staged, Unstaged

\* Every step keeps the flags of the heaps in their type.
LEMMA OomKept ==
  ASSUME TypeOK, [Next]_vars
  PROVE  oom' \in [Publishers -> BOOLEAN]
<1>1. oom \in [Publishers -> BOOLEAN]
  BY DEF TypeOK
<1>2. \A p \in Publishers : ErrorText(p) \/ TextLost(p) => oom' \in [Publishers -> BOOLEAN]
  BY <1>1 DEF ErrorText, TextLost
<1>3. \A p \in Publishers, absent \in BOOLEAN : Absence(p, absent) => UNCHANGED oom \/ ErrorText(p)
  BY DEF Absence
<1>4. ASSUME NEW p \in Publishers, Effect(p)
      PROVE  UNCHANGED oom \/ ErrorText(p) \/ TextLost(p)
  BY <1>3, <1>4 DEF Effect, CheckTarget, MakeStage, OpenFile, FillFile, RecheckTarget, Rename, Report,
     StatStaged, UnlinkStaged, RemoveStage, LeaveStage
<1>5. ASSUME NEW p \in Publishers, ExhaustHeap(p) \/ Crash(p)
      PROVE  oom' \in [Publishers -> BOOLEAN]
  BY <1>1, <1>5 DEF ExhaustHeap, Crash
<1>6. CASE Outside \/ UNCHANGED vars
  BY <1>1, <1>6 DEF Outside, vars
<1> QED
  BY <1>1, <1>2, <1>4, <1>5, <1>6 DEF Next, Disturb, Step

\* No step leaves the types.
LEMMA NextTypeOK == TypeOK /\ [Next]_vars => TypeOK'
<1> SUFFICES ASSUME TypeOK, [Next]_vars PROVE TypeOK'
  OBVIOUS
<1> USE DEF TypeOK, Labels, Effectful, Outcomes, InLoop, Staged, Unstaged, Goto, Return, LeaveStage
<1>0. oom' \in [Publishers -> BOOLEAN]
  BY OomKept
<1>1. ASSUME NEW p \in Publishers, CheckTarget(p), UNCHANGED calm PROVE TypeOK'
  BY <1>0, <1>1 DEF CheckTarget
<1>2. ASSUME NEW p \in Publishers, MakeStage(p), UNCHANGED calm PROVE TypeOK'
  BY <1>0, <1>2, Directories DEF MakeStage, WriteAt
<1>3. ASSUME NEW p \in Publishers, OpenFile(p), UNCHANGED calm PROVE TypeOK'
  <2>1. index[p] \in Files /\ stage[p] \in Directory
    BY <1>0, <1>3 DEF OpenFile
  <2>2. CASE stage' = [stage EXCEPT ![p][index[p]] = "partial"]
    <3>1. /\ stage' \in [Publishers -> Directory \cup {Absent}]
          /\ stage'[p] \in Directory
          /\ \A q \in Publishers : q # p => stage'[q] = stage[q]
      BY <2>1, <2>2, StageUpdate
    <3> QED
      BY <1>0, <1>3, <2>1, <3>1 DEF OpenFile, CleanAt
  <2>3. CASE UNCHANGED stage
    BY <1>0, <1>3, <2>1, <2>3 DEF OpenFile, CleanAt
  <2> QED
    BY <1>0, <1>3, <2>2, <2>3 DEF OpenFile
<1>4. ASSUME NEW p \in Publishers, FillFile(p), UNCHANGED calm PROVE TypeOK'
  <2>1. index[p] \in Files /\ stage[p] \in Directory
    BY <1>0, <1>4 DEF FillFile
  <2>2. CASE stage' = [stage EXCEPT ![p][index[p]] = "full"]
    <3>1. /\ stage' \in [Publishers -> Directory \cup {Absent}]
          /\ stage'[p] \in Directory
          /\ \A q \in Publishers : q # p => stage'[q] = stage[q]
      BY <2>1, <2>2, StageUpdate
    <3> QED
      BY <1>0, <1>4, <2>1, <3>1 DEF FillFile, WriteAt, CleanAt
  <2>3. CASE UNCHANGED stage
    BY <1>0, <1>4, <2>1, <2>3 DEF FillFile, WriteAt, CleanAt
  <2> QED
    BY <1>0, <1>4, <2>2, <2>3 DEF FillFile
<1>5. ASSUME NEW p \in Publishers, RecheckTarget(p), UNCHANGED calm PROVE TypeOK'
  BY <1>0, <1>5 DEF RecheckTarget, CleanAt
<1>6. ASSUME NEW p \in Publishers, Rename(p), UNCHANGED calm PROVE TypeOK'
  BY <1>0, <1>6 DEF Rename, CleanAt
<1>7. ASSUME NEW p \in Publishers, Report(p), UNCHANGED calm PROVE TypeOK'
  BY <1>0, <1>7 DEF Report
<1>8. ASSUME NEW p \in Publishers, StatStaged(p), UNCHANGED calm PROVE TypeOK'
  BY <1>0, <1>8 DEF StatStaged, CleanAt
<1>9. ASSUME NEW p \in Publishers, UnlinkStaged(p), UNCHANGED calm PROVE TypeOK'
  <2>1. index[p] \in Files /\ stage[p] \in Directory
    BY <1>0, <1>9 DEF UnlinkStaged
  <2>2. CASE stage' = [stage EXCEPT ![p][index[p]] = "absent"]
    <3>1. /\ stage' \in [Publishers -> Directory \cup {Absent}]
          /\ stage'[p] \in Directory
          /\ \A q \in Publishers : q # p => stage'[q] = stage[q]
      BY <2>1, <2>2, StageUpdate
    <3> QED
      BY <1>0, <1>9, <2>1, <3>1 DEF UnlinkStaged, CleanAt
  <2>3. CASE UNCHANGED stage
    BY <1>0, <1>9, <2>1, <2>3 DEF UnlinkStaged, CleanAt
  <2> QED
    BY <1>0, <1>9, <2>2, <2>3 DEF UnlinkStaged
<1>10. ASSUME NEW p \in Publishers, RemoveStage(p), UNCHANGED calm PROVE TypeOK'
  BY <1>0, <1>10 DEF RemoveStage
<1>11. ASSUME NEW p \in Publishers, ExhaustHeap(p), UNCHANGED calm PROVE TypeOK'
  BY <1>0, <1>11 DEF ExhaustHeap
<1>12. ASSUME NEW p \in Publishers, Crash(p), UNCHANGED calm PROVE TypeOK'
  BY <1>0, <1>12 DEF Crash
<1>13. ASSUME Outside, UNCHANGED calm PROVE TypeOK'
  BY <1>0, <1>13, Directories DEF Outside
<1>14. CASE UNCHANGED vars
  BY <1>0, <1>14 DEF vars
<1> QED
  BY <1>1, <1>2, <1>3, <1>4, <1>5, <1>6, <1>7, <1>8, <1>9, <1>10, <1>11, <1>12,
     <1>13, <1>14 DEF Next, Step, Effect, Disturb

\* The state has its types in every reachable state, for every number of publishers
\* and files.
THEOREM TypeCorrect == Spec => []TypeOK
  BY InitTypeOK, NextTypeOK, PTL DEF Spec

-----------------------------------------------------------------------------
Moves(p) == Effect(p) \/ ExhaustHeap(p) \/ Crash(p)

Kept(q) == pc'[q] = pc[q] /\ index'[q] = index[q] /\ stage'[q] = stage[q]
           /\ outcome'[q] = outcome[q] /\ oom'[q] = oom[q]

\* A publisher's step leaves the labels, loops and directories of the others alone.
LEMMA Frame ==
  ASSUME TypeOK, NEW p \in Publishers, Moves(p), NEW q \in Publishers, q # p
  PROVE  Kept(q)
<1> USE DEF TypeOK, Kept, Goto, Return, WriteAt, CleanAt, TextLost, ErrorText, Absence, LeaveStage
<1>1. CASE CheckTarget(p) \/ MakeStage(p) \/ RecheckTarget(p) \/ Rename(p)
  BY <1>1 DEF CheckTarget, MakeStage, RecheckTarget, Rename
<1>2. CASE OpenFile(p) \/ FillFile(p)
  BY <1>2 DEF OpenFile, FillFile
<1>3. CASE Report(p) \/ StatStaged(p) \/ UnlinkStaged(p) \/ RemoveStage(p)
  BY <1>3 DEF Report, StatStaged, UnlinkStaged, RemoveStage
<1>4. CASE ExhaustHeap(p) \/ Crash(p)
  BY <1>4 DEF ExhaustHeap, Crash
<1> QED
  BY <1>1, <1>2, <1>3, <1>4 DEF Moves, Effect

Written(p) ==
  /\ pc[p] \in {"open", "fill"} => \A f \in 1 .. index[p] - 1 : stage[p][f] = "full"
  /\ pc[p] \in {"recheck", "rename"} => stage[p] = Complete

\* The step of a publisher keeps the files it has written so far: the write loop
\* moves to the next file only when the present one is full.
LEMMA MovesWritten ==
  ASSUME NEW p \in Publishers, TypeOK, TypeOK', Written(p), Moves(p)
  PROVE  Written(p)'
<1> USE DEF TypeOK, Written, Goto, Return, LeaveStage, Labels, Effectful, Outcomes
<1>1. CASE MakeStage(p)
  BY <1>1 DEF MakeStage, WriteAt, Empty, Complete, InLoop, Staged, Unstaged
<1>2. CASE OpenFile(p)
  <2>1. index[p] \in Files /\ stage[p] \in Directory
    BY <1>2 DEF OpenFile, InLoop, Staged
  <2>2. CASE stage' = [stage EXCEPT ![p][index[p]] = "partial"] /\ Goto(p, "fill")
    <3>1. stage'[p] = [stage[p] EXCEPT ![index[p]] = "partial"]
      BY <2>1, <2>2, StageUpdate
    <3> QED
      BY <1>2, <2>1, <2>2, <3>1 DEF OpenFile, CleanAt, Directory
  <2>3. CASE CleanAt(p, 1)
    BY <1>2, <2>3 DEF CleanAt
  <2> QED
    BY <1>2, <2>2, <2>3 DEF OpenFile
<1>3. CASE FillFile(p)
  <2>1. index[p] \in Files /\ stage[p] \in Directory
    BY <1>3 DEF FillFile, InLoop, Staged
  <2>2. CASE stage' = [stage EXCEPT ![p][index[p]] = "full"] /\ WriteAt(p, index[p] + 1)
    <3>1. stage'[p] = [stage[p] EXCEPT ![index[p]] = "full"] /\ stage'[p] \in Directory
      BY <2>1, <2>2, StageUpdate
    <3>2. \A f \in 1 .. index[p] : stage'[p][f] = "full"
      BY <1>3, <2>1, <3>1 DEF FillFile, Directory
    <3>3. index'[p] = index[p] + 1
      BY <2>2 DEF WriteAt
    <3>4. CASE index[p] + 1 > NumFiles
      <4>1. \A f \in Files : stage'[p][f] = "full"
        BY <2>1, <3>2, <3>4
      <4>2. stage'[p] = Complete
        BY <4>1, <3>1 DEF Complete, Directory
      <4> QED
        BY <2>2, <3>4, <4>2 DEF WriteAt
    <3>5. CASE ~(index[p] + 1 > NumFiles)
      BY <2>1, <2>2, <3>2, <3>3, <3>5 DEF WriteAt
    <3> QED
      BY <3>4, <3>5
  <2>3. CASE CleanAt(p, 1)
    BY <1>3, <2>3 DEF CleanAt
  <2> QED
    BY <1>3, <2>2, <2>3 DEF FillFile
<1>4. CASE CheckTarget(p) \/ RecheckTarget(p) \/ Rename(p) \/ Report(p)
  BY <1>4 DEF CheckTarget, RecheckTarget, Rename, Report, CleanAt
<1>5. CASE StatStaged(p) \/ UnlinkStaged(p) \/ RemoveStage(p)
  BY <1>5 DEF StatStaged, UnlinkStaged, RemoveStage, CleanAt
<1>6. CASE ExhaustHeap(p) \/ Crash(p)
  BY <1>6 DEF ExhaustHeap, Crash
<1> QED
  BY <1>1, <1>2, <1>3, <1>4, <1>5, <1>6 DEF Moves, Effect

Accounted(p) ==
  pc[p] = "done" =>
    /\ outcome[p] = "ok" => stage[p] = Absent
    /\ outcome[p] = "failed" => stage[p] = Absent \/ oom[p]
    /\ outcome[p] = "left" => stage[p] # Absent
    /\ outcome[p] # "none"

\* The step of a publisher that returns says what became of its directory.
LEMMA MovesAccounted ==
  ASSUME NEW p \in Publishers, TypeOK, TypeOK', Accounted(p), Moves(p)
  PROVE  Accounted(p)'
<1> USE DEF TypeOK, Accounted, Goto, Return, TextLost, ErrorText, LeaveStage, Outcomes, InLoop, Staged,
           Unstaged
<1>1. CASE CheckTarget(p) \/ MakeStage(p) \/ OpenFile(p) \/ FillFile(p)
  BY <1>1 DEF CheckTarget, MakeStage, OpenFile, FillFile, WriteAt, CleanAt
<1>2. CASE RecheckTarget(p) \/ Rename(p) \/ Report(p) \/ StatStaged(p)
  BY <1>2 DEF RecheckTarget, Rename, Report, StatStaged, CleanAt
<1>3. CASE UnlinkStaged(p)
  BY <1>3 DEF UnlinkStaged, CleanAt
<1>4. CASE RemoveStage(p)
  BY <1>4 DEF RemoveStage
<1>5. CASE ExhaustHeap(p) \/ Crash(p)
  BY <1>5 DEF ExhaustHeap, Crash
<1> QED
  BY <1>1, <1>2, <1>3, <1>4, <1>5 DEF Moves, Effect

\* The output changes only by a rename, which brings a complete directory, and by
\* other programs.
LEMMA NextPublished ==
  ASSUME TypeOK, WrittenSoFar, PublishedComplete, [Next]_vars
  PROVE  PublishedComplete'
<1> USE DEF PublishedComplete
<1>1. ASSUME NEW p \in Publishers, Rename(p) PROVE PublishedComplete'
  BY <1>1 DEF Rename, WrittenSoFar
<1>2. CASE Outside
  BY <1>2 DEF Outside, TypeOK
<1>3. CASE UNCHANGED vars
  BY <1>3 DEF vars
<1>4. ASSUME NEW p \in Publishers, Moves(p), ~Rename(p) PROVE UNCHANGED <<owner, content>>
  BY <1>4 DEF Moves, Effect, CheckTarget, MakeStage, OpenFile, FillFile, RecheckTarget,
     Report, StatStaged, UnlinkStaged, RemoveStage, ExhaustHeap, Crash
<1> QED
  BY <1>1, <1>2, <1>3, <1>4 DEF Next, Disturb, Step, Moves

\* IInv holds initially and every step keeps it.
LEMMA InitIInv == Init => IInv
  BY InitTypeOK DEF Init, IInv, WrittenSoFar, PublishedComplete, StageAccounted

LEMMA NextIInv == IInv /\ [Next]_vars => IInv'
<1> SUFFICES ASSUME IInv, [Next]_vars PROVE IInv'
  OBVIOUS
<1>1. TypeOK'
  BY NextTypeOK DEF IInv
<1>2. PublishedComplete'
  BY NextPublished DEF IInv
<1>3. \A q \in Publishers : Written(q) /\ Accounted(q)
  BY DEF IInv, WrittenSoFar, StageAccounted, Written, Accounted
<1>4. \A q \in Publishers : Written(q)' /\ Accounted(q)'
  <2>1. CASE \E p \in Publishers : Moves(p)
    <3> PICK p \in Publishers : Moves(p)
      BY <2>1
    <3> TAKE q \in Publishers
    <3>1. CASE q = p
      BY <1>1, <1>3, <3>1, MovesWritten, MovesAccounted DEF IInv
    <3>2. CASE q # p
      <4>1. Kept(q)
        BY <3>2, Frame DEF IInv
      <4> QED
        BY <1>3, <4>1 DEF Kept, Written, Accounted
    <3> QED
      BY <3>1, <3>2
  <2>2. CASE Outside
    BY <1>3, <2>2 DEF Outside, Written, Accounted
  <2>3. CASE UNCHANGED vars
    BY <1>3, <2>3 DEF vars, Written, Accounted
  <2> QED
    BY <2>1, <2>2, <2>3 DEF Next, Disturb, Step, Moves
<1> QED
  BY <1>1, <1>2, <1>4 DEF IInv, WrittenSoFar, StageAccounted, Written, Accounted

LEMMA Invariance == Spec => []IInv
  BY InitIInv, NextIInv, PTL DEF Spec

\* A directory with the output name that a publisher made is complete.
THEOREM PublicationComplete == Spec => []PublishedComplete
<1>1. IInv => PublishedComplete
  BY DEF IInv
<1> QED
  BY <1>1, Invariance, PTL

\* What io_publish returned tells whether its temporary directory is left; only when the
\* heap ran out, which heap->oom tells, may the message say nothing of one that is.
THEOREM OutcomeAccounts == Spec => []StageAccounted
<1>1. IInv => StageAccounted
  BY DEF IInv
<1> QED
  BY <1>1, Invariance, PTL

\* No publisher replaces or changes an output that exists.
THEOREM OutputNeverReplaced == Spec => NeverReplaced
<1>1. [Next]_vars => [owner # Absent => owner' \in {owner, Absent}
                                        /\ (owner' = owner => content' = content)]_vars
  BY DEF Next, Disturb, Step, Effect, CheckTarget, MakeStage, OpenFile, FillFile, RecheckTarget, Rename,
     RenameTakes, Report, StatStaged, UnlinkStaged, RemoveStage, ExhaustHeap, Crash,
     Outside, vars
<1> QED
  BY <1>1, PTL DEF Spec, NeverReplaced

-----------------------------------------------------------------------------
\* The initial states are initial states of AtomicPublish.
LEMMA InitAtomic == Init => Abstract!Init
  BY DEF Init, Abstract!Init, Output, Shown

\* What other publishers show of themselves in AtomicPublish changes only in their
\* own steps.
LEMMA MappedMove ==
  ASSUME IInv, NEW p \in Publishers, Moves(p),
         NEW from, NEW to,
         Shown(p) = from, Shown(p)' = to
  PROVE  Abstract!Move(p, from, to)
<1>1. \A q \in Publishers : q # p => Shown(q)' = Shown(q)
  BY Frame DEF IInv, Kept, Shown
<1> QED
  BY <1>1 DEF Abstract!Move, Shown

\* Every step is a step of AtomicPublish, or changes nothing it shows.
LEMMA NextAtomic ==
  ASSUME IInv, IInv', [Next]_vars
  PROVE  [Abstract!Next]_(Abstract!vars)
<1> USE DEF IInv
<1>1. Output = owner /\ Output' = owner'
  BY DEF PublishedComplete, Output
<1>2. ASSUME NEW p \in Publishers, Moves(p), Shown(p)' = Shown(p), owner' = owner
      PROVE UNCHANGED Abstract!vars
  <2>1. \A q \in Publishers : Shown(q)' = Shown(q)
    BY <1>2, Frame DEF Kept, Shown
  <2> QED
    BY <1>1, <1>2, <2>1 DEF Abstract!vars
<1>3. ASSUME NEW p \in Publishers, Moves(p), Shown(p) = "pending", Shown(p)' = "failed",
             owner' = owner
      PROVE Abstract!Refuse(p)
  BY <1>1, <1>3, MappedMove DEF Abstract!Refuse
<1>4. ASSUME NEW p \in Publishers, CheckTarget(p) \/ MakeStage(p) \/ UnlinkStaged(p) \/ RemoveStage(p)
      PROVE [Abstract!Next]_(Abstract!vars)
  <2>1. owner' = owner /\ Moves(p) /\ Shown(p) = "pending" /\ Shown(p)' \in {"pending", "failed"}
    BY <1>4 DEF CheckTarget, MakeStage, UnlinkStaged, RemoveStage, LeaveStage, WriteAt, CleanAt, Goto,
       Return, Shown, Moves, Effect, TypeOK
  <2> QED
    BY <1>2, <1>3, <2>1 DEF Abstract!Next
<1>5. ASSUME NEW p \in Publishers, OpenFile(p) \/ FillFile(p) \/ RecheckTarget(p) \/ StatStaged(p)
             \/ ExhaustHeap(p)
      PROVE [Abstract!Next]_(Abstract!vars)
  <2>1. owner' = owner /\ Moves(p) /\ Shown(p)' = Shown(p)
    BY <1>5 DEF OpenFile, FillFile, RecheckTarget, StatStaged, ExhaustHeap, WriteAt, CleanAt,
       Goto, Shown, Moves, Effect, TypeOK
  <2> QED
    BY <1>2, <2>1
<1>6. ASSUME NEW p \in Publishers, Rename(p) PROVE [Abstract!Next]_(Abstract!vars)
  <2>1. CASE RenameTakes(p) /\ owner' = p /\ Goto(p, "report")
    <3>1. Shown(p) = "pending" /\ Shown(p)' = "committed" /\ Moves(p)
      BY <1>6, <2>1 DEF Rename, Goto, Shown, Moves, Effect, TypeOK
    <3>2. Abstract!Commit(p)
      BY <1>1, <2>1, <3>1, MappedMove DEF Abstract!Commit, RenameTakes
    <3> QED
      BY <3>2 DEF Abstract!Next
  <2>2. CASE CleanAt(p, 1) /\ owner' = owner
    <3>1. Shown(p)' = Shown(p) /\ Moves(p)
      BY <1>6, <2>2 DEF Rename, CleanAt, Goto, Shown, Moves, Effect, TypeOK
    <3> QED
      BY <1>2, <2>2, <3>1
  <2> QED
    BY <1>6, <2>1, <2>2 DEF Rename
<1>7. ASSUME NEW p \in Publishers, Report(p) PROVE [Abstract!Next]_(Abstract!vars)
  <2>1. Shown(p) = "committed" /\ Shown(p)' = "ok" /\ Moves(p) /\ owner' = owner
    BY <1>7 DEF Report, Return, Goto, Shown, Moves, Effect, TypeOK
  <2>2. Abstract!Succeed(p)
    BY <1>1, <2>1, MappedMove DEF Abstract!Succeed
  <2> QED
    BY <2>2 DEF Abstract!Next
<1>8. ASSUME NEW p \in Publishers, Crash(p) PROVE [Abstract!Next]_(Abstract!vars)
  <2>1. Shown(p) \in {"pending", "committed"} /\ Shown(p)' = "crashed" /\ Moves(p) /\ owner' = owner
    BY <1>8 DEF Crash, Effectful, Goto, Shown, Moves, TypeOK
  <2>2. Abstract!Crash(p)
    BY <1>1, <2>1, MappedMove DEF Abstract!Crash
  <2> QED
    BY <2>2 DEF Abstract!Next
<1>9. CASE Outside
  <2>1. Output' = IF Output = Absent THEN Foreign ELSE Absent
    BY <1>1, <1>9 DEF Outside
  <2>2. \A q \in Publishers : Shown(q)' = Shown(q)
    BY <1>9 DEF Outside, Shown
  <2>3. Abstract!Outside
    BY <2>1, <2>2 DEF Abstract!Outside
  <2> QED
    BY <2>3 DEF Abstract!Next
<1>10. CASE UNCHANGED vars
  <2>1. owner' = owner /\ \A q \in Publishers : Shown(q)' = Shown(q)
    BY <1>10 DEF vars, Shown
  <2> QED
    BY <1>1, <2>1 DEF Abstract!vars
<1> QED
  BY <1>4, <1>5, <1>6, <1>7, <1>8, <1>9, <1>10 DEF Next, Disturb, Step, Effect

\* io_publish implements AtomicPublish, for any number of publishers and files.
THEOREM PublishImplementsAtomic == Spec => Atomic
<1>1. Spec => []IInv
  BY Invariance
<1>2. IInv /\ IInv' /\ [Next]_vars => [Abstract!Next]_(Abstract!vars)
  BY NextAtomic
<1> QED
  BY <1>1, <1>2, InitAtomic, PTL DEF Spec, Atomic, Abstract!Spec
=============================================================================
