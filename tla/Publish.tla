------------------------------ MODULE Publish ------------------------------
(***************************************************************************)
(* io_publish (cli/io.c) over the host effects of cli/host_fs.c and        *)
(* rt/effects.c: a report is written into a fresh sibling directory, the   *)
(* directory is renamed to the output name, and a failure removes what was *)
(* staged.  A step is one host effect (one system call, or the two halves  *)
(* of fs_write, which opens and truncates a file before it fills it), so   *)
(* several publishers of one output name, other programs and crashes       *)
(* interleave between the effects of one publication.                      *)
(***************************************************************************)
EXTENDS Naturals

CONSTANTS Publishers,  \* processes running io_publish on one output name
          NumFiles,    \* how many files the report has (the Vec "files")
          MayFail,     \* the host effects that may report an error
          Absent,      \* the output name is free
          Foreign      \* a directory no publisher made has the output name

Effects == {"stat", "stage", "open", "fill", "rename", "unlink", "rmdir", "heap"}

Files == 1 .. NumFiles
FileStates == {"absent", "partial", "full"}
Directory == [Files -> FileStates]

ASSUME PublishAssumption ==
  /\ NumFiles \in Nat
  /\ MayFail \subseteq Effects
  /\ Absent # Foreign
  /\ Absent \notin Publishers \cup Directory
  /\ Foreign \notin Publishers

VARIABLES calm,     \* no effect fails, no process dies and no other program takes the name
          pc,       \* the host effect each publisher performs next
          index,    \* the file the write or cleanup loop is at
          stage,    \* Absent, or the files of the publisher's own directory
          owner,    \* Absent, Foreign, or the publisher whose directory is the output
          content,  \* the files of the output directory
          outcome,  \* what io_publish returned
          oom       \* heap->oom of each process

vars == <<calm, pc, index, stage, owner, content, outcome, oom>>

Empty    == [f \in Files |-> "absent"]
Complete == [f \in Files |-> "full"]

\* IO_DONE; IO_FAIL; and an IO_FAIL whose message says that a temporary output is left
\* behind, which is what io_cleanup_error adds after a failed cleanup.
Outcomes == {"none", "ok", "failed", "left"}

Effectful == {"exists", "mkdtemp", "open", "fill", "recheck", "rename",
              "present", "unlink", "rmdir"}
Labels == Effectful \cup {"report", "done", "crashed"}

Init ==
  /\ calm \in BOOLEAN
  /\ pc = [p \in Publishers |-> "exists"]
  /\ index = [p \in Publishers |-> 1]
  /\ stage = [p \in Publishers |-> Absent]
  /\ owner \in {Absent, Foreign}
  /\ content = Empty
  /\ outcome = [p \in Publishers |-> "none"]
  /\ oom = [p \in Publishers |-> FALSE]

Goto(p, label) == pc' = [pc EXCEPT ![p] = label]
Return(p, o) == outcome' = [outcome EXCEPT ![p] = o] /\ Goto(p, "done")

\* mechanism_fs refuses every effect once the heap has run out.
Works(p) == ~oom[p]
MayGoWrong(effect) == ~calm /\ effect \in MayFail
Fails(p, effect) == oom[p] \/ MayGoWrong(effect)

\* heap_str_cat finds no room for a text: the result is empty and heap->oom is set, for
\* good.  When an error text is built (io_error_text, io_cat3) this may happen or not.
TextLost(p) == (oom[p] \/ MayGoWrong("heap")) /\ oom' = [oom EXCEPT ![p] = TRUE]
ErrorText(p) == UNCHANGED oom \/ TextLost(p)

\* io_cleanup_error after a failed cleanup: the temporary output is in the message,
\* unless the message is lost.
LeaveStage(p) ==
  \/ Return(p, "left") /\ ErrorText(p)
  \/ Return(p, "failed") /\ TextLost(p)

-----------------------------------------------------------------------------
\* Mistakes the properties below must catch: the write loop stops one file early or
\* runs one past the end, the cleanup loop skips the last file.
WriteAtShort(p, i) ==
  /\ index' = [index EXCEPT ![p] = i]
  /\ Goto(p, IF i >= NumFiles THEN "recheck" ELSE "open")

CleanAtShort(p, i) ==
  /\ index' = [index EXCEPT ![p] = i]
  /\ Goto(p, IF i >= NumFiles THEN "rmdir" ELSE "present")

-----------------------------------------------------------------------------
\* io_write_files calls io_write_file on file i, or is past the last one.
WriteAt(p, i) ==
  /\ index' = [index EXCEPT ![p] = i]
  /\ Goto(p, IF i > NumFiles THEN "recheck" ELSE "open")

\* io_cleanup_files is at file i, or past the last one, where it removes the directory.
CleanAt(p, i) ==
  /\ index' = [index EXCEPT ![p] = i]
  /\ Goto(p, IF i > NumFiles THEN "rmdir" ELSE "present")

-----------------------------------------------------------------------------
\* io_exists answers "0": what it looks for is absent, or the effect failed.
Absence(p, absent) ==
  \/ absent /\ UNCHANGED oom
  \/ Fails(p, "stat") /\ ErrorText(p)

\* io_publish: io_exists of the target.
CheckTarget(p) ==
  /\ pc[p] = "exists"
  /\ \/ /\ Works(p) /\ owner # Absent
        /\ Return(p, "failed")
        /\ ErrorText(p)
     \/ /\ Absence(p, owner = Absent)
        /\ Goto(p, "mkdtemp")
        /\ UNCHANGED outcome
  /\ UNCHANGED <<index, stage, owner, content>>

\* io_publish_exists: HOST_FS_STAGE makes a fresh sibling directory.
MakeStage(p) ==
  /\ pc[p] = "mkdtemp"
  /\ \/ /\ Works(p)
        /\ stage' = [stage EXCEPT ![p] = Empty]
        /\ WriteAt(p, 1)
        /\ UNCHANGED <<outcome, oom>>
     \/ /\ Fails(p, "stage")
        /\ Return(p, "failed")
        /\ ErrorText(p)
        /\ UNCHANGED <<index, stage>>
  /\ UNCHANGED <<owner, content>>

\* fs_write, first half: open with O_CREAT | O_TRUNC.
OpenFile(p) ==
  /\ pc[p] = "open"
  /\ \/ /\ Works(p)
        /\ stage' = [stage EXCEPT ![p][index[p]] = "partial"]
        /\ Goto(p, "fill")
        /\ UNCHANGED <<index, oom>>
     \/ /\ Fails(p, "open")
        /\ CleanAt(p, 1)
        /\ ErrorText(p)
        /\ UNCHANGED stage
  /\ UNCHANGED <<owner, content, outcome>>

\* fs_write, second half: the write loop and close.
FillFile(p) ==
  /\ pc[p] = "fill"
  /\ \/ /\ stage' = [stage EXCEPT ![p][index[p]] = "full"]
        /\ WriteAt(p, index[p] + 1)
        /\ UNCHANGED oom
     \/ /\ MayGoWrong("fill")
        /\ CleanAt(p, 1)
        /\ ErrorText(p)
        /\ UNCHANGED stage
  /\ UNCHANGED <<owner, content, outcome>>

\* Mistake: the second check looks at the staged directory, which always exists.
RecheckStage(p) ==
  /\ pc[p] = "recheck"
  /\ CleanAt(p, 1)
  /\ UNCHANGED <<stage, owner, content, outcome, oom>>

\* io_publish_written: io_exists of the target again.
RecheckTarget(p) ==
  /\ pc[p] = "recheck"
  /\ \/ /\ Works(p) /\ owner # Absent
        /\ CleanAt(p, 1)
        /\ ErrorText(p)
     \/ /\ Absence(p, owner = Absent)
        /\ Goto(p, "rename")
        /\ UNCHANGED index
  /\ UNCHANGED <<stage, owner, content, outcome>>

\* Mistake: a plain rename, which replaces what has the name.
RenameReplaces(p) == Works(p)

\* The kernel's rename with RENAME_NOREPLACE: EEXIST when the name is taken.
RenameTakes(p) == Works(p) /\ owner = Absent

\* Mistake: a rename that took place is reported as failed.
RenameForgets(p) ==
  /\ pc[p] = "rename"
  /\ IF RenameTakes(p)
       THEN owner' = p /\ content' = stage[p] /\ stage' = [stage EXCEPT ![p] = Empty]
       ELSE UNCHANGED <<owner, content, stage>>
  /\ CleanAt(p, 1)
  /\ UNCHANGED <<outcome, oom>>

\* io_publish_rename: fs_rename, which refuses to replace what has the target name.
Rename(p) ==
  /\ pc[p] = "rename"
  /\ \/ /\ RenameTakes(p)
        /\ owner' = p
        /\ content' = stage[p]
        /\ stage' = [stage EXCEPT ![p] = Absent]
        /\ Goto(p, "report")
        /\ UNCHANGED <<index, oom>>
     \/ /\ ~RenameTakes(p) \/ Fails(p, "rename")
        /\ CleanAt(p, 1)
        /\ ErrorText(p)
        /\ UNCHANGED <<owner, content, stage>>
  /\ UNCHANGED outcome

\* io_finish_publish, IO_DONE.
Report(p) ==
  /\ pc[p] = "report"
  /\ Return(p, "ok")
  /\ UNCHANGED <<index, stage, owner, content, oom>>

\* Mistake: a file that is not present is looked at again.
StatStuck(p) ==
  /\ pc[p] = "present"
  /\ \/ /\ Works(p) /\ stage[p][index[p]] # "absent"
        /\ Goto(p, "unlink")
        /\ UNCHANGED <<index, oom>>
     \/ /\ Absence(p, stage[p][index[p]] = "absent")
        /\ CleanAt(p, index[p])
  /\ UNCHANGED <<stage, owner, content, outcome>>

\* io_cleanup_files: io_exists of the file, which a failed stat skips.
StatStaged(p) ==
  /\ pc[p] = "present"
  /\ \/ /\ Works(p) /\ stage[p][index[p]] # "absent"
        /\ Goto(p, "unlink")
        /\ UNCHANGED <<index, oom>>
     \/ /\ Absence(p, stage[p][index[p]] = "absent")
        /\ CleanAt(p, index[p] + 1)
  /\ UNCHANGED <<stage, owner, content, outcome>>

\* io_remove_if_exists: a file that cannot be removed ends the cleanup.
UnlinkStaged(p) ==
  /\ pc[p] = "unlink"
  /\ \/ /\ Works(p)
        /\ stage' = [stage EXCEPT ![p][index[p]] = "absent"]
        /\ CleanAt(p, index[p] + 1)
        /\ UNCHANGED <<outcome, oom>>
     \/ /\ Fails(p, "unlink")
        /\ LeaveStage(p)
        /\ UNCHANGED <<stage, index>>
  /\ UNCHANGED <<owner, content>>

\* Mistake: the result of the cleanup is not looked at.
RemoveQuietly(p) ==
  /\ pc[p] = "rmdir"
  /\ Return(p, "failed")
  /\ stage' = IF Works(p) /\ stage[p] = Empty
               THEN [stage EXCEPT ![p] = Absent] ELSE stage
  /\ UNCHANGED <<index, owner, content, oom>>

\* io_remove_dir: rmdir succeeds on an empty directory only.
RemoveStage(p) ==
  /\ pc[p] = "rmdir"
  /\ \/ /\ Works(p) /\ stage[p] = Empty
        /\ stage' = [stage EXCEPT ![p] = Absent]
        /\ Return(p, "failed")
        /\ UNCHANGED oom
     \/ /\ stage[p] # Empty \/ Fails(p, "rmdir")
        /\ LeaveStage(p)
        /\ UNCHANGED stage
  /\ UNCHANGED <<index, owner, content>>

\* The heap runs out while heap_str_cat builds the path of the next file.
ExhaustHeap(p) ==
  /\ "heap" \in MayFail
  /\ pc[p] \in {"open", "present"}
  /\ oom[p] = FALSE
  /\ oom' = [oom EXCEPT ![p] = TRUE]
  /\ UNCHANGED <<pc, index, stage, owner, content, outcome>>

-----------------------------------------------------------------------------
\* The process dies between two effects; nothing it staged is removed.
Crash(p) ==
  /\ pc[p] \in Effectful \cup {"report"}
  /\ Goto(p, "crashed")
  /\ UNCHANGED <<index, stage, owner, content, outcome, oom>>

\* Another program takes the free output name, or removes what has it.
Outside ==
  /\ \/ owner = Absent /\ owner' = Foreign
     \/ owner # Absent /\ owner' = Absent
  /\ content' = Empty
  /\ UNCHANGED <<pc, index, stage, outcome, oom>>

Effect(p) ==
  \/ CheckTarget(p) \/ MakeStage(p) \/ OpenFile(p) \/ FillFile(p)
  \/ RecheckTarget(p) \/ Rename(p) \/ Report(p)
  \/ StatStaged(p) \/ UnlinkStaged(p) \/ RemoveStage(p)

Step(p) == Effect(p) /\ UNCHANGED calm

\* What befalls the publishers from outside when the world is not calm.
Disturb ==
  /\ ~calm
  /\ \/ \E p \in Publishers : ExhaustHeap(p) \/ Crash(p)
     \/ Outside
  /\ UNCHANGED calm

Next == Disturb \/ \E p \in Publishers : Step(p)

Spec == Init /\ [][Next]_vars

\* io_publish is straight-line code: a process that has not died runs on.
FairSpec == Spec /\ \A p \in Publishers : WF_vars(Step(p))

-----------------------------------------------------------------------------
(* What a publisher's label says of its index and its directory. *)
InLoop  == {"open", "fill", "present", "unlink"}
Staged  == InLoop \cup {"recheck", "rename", "rmdir"}
Unstaged == {"exists", "mkdtemp", "report"}

\* The state has its types, a loop's index is one of the files, and the publisher's
\* own directory exists from mkdtemp until it is renamed or removed.
TypeOK ==
  /\ calm \in BOOLEAN
  /\ pc \in [Publishers -> Labels]
  /\ index \in [Publishers -> 1 .. NumFiles + 1]
  /\ stage \in [Publishers -> Directory \cup {Absent}]
  /\ owner \in Publishers \cup {Absent, Foreign}
  /\ content \in Directory
  /\ outcome \in [Publishers -> Outcomes]
  /\ oom \in [Publishers -> BOOLEAN]
  /\ \A p \in Publishers :
       /\ pc[p] \in InLoop => index[p] \in Files
       /\ pc[p] \in Staged => stage[p] \in Directory
       /\ pc[p] \in Unstaged => stage[p] = Absent

\* The write loop has filled every file before the one it is at, and all of them when
\* it asks for the rename.
WrittenSoFar ==
  \A p \in Publishers :
    /\ pc[p] \in {"open", "fill"} => \A f \in 1 .. index[p] - 1 : stage[p][f] = "full"
    /\ pc[p] \in {"recheck", "rename"} => stage[p] = Complete

\* A directory that has the output name through io_publish holds every file of the
\* report, complete, whichever effects failed or processes died on the way.
PublishedComplete == owner \in Publishers => content = Complete

\* What io_publish returned tells whether its temporary directory is still there: a
\* success leaves none, one that is left behind is in the message, and a failure whose
\* message says nothing of it leaves none, unless heap->oom tells the caller that texts
\* are missing.
StageAccounted ==
  \A p \in Publishers : pc[p] = "done" =>
    /\ outcome[p] = "ok" => stage[p] = Absent
    /\ outcome[p] = "failed" => stage[p] = Absent \/ oom[p]
    /\ outcome[p] = "left" => stage[p] # Absent
    /\ outcome[p] # "none"

\* No publisher replaces or changes an output that exists; it can only be removed by
\* another program.
NeverReplaced ==
  [][owner # Absent => owner' \in {owner, Absent} /\ (owner' = owner => content' = content)]_vars

\* The publication as AtomicPublish shows it.
Output == IF owner \in Publishers /\ content # Complete THEN "torn" ELSE owner

Shown(p) ==
  CASE pc[p] = "crashed" -> "crashed"
    [] pc[p] = "report"  -> "committed"
    [] pc[p] = "done"    -> IF outcome[p] = "ok" THEN "ok" ELSE "failed"
    [] OTHER             -> "pending"

Abstract == INSTANCE AtomicPublish WITH
  output <- Output, status <- [p \in Publishers |-> Shown(p)]

\* io_publish implements the atomic publication of AtomicPublish.
Atomic == Abstract!Spec

\* With the name free, no other program and no failing effect, some publisher
\* succeeds.
SomeoneSucceeds == calm /\ owner = Absent => <>(\E p \in Publishers : outcome[p] = "ok")

\* io_publish returns or its process dies; and without failing effects no temporary
\* directory is left in the end, not even by the publishers that lost the race.
NothingLeft ==
  /\ \A p \in Publishers : <>(pc[p] \in {"done", "crashed"})
  /\ calm => <>[](\A p \in Publishers : stage[p] = Absent)
=============================================================================
