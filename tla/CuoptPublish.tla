---------------------------- MODULE CuoptPublish ----------------------------
(***************************************************************************)
(* publish_directory (mechanism_cuopt/artifacts.py): the artifacts of an   *)
(* auction are written into "ready" inside a temporary directory beside    *)
(* the output, "ready" is renamed to the output name, and leaving the      *)
(* with-block removes the temporary directory, after success and after an  *)
(* exception alike.  Path.rename is POSIX rename: unlike the rename of     *)
(* Publish it replaces an empty directory.  A step is one file-system      *)
(* call; publishers, other programs and crashes interleave.                *)
(***************************************************************************)
EXTENDS Naturals

CONSTANTS Publishers,  \* processes that publish to one output name
          NumFiles,    \* how many artifacts there are
          MayFail      \* the calls that may raise OSError

ASSUME CuoptPublishAssumption ==
  /\ NumFiles \in Nat \ {0}
  /\ MayFail \subseteq {"mkdir", "temporary", "open", "fill", "rename", "rmtree"}
  /\ {"absent", "emptydir", "other"} \cap Publishers = {}

VARIABLES pc,       \* the call each publisher makes next
          written,  \* artifacts of each publisher that are complete
          opened,   \* whether one more is open and partly written
          scratch,  \* whether the temporary directory exists
          target,   \* "absent", "emptydir", "other" or the publisher it is from
          whole,    \* whether the output holds all artifacts, complete
          outcome   \* what the caller of publish_directory sees

vars == <<pc, written, opened, scratch, target, whole, outcome>>

Labels == {"exists", "temporary", "open", "fill", "recheck", "rename",
           "leave", "unwind", "done", "crashed"}
Outcomes == {"none", "ok", "failed", "cleanup"}

Init ==
  /\ pc = [p \in Publishers |-> "exists"]
  /\ written = [p \in Publishers |-> 0]
  /\ opened = [p \in Publishers |-> FALSE]
  /\ scratch = [p \in Publishers |-> FALSE]
  /\ target \in {"absent", "emptydir", "other"}
  /\ whole = FALSE
  /\ outcome = [p \in Publishers |-> "none"]

Goto(p, label) == pc' = [pc EXCEPT ![p] = label]
Finish(p, o) == outcome' = [outcome EXCEPT ![p] = o] /\ Goto(p, "done")

\* require(not target.exists()), before anything is written.
CheckTarget(p) ==
  /\ pc[p] = "exists"
  /\ \/ target # "absent" /\ Finish(p, "failed")
     \/ target = "absent" /\ Goto(p, "temporary") /\ UNCHANGED outcome
     \/ "mkdir" \in MayFail /\ target = "absent" /\ Finish(p, "failed")
  /\ UNCHANGED <<written, opened, scratch, target, whole>>

\* TemporaryDirectory beside the output, and stage.mkdir() in it.
MakeTemporary(p) ==
  /\ pc[p] = "temporary"
  /\ \/ scratch' = [scratch EXCEPT ![p] = TRUE] /\ Goto(p, "open") /\ UNCHANGED outcome
     \/ /\ "temporary" \in MayFail
        /\ \/ Finish(p, "failed") /\ UNCHANGED scratch
           \/ scratch' = [scratch EXCEPT ![p] = TRUE] /\ Goto(p, "unwind") /\ UNCHANGED outcome
  /\ UNCHANGED <<written, opened, target, whole>>

\* (stage / name).write_bytes(data), first half: open for writing.
OpenArtifact(p) ==
  /\ pc[p] = "open"
  /\ \/ opened' = [opened EXCEPT ![p] = TRUE] /\ Goto(p, "fill")
     \/ "open" \in MayFail /\ Goto(p, "unwind") /\ UNCHANGED opened
  /\ UNCHANGED <<written, scratch, target, whole, outcome>>

\* Mistake: the loop leaves out the last artifact.
LastArtifactShort(n) == n + 1 >= NumFiles

\* "for name, data in files.items()" ends with the last artifact.
LastArtifact(n) == n >= NumFiles

\* (stage / name).write_bytes(data), second half.
FillArtifact(p) ==
  /\ pc[p] = "fill"
  /\ \/ /\ opened' = [opened EXCEPT ![p] = FALSE]
        /\ written' = [written EXCEPT ![p] = @ + 1]
        /\ Goto(p, IF LastArtifact(written[p] + 1) THEN "recheck" ELSE "open")
     \/ "fill" \in MayFail /\ Goto(p, "unwind") /\ UNCHANGED <<written, opened>>
  /\ UNCHANGED <<scratch, target, whole, outcome>>

\* require(not target.exists(), "output directory appeared during publication").
RecheckTarget(p) ==
  /\ pc[p] = "recheck"
  /\ Goto(p, IF target = "absent" THEN "rename" ELSE "unwind")
  /\ UNCHANGED <<written, opened, scratch, target, whole, outcome>>

\* Mistake: the check made before the rename is relied on, the rename replaces anything.
ReplaceableAny(t) == t \in {"absent", "emptydir", "other"} \cup Publishers

\* What POSIX rename puts a directory in place of.
Replaceable(t) == t \in {"absent", "emptydir"}

\* stage.rename(target).
Rename(p) ==
  /\ pc[p] = "rename"
  /\ \/ /\ Replaceable(target)
        /\ target' = p
        /\ whole' = (written[p] = NumFiles /\ ~opened[p])
        /\ Goto(p, "leave")
     \/ /\ ~Replaceable(target) \/ "rename" \in MayFail
        /\ Goto(p, "unwind")
        /\ UNCHANGED <<target, whole>>
  /\ UNCHANGED <<written, opened, scratch, outcome>>

\* Mistake: an exception does not remove the temporary directory.
LeaveOnSuccessOnly(p) ==
  /\ pc[p] \in {"leave", "unwind"}
  /\ Finish(p, IF pc[p] = "leave" THEN "ok" ELSE "failed")
  /\ scratch' = [scratch EXCEPT ![p] = pc[p] = "unwind"]
  /\ UNCHANGED <<written, opened, target, whole>>

\* TemporaryDirectory.__exit__ removes what is left; its own failure is raised.
Leave(p) ==
  /\ pc[p] \in {"leave", "unwind"}
  /\ \/ /\ scratch' = [scratch EXCEPT ![p] = FALSE]
        /\ Finish(p, IF pc[p] = "leave" THEN "ok" ELSE "failed")
     \/ "rmtree" \in MayFail /\ Finish(p, "cleanup") /\ UNCHANGED scratch
  /\ UNCHANGED <<written, opened, target, whole>>

Crash(p) ==
  /\ pc[p] \notin {"done", "crashed"}
  /\ Goto(p, "crashed")
  /\ UNCHANGED <<written, opened, scratch, target, whole, outcome>>

\* Another program makes a directory, puts something in it, or removes it.
Outside ==
  /\ \/ target = "absent" /\ target' \in {"emptydir", "other"}
     \/ target = "emptydir" /\ target' \in {"other", "absent"}
     \/ target \notin {"absent", "emptydir"} /\ target' = "absent"
  /\ whole' = FALSE
  /\ UNCHANGED <<pc, written, opened, scratch, outcome>>

Step(p) ==
  \/ CheckTarget(p) \/ MakeTemporary(p) \/ OpenArtifact(p) \/ FillArtifact(p)
  \/ RecheckTarget(p) \/ Rename(p) \/ Leave(p)

Next == (\E p \in Publishers : Step(p) \/ Crash(p)) \/ Outside

Spec == Init /\ [][Next]_vars /\ \A p \in Publishers : WF_vars(Step(p))

-----------------------------------------------------------------------------
\* However publish_directory ends, an exception included, its temporary directory is
\* gone, unless removing it was what failed or the process died.
TemporaryRemoved ==
  \A p \in Publishers : pc[p] = "done" => (scratch[p] <=> outcome[p] = "cleanup")

\* A directory with anything in it is never replaced: two settlements of one name
\* cannot overwrite each other.
ContentsKept ==
  [][target \notin {"absent", "emptydir"} => target' \in {target, "absent"}]_vars

\* The publication as AtomicPublish shows it.  An empty directory counts as a free name;
\* a publisher whose cleanup raised after its rename has not told its caller that it
\* published.
Output == IF target = "emptydir" THEN "absent"
          ELSE IF target \in Publishers /\ ~whole THEN "torn" ELSE target

Shown(p) ==
  IF pc[p] = "crashed" THEN "crashed"
  ELSE IF pc[p] = "leave" THEN "committed"
  ELSE IF pc[p] # "done" THEN "pending"
  ELSE IF outcome[p] = "ok" THEN "ok"
  ELSE IF outcome[p] = "failed" \/ written[p] < NumFiles THEN "failed"
  ELSE "crashed"

Abstract == INSTANCE AtomicPublish WITH
  Absent <- "absent", Foreign <- "other",
  output <- Output, status <- [p \in Publishers |-> Shown(p)]

\* publish_directory implements the one-step publication, up to empty directories.
Atomic == Abstract!Spec

\* What artifacts.py says of the second check: an output directory that appears during
\* publication is refused.  The check and the rename are two calls.
AppearedIsRefused == [][target = "emptydir" => target' \notin Publishers]_vars
=============================================================================
