--------------------------- MODULE AtomicPublish ---------------------------
(***************************************************************************)
(* What publishing a report directory promises, whatever the file system   *)
(* does: the output name goes from absent to one publisher's complete      *)
(* report in a single step, an output that exists is left alone, and a     *)
(* publisher that reports success has published.  Publish (cli/io.c) and   *)
(* CuoptPublish (artifacts.py) are shown to implement it.                  *)
(***************************************************************************)
CONSTANTS Publishers,  \* the processes that publish to one output name
          Absent,      \* nothing has the output name
          Foreign      \* something the publishers did not make has it

VARIABLES output,      \* Absent, Foreign, or the publisher whose report it is
          status       \* what each publisher has done

vars == <<output, status>>

Statuses == {"pending", "committed", "ok", "failed", "crashed"}

Init ==
  /\ output \in {Absent, Foreign}
  /\ status = [p \in Publishers |-> "pending"]

Move(p, from, to) ==
  /\ status[p] = from
  /\ status' = [status EXCEPT ![p] = to]

\* The complete report appears under the output name, at once.
Commit(p) ==
  /\ output = Absent
  /\ output' = p
  /\ Move(p, "pending", "committed")

Succeed(p) == Move(p, "committed", "ok") /\ UNCHANGED output
Refuse(p)  == Move(p, "pending", "failed") /\ UNCHANGED output
Crash(p)   == (\E s \in {"pending", "committed"} : Move(p, s, "crashed")) /\ UNCHANGED output

\* Other programs may take the free name, and may remove what has it.
Outside ==
  /\ output' = IF output = Absent THEN Foreign ELSE Absent
  /\ UNCHANGED status

Next ==
  \/ \E p \in Publishers : Commit(p) \/ Succeed(p) \/ Refuse(p) \/ Crash(p)
  \/ Outside

Spec == Init /\ [][Next]_vars
=============================================================================
