----------------------------- MODULE GlobalMap -----------------------------
(***************************************************************************)
(* What kernel/global.c promises of the global environment: every version  *)
(* is a map from names to entries, adding and removing make a new version  *)
(* and change no other, and compaction keeps the version it is given.      *)
(* A step that runs out of memory may leave any map as its result, but     *)
(* says so and leaves the other versions alone.                            *)
(***************************************************************************)
EXTENDS Naturals, Sequences

CONSTANTS Names, Entries
VARIABLES versions, oom
vars == <<versions, oom>>

IsMap(map) == DOMAIN map \subseteq Names /\ map \in [DOMAIN map -> Entries]
With(map, name, entry) == [n \in DOMAIN map \cup {name} |-> IF n = name THEN entry ELSE map[n]]
Without(map, name) == [n \in DOMAIN map \ {name} |-> map[n]]

Init == versions = <<[n \in {} |-> {}]>> /\ oom = FALSE

InUse == {versions[i] : i \in DOMAIN versions}

\* A version more; the others are as they were.
NewVersion(map) == versions' = Append(versions, map)

Add == \E new \in InUse' :
         /\ NewVersion(new) /\ UNCHANGED oom
         /\ \E old \in InUse, name \in Names, entry \in Entries : new = With(old, name, entry)
Remove == \E new \in InUse' :
            /\ NewVersion(new) /\ UNCHANGED oom
            /\ \E old \in InUse, name \in Names : new = Without(old, name)
Keep == \E map \in InUse : versions' = <<map>> /\ UNCHANGED oom
RunOut == \E map \in InUse' :
            /\ oom' = TRUE /\ IsMap(map)
            /\ NewVersion(map) \/ versions' = <<map>>

Next == Add \/ Remove \/ Keep \/ RunOut
Spec == Init /\ [][Next]_vars
=============================================================================
