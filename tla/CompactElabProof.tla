-------------------------- MODULE CompactElabProof --------------------------
(***************************************************************************)
(* Memory safety of the compact elaboration, for programs of any length    *)
(* with any number of members.  The argument is a discipline: at each step *)
(* of the code certain arenas are owned, no others are allocated, and the  *)
(* values that are still needed lead to owned arenas only.  Behind it, the *)
(* order of the runs, with an invariant of its own.                        *)
(***************************************************************************)
EXTENDS CompactElab, Integers, TLAPS

\* The scratch arenas that are owned beside live, by the step that is next.
Scratch(step) ==
  IF step = "schema_member" THEN {arenas.keep, arenas.base}
  ELSE IF step \in {"open_member", "map_member"} THEN {arenas.keep} ELSE {}
Owned(step) == {arenas.live} \cup Scratch(step)

\* The values that are still needed.
Held(step) ==
  CASE step \in {"group_member", "compose_member"} -> {"state", "compose"}
    [] step \in {"line", "check_member"} -> {"state", "start"}
    [] step = "line_member" -> {"state", "start", "head", "mapped"}
    [] step \in {"schema", "line_tail"} -> {"state", "start", "head"}
    [] step = "schema_member" -> {"state", "start", "head", "globals"}
    [] step \in {"open_member", "map_member"} -> {"state", "head", "mapped"}
    [] OTHER -> {"state"}

\* A schema is checked apart: what goes on after it does not lead to the arenas it is checked on.
Apart(step, values) ==
  step = "schema_member" => \A h \in {"state", "start", "head"} : values[h] \subseteq {arenas.live}

\* Exactly these arenas are allocated, and nothing has gone wrong.
Clean(m, ids) == m = [alive |-> ids, report |-> "none"]

Types == fresh \in Nat /\ arenas \in [Roles -> Nat] /\ refs \in [Holders -> SUBSET Nat]

Going(step) ==
  /\ step # "returned" /\ outcome = "none"
  /\ arenas.live \notin Scratch(step) /\ Owned(step) \subseteq 1..fresh
  /\ Clean(mem, Owned(step))
  /\ Apart(step, refs)
  /\ \A h \in Held(step) : refs[h] \subseteq Owned(step)
Over == at = "returned" /\ outcome # "none" /\ Clean(mem, {})

\* The inductive invariant.
IInv == Types /\ (Going(at) \/ Over)

-----------------------------------------------------------------------------
\* What is needed is among the values.
LEMMA HeldHolders == \A step : Held(step) \subseteq Holders
  BY DEF Held, Holders

\* The statements on memory, when they are used as they should be.
LEMMA NewClean ==
  ASSUME NEW m, NEW S, NEW ids, Clean(m, S)
  PROVE  Clean(New(m, ids), S \cup ids)
  BY DEF Clean, New

LEMMA ReadClean ==
  ASSUME NEW m, NEW S, NEW ids \in SUBSET S, Clean(m, S)
  PROVE  Clean(Read(m, ids), S)
  BY DEF Clean, Read

LEMMA FreeClean ==
  ASSUME NEW m, NEW S, NEW ids \in SUBSET S, Clean(m, S)
  PROVE  Clean(Free(m, ids), S \ ids)
  BY DEF Clean, Free

\* Values that lead to owned arenas do so together.
LEMMA RefsOfOwned ==
  ASSUME NEW holders, NEW S, \A h \in holders : refs[h] \subseteq S
  PROVE  RefsOf(holders) \subseteq S
  BY DEF RefsOf

\* A new arena is not one of the old ones.
LEMMA NewArena ==
  ASSUME NEW n \in Nat
  PROVE  /\ n + 1 \in Nat /\ n + 1 \in 1..(n + 1) /\ n + 1 \notin 1..n
         /\ 1..n \subseteq 1..(n + 1) /\ 1..n \subseteq Nat
  OBVIOUS

-----------------------------------------------------------------------------
\* The elaboration stops with nothing allocated.
LEMMA Stopped ==
  ASSUME Types, NEW m, NEW result, result # "none", Clean(m, {}), Stop(result, m)
  PROVE  IInv'
  BY DEF Types, Stop, IInv, Over, Clean

\* Out of memory: the scratch arenas are freed, then live.
LEMMA OutOfMemory ==
  ASSUME Types, NEW m, NEW scratch, arenas.live \notin scratch,
         Clean(m, {arenas.live} \cup scratch), RunsOut(m, scratch)
  PROVE  IInv'
<1>1. Clean(Free(m, scratch), {arenas.live})
  <2>1. Clean(Free(m, scratch), ({arenas.live} \cup scratch) \ scratch)
    BY FreeClean
  <2>2. ({arenas.live} \cup scratch) \ scratch = {arenas.live}
    OBVIOUS
  <2> QED
    BY <2>1, <2>2
<1>2. Clean(CompactHostOom(Free(m, scratch)), {})
  <2>1. Clean(Free(Free(m, scratch), {arenas.live}), {arenas.live} \ {arenas.live})
    BY <1>1, FreeClean
  <2> QED
    BY <2>1 DEF CompactHostOom
<1> QED
  BY <1>2, Stopped DEF RunsOut

\* A run that refuses: the error is copied, then live is freed, then the scratch arenas.
LEMMA Refused ==
  ASSUME Types, NEW m, NEW on, NEW holders, NEW scratch, arenas.live \notin scratch,
         on \in {arenas.live} \cup scratch, RefsOf(holders) \subseteq {arenas.live} \cup scratch,
         Clean(m, {arenas.live} \cup scratch), Fails(m, on, holders, scratch)
  PROVE  IInv'
<1> DEFINE S == {arenas.live} \cup scratch
           ran == Read(m, RefsOf(holders))
<1>1. Clean(ran, S)
  BY ReadClean
<1>2. CASE RunsOut(ran, scratch)
  BY <1>1, <1>2, OutOfMemory
<1>3. CASE Stop("fail", Free(CompactFailure(ran, Result(on, holders)), scratch))
  <2>1. Clean(Read(ran, Result(on, holders)), S)
    BY <1>1, ReadClean DEF Result
  <2>2. Clean(CompactFailure(ran, Result(on, holders)), scratch)
    <3>1. Clean(Free(Read(ran, Result(on, holders)), {arenas.live}), S \ {arenas.live})
      BY <2>1, FreeClean
    <3>2. S \ {arenas.live} = scratch
      OBVIOUS
    <3> QED
      BY <3>1, <3>2 DEF CompactFailure
  <2>3. Clean(Free(CompactFailure(ran, Result(on, holders)), scratch), scratch \ scratch)
    BY <2>2, FreeClean
  <2> HIDE DEF S, ran
  <2> QED
    BY <1>3, <2>3, Stopped
<1> QED
  BY <1>2, <1>3 DEF Fails

\* The elaboration goes on without a copy.
LEMMA Kept ==
  ASSUME Types, outcome = "none", NEW m, NEW n \in Nat, NEW values \in [Holders -> SUBSET Nat],
         NEW step, step # "returned", NEW d, NEW l, NEW k,
         arenas.live \notin Scratch(step), Owned(step) \subseteq 1..n, Clean(m, Owned(step)),
         Apart(step, values), \A h \in Held(step) : values[h] \subseteq Owned(step),
         NoSwap(m, n, values), GoTo(step, d, l, k)
  PROVE  IInv'
<1>1. Types' /\ at' = step /\ outcome' = "none" /\ arenas' = arenas
  BY DEF NoSwap, GoTo, Types
<1>2. Scratch(step)' = Scratch(step) /\ Owned(step)' = Owned(step)
  BY <1>1 DEF Scratch, Owned
<1>3. Going(step)'
  BY <1>1, <1>2 DEF NoSwap, Going, Clean, Apart
<1> QED
  BY <1>1, <1>3 DEF IInv

\* The elaboration goes on with a copy, after which only live is owned.
LEMMA Copied ==
  ASSUME Types, outcome = "none", NEW m, NEW n \in Nat, NEW values \in [Holders -> SUBSET Nat],
         NEW survivors \in SUBSET Holders, NEW scratch,
         arenas.live \notin scratch, {arenas.live} \cup scratch \subseteq 1..n,
         Clean(m, {arenas.live} \cup scratch),
         \A h \in survivors : values[h] \subseteq {arenas.live} \cup scratch,
         NEW step, step \notin {"returned", "schema_member", "open_member", "map_member"},
         Held(step) \subseteq survivors, NEW d, NEW l, NEW k,
         Swap(m, n, values, survivors, scratch), Continue(step, d, l, k)
  PROVE  IInv'
<1> DEFINE next == n + 1
           old == {arenas.live} \cup scratch
           read == UNION {values[h] : h \in survivors}
           after == Free(Free(Read(New(m, {next}), read), {arenas.live}), scratch)
<1>0. next \in Nat /\ next \notin old /\ next \in 1..next
  BY NewArena
<1>1. Clean(after, {next})
  <2>1. Clean(Read(New(m, {next}), read), old \cup {next})
    <3>1. read \subseteq old \cup {next}
      OBVIOUS
    <3>2. Clean(New(m, {next}), old \cup {next})
      BY NewClean
    <3> HIDE DEF read
    <3> QED
      BY <3>1, <3>2, ReadClean
  <2>2. Clean(Free(Read(New(m, {next}), read), {arenas.live}), scratch \cup {next})
    <3>1. (old \cup {next}) \ {arenas.live} = scratch \cup {next}
      BY <1>0
    <3> HIDE DEF read
    <3>2. Clean(Free(Read(New(m, {next}), read), {arenas.live}), (old \cup {next}) \ {arenas.live})
      BY <2>1, FreeClean
    <3> QED
      BY <3>1, <3>2
  <2>3. (scratch \cup {next}) \ scratch = {next}
    BY <1>0
  <2> HIDE DEF read, next
  <2>4. Clean(after, (scratch \cup {next}) \ scratch)
    BY <2>2, FreeClean
  <2> QED
    BY <2>3, <2>4
<1>2. /\ fresh' = next /\ arenas' = [arenas EXCEPT !.live = next]
      /\ refs' = [h \in Holders |-> IF h \in survivors THEN {next} ELSE values[h]]
      /\ \/ mem' = after /\ outcome' = outcome
         \/ mem' = Free(after, {next}) /\ outcome' = "oom"
  BY DEF Swap
<1>3. Types'
  <2> HIDE DEF next
  <2>1. arenas' \in [Roles -> Nat]
    BY <1>0, <1>2 DEF Types, Roles
  <2>2. refs' \in [Holders -> SUBSET Nat]
    <3>1. \A h \in Holders : (IF h \in survivors THEN {next} ELSE values[h]) \in SUBSET Nat
      BY <1>0
    <3> QED
      BY <1>2, <3>1
  <2> QED
    BY <1>0, <1>2, <2>1, <2>2 DEF Types
<1> HIDE DEF after
<1>4. CASE mem' = after /\ outcome' = outcome
  <2>1. at' = step /\ outcome' = "none"
    BY <1>4 DEF Continue, GoTo
  <2>2. arenas'.live = next
    BY <1>2 DEF Types, Roles
  <2>3. Scratch(step)' = {} /\ Owned(step)' = {next}
    BY <2>2 DEF Scratch, Owned
  <2>4. \A h \in Held(step) : refs'[h] = {next}
    BY <1>2
  <2>5. {next} \subseteq 1..next
    BY <1>0
  <2>6. Going(step)'
    BY <1>1, <1>2, <1>4, <2>1, <2>2, <2>3, <2>4, <2>5 DEF Going, Clean, Apart
  <2> QED
    BY <1>3, <2>1, <2>6 DEF IInv
<1>5. CASE mem' = Free(after, {next}) /\ outcome' = "oom"
  <2>1. Clean(Free(after, {next}), {next} \ {next})
    BY <1>1, FreeClean
  <2>2. at' = "returned"
    BY <1>5 DEF Continue, GoTo
  <2> QED
    BY <1>3, <1>5, <2>1, <2>2 DEF IInv, Over, Clean
<1> QED
  BY <1>2, <1>4, <1>5

\* A member on a step arena: it reads what is owned, and what is kept of it is copied.
LEMMA MemberKept ==
  ASSUME Types, Going(at), at \in {"line_member", "schema_member", "open_member", "map_member"},
         NEW holders \in SUBSET Held(at), NEW target \in Owned(at), NEW result \in Held(at),
         at = "schema_member" => result = "globals",
         MemberOnStep(holders, target, result, Scratch(at))
  PROVE  IInv'
<1> DEFINE step == fresh + 1
           all == {arenas.live} \cup ({step} \cup Scratch(at))
           ran == Read(New(mem, {step}), RefsOf(holders))
           copied == Free(Read(ran, Result(step, holders)), {step})
<1>1. /\ step \in Nat /\ step \notin Owned(at)
      /\ Owned(at) \subseteq 1..step /\ Owned(at) \subseteq Nat
  <2>1. fresh \in Nat /\ Owned(at) \subseteq 1..fresh
    BY DEF Types, Going
  <2> QED
    BY <2>1, NewArena
<1>2. RefsOf(holders) \subseteq Owned(at)
  BY RefsOfOwned DEF Going
<1>3. all = Owned(at) \cup {step} /\ arenas.live \notin {step} \cup Scratch(at)
  BY <1>1 DEF Owned, Going
<1> HIDE DEF step
<1>4. Clean(New(mem, {step}), all)
  BY <1>3, NewClean DEF Going
<1>5. Clean(copied, Owned(at))
  <2>1. Clean(ran, all)
    BY <1>2, <1>3, <1>4, ReadClean
  <2>2. Clean(Read(ran, Result(step, holders)), all)
    BY <1>2, <1>3, <2>1, ReadClean DEF Result
  <2>3. Clean(copied, all \ {step})
    BY <1>3, <2>2, FreeClean
  <2> QED
    BY <1>1, <1>3, <2>3
<1>6. CASE Fails(New(mem, {step}), step, holders, {step} \cup Scratch(at))
  <2>1. RefsOf(holders) \subseteq all
    BY <1>2, <1>3
  <2> QED
    BY <1>3, <1>4, <1>6, <2>1, Refused
<1>7. CASE RunsOut(copied, Scratch(at))
  BY <1>5, <1>7, OutOfMemory DEF Owned, Going
<1>8. CASE NoSwap(copied, step, With(result, refs[result] \cup {target})) /\ GoTo(at, decl, line, i + 1)
  <2> DEFINE values == With(result, refs[result] \cup {target})
  <2>1. result \in Holders /\ target \in Nat /\ refs[result] \subseteq Owned(at)
    <3>1. result \in Holders
      BY HeldHolders
    <3>2. refs[result] \subseteq Owned(at)
      BY DEF Going
    <3> QED
      BY <1>1, <3>1, <3>2
  <2>2. values \in [Holders -> SUBSET Nat]
    BY <2>1 DEF Types, With
  <2>3. \A h \in Held(at) : values[h] \subseteq Owned(at)
    BY <2>1, HeldHolders DEF Types, With, Going
  <2>4. /\ outcome = "none" /\ at # "returned" /\ arenas.live \notin Scratch(at)
        /\ NoSwap(copied, step, values) /\ GoTo(at, decl, line, i + 1)
    BY <1>8 DEF Going
  <2>5. Apart(at, values)
    <3> SUFFICES ASSUME at = "schema_member", NEW h \in {"state", "start", "head"}
                 PROVE  values[h] \subseteq {arenas.live}
      BY DEF Apart
    <3>1. h \in Holders /\ h # "globals" /\ refs[h] \subseteq {arenas.live}
      BY DEF Going, Apart, Holders
    <3> QED
      BY <3>1 DEF Types, With
  <2> HIDE DEF values, copied
  <2> QED
    BY <1>1, <1>5, <2>2, <2>3, <2>4, <2>5, Kept
<1> HIDE DEF copied
<1> QED
  BY <1>6, <1>7, <1>8 DEF MemberOnStep, step, copied

-----------------------------------------------------------------------------
\* What the actions use of the states they start in.
LEMMA Reading ==
  ASSUME Types, Going(at), NEW holders \in SUBSET Held(at)
  PROVE  /\ RefsOf(holders) \subseteq Owned(at)
         /\ Clean(After(holders), Owned(at))
         /\ Result(arenas.live, holders) \subseteq Owned(at)
         /\ \A h \in Holders : Makes(h, holders) \in [Holders -> SUBSET Nat]
         /\ fresh \in Nat /\ Owned(at) \subseteq 1..fresh /\ Owned(at) \subseteq Nat
<1>1. RefsOf(holders) \subseteq Owned(at)
  BY RefsOfOwned DEF Going
<1>2. Clean(After(holders), Owned(at))
  BY <1>1, ReadClean DEF After, Going
<1>3. Result(arenas.live, holders) \subseteq Owned(at)
  BY <1>1 DEF Result, Owned
<1>4. fresh \in Nat /\ Owned(at) \subseteq 1..fresh /\ Owned(at) \subseteq Nat
  BY DEF Types, Going
<1>5. \A h \in Holders : Makes(h, holders) \in [Holders -> SUBSET Nat]
  BY <1>3, <1>4 DEF Makes, With, Types
<1> QED
  BY <1>1, <1>2, <1>3, <1>4, <1>5

\* A run in live that fails where no scratch arena is owned.
LEMMA RefusedInLive ==
  ASSUME Types, Going(at), Scratch(at) = {}, NEW holders \in SUBSET Held(at), FailsInLive(holders)
  PROVE  IInv'
<1>1. RefsOf(holders) \subseteq {arenas.live} /\ Clean(mem, {arenas.live})
  BY Reading DEF Going, Owned
<1> QED
  BY <1>1, Refused DEF FailsInLive

\* A run in live that is done, and after which live stays.
LEMMA KeptInLive ==
  ASSUME Types, Going(at), Scratch(at) = {}, NEW holders \in SUBSET Held(at),
         NEW holder \in Holders, NEW step,
         step \notin {"returned", "schema_member", "open_member", "map_member"},
         Held(step) \subseteq Held(at) \cup {holder}, NEW d, NEW l, NEW k,
         NoSwap(After(holders), fresh, Makes(holder, holders)), GoTo(step, d, l, k)
  PROVE  IInv'
<1> DEFINE values == Makes(holder, holders)
<1>1. Scratch(step) = {} /\ Owned(step) = Owned(at)
  BY DEF Scratch, Owned
<1>2. \A h \in Held(step) : values[h] \subseteq Owned(step)
  <2>1. Result(arenas.live, holders) \subseteq Owned(at)
    BY Reading
  <2>2. \A h \in Held(at) : refs[h] \subseteq Owned(at)
    BY DEF Going
  <2>3. \A h \in Held(step) : h \in Holders
    BY HeldHolders
  <2> QED
    BY <1>1, <2>1, <2>2, <2>3 DEF Makes, With, Types
<1>3. /\ values \in [Holders -> SUBSET Nat] /\ fresh \in Nat /\ Owned(step) \subseteq 1..fresh
      /\ Clean(After(holders), Owned(step)) /\ outcome = "none" /\ Apart(step, values)
  BY <1>1, Reading DEF Going, Apart
<1> HIDE DEF values
<1> QED
  BY <1>1, <1>2, <1>3, Kept DEF values

\* A run in live that is done, and after which what survives is copied.
LEMMA CopiedFromLive ==
  ASSUME Types, Going(at), Scratch(at) = {}, NEW holders \in SUBSET Held(at),
         NEW values \in [Holders -> SUBSET Nat], NEW survivors \in SUBSET Holders,
         \A h \in survivors : values[h] \subseteq Owned(at), NEW step,
         step \notin {"returned", "schema_member", "open_member", "map_member"},
         Held(step) \subseteq survivors, NEW d, NEW l, NEW k,
         Swap(After(holders), fresh, values, survivors, {}), Continue(step, d, l, k)
  PROVE  IInv'
<1>1. Owned(at) = {arenas.live} \cup {}
  BY DEF Owned
<1>2. /\ fresh \in Nat /\ {arenas.live} \cup {} \subseteq 1..fresh
      /\ Clean(After(holders), {arenas.live} \cup {}) /\ outcome = "none"
  BY <1>1, Reading DEF Going
<1>3. \A h \in survivors : values[h] \subseteq {arenas.live} \cup {}
  BY <1>1
<1> QED
  BY <1>2, <1>3, Copied

-----------------------------------------------------------------------------
\* Plain declarations, and the copy between declarations.
LEMMA PlainEntrySafe == Types /\ Going(at) /\ PlainEntry => IInv'
<1> SUFFICES ASSUME Types, Going(at), PlainEntry PROVE IInv'
  OBVIOUS
<1>1. /\ Scratch(at) = {} /\ {"state"} \in SUBSET Held(at) /\ "state" \in Holders
      /\ Held("declared") \subseteq Held(at) \cup {"state"}
  BY DEF PlainEntry, Begins, Scratch, Held, Holders
<1> QED
  BY <1>1, RefusedInLive, KeptInLive DEF PlainEntry

LEMMA DeclaredSafe == Types /\ Going(at) /\ Declared => IInv'
<1> SUFFICES ASSUME Types, Going(at), Declared PROVE IInv'
  OBVIOUS
<1>1. /\ at = "declared" /\ outcome = "none" /\ Continue("declaration", decl + 1, 1, 1)
      /\ refs \in [Holders -> SUBSET Nat] /\ fresh \in Nat
  BY DEF Declared, Going, Types
<1>2. /\ Scratch(at) = {} /\ Held(at) = {"state"} /\ {"state"} \in SUBSET Holders
      /\ Held("declaration") = {"state"}
      /\ Scratch("declaration") = {} /\ Owned("declaration") = Owned(at)
      /\ Owned(at) = {arenas.live} \cup {}
  BY <1>1 DEF Scratch, Owned, Held, Holders
<1>3. /\ \A h \in {"state"} : refs[h] \subseteq Owned(at)
      /\ Clean(mem, Owned(at)) /\ Owned(at) \subseteq 1..fresh
  BY <1>2 DEF Going
<1>4. CASE NoSwap(mem, fresh, refs)
  <2>1. GoTo("declaration", decl + 1, 1, 1)
    BY <1>1, <1>4 DEF NoSwap, Continue
  <2> QED
    BY <1>1, <1>2, <1>3, <1>4, <2>1, Kept DEF Apart
<1>5. CASE Swap(mem, fresh, refs, {"state"}, {})
  <2>1. /\ arenas.live \notin {} /\ {arenas.live} \cup {} \subseteq 1..fresh
        /\ Clean(mem, {arenas.live} \cup {})
        /\ \A h \in {"state"} : refs[h] \subseteq {arenas.live} \cup {}
    BY <1>2, <1>3
  <2> QED
    BY <1>1, <1>2, <1>5, <2>1, Copied
<1> QED
  BY <1>4, <1>5 DEF Declared

LEMMA FinishSafe == Types /\ Going(at) /\ Finish => IInv'
<1> SUFFICES ASSUME Types, Going(at), Finish PROVE IInv'
  OBVIOUS
<1>1. {"state"} \in SUBSET Held(at) /\ Owned(at) = {arenas.live}
  BY DEF Finish, Held, Owned, Scratch
<1>2. Clean(After({"state"}), {arenas.live})
  BY <1>1, Reading
<1>3. Clean(Free(After({"state"}), {arenas.live}), {arenas.live} \ {arenas.live})
  BY <1>2, FreeClean
<1>4. Clean(Free(After({"state"}), {arenas.live}), {})
  BY <1>3
<1>5. PICK result \in {"done", "oom"} : Stop(result, Free(After({"state"}), {arenas.live}))
  BY DEF Finish
<1> QED
  BY <1>4, <1>5, Stopped

-----------------------------------------------------------------------------
\* The parts of a group, and of a composition, that run in live and swap.
LEMMA GroupSwapSafe ==
  ASSUME Types, Going(at), Scratch(at) = {}, "state" \in Held(at), NEW holders \in SUBSET Held(at),
         GroupSwap(holders), NEW step, step \in {"group_member", "compose_member"},
         NEW d, NEW l, NEW k, Continue(step, d, l, k)
  PROVE  IInv'
<1> DEFINE values == Makes("compose", holders)
<1>1. {"compose", "state"} \in SUBSET Holders /\ Held(step) \subseteq {"compose", "state"}
  BY DEF Holders, Held
<1>2. values \in [Holders -> SUBSET Nat] /\ Result(arenas.live, holders) \subseteq Owned(at)
  BY <1>1, Reading
<1>3. \A h \in {"compose", "state"} : values[h] \subseteq Owned(at)
  <2>1. refs["state"] \subseteq Owned(at)
    BY DEF Going
  <2> QED
    BY <1>1, <1>2, <2>1 DEF Makes, With, Types
<1>4. Swap(After(holders), fresh, values, {"compose", "state"}, {})
  BY DEF GroupSwap
<1> HIDE DEF values
<1> QED
  BY <1>1, <1>2, <1>3, <1>4, CopiedFromLive

LEMMA GroupOpenSafe == Types /\ Going(at) /\ GroupOpen => IInv'
<1> SUFFICES ASSUME Types, Going(at), GroupOpen PROVE IInv'
  OBVIOUS
<1>1. Scratch(at) = {} /\ "state" \in Held(at) /\ {"state"} \in SUBSET Held(at)
  BY DEF GroupOpen, Begins, Scratch, Held
<1> QED
  BY <1>1, RefusedInLive, GroupSwapSafe DEF GroupOpen

LEMMA GroupMemberSafe == Types /\ Going(at) /\ GroupMember => IInv'
<1> SUFFICES ASSUME Types, Going(at), GroupMember PROVE IInv'
  OBVIOUS
<1>1. Scratch(at) = {} /\ "state" \in Held(at) /\ {"compose"} \in SUBSET Held(at)
  BY DEF GroupMember, Scratch, Held
<1> QED
  BY <1>1, RefusedInLive, GroupSwapSafe DEF GroupMember

LEMMA CloseSafe ==
  ASSUME Types, Going(at), at \in {"group_member", "compose_member"}, NEW phase, CloseWith(phase)
  PROVE  IInv'
<1>1. /\ Scratch(at) = {} /\ Held(at) = {"state", "compose"}
      /\ "state" \in Holders /\ Held("declared") = {"state"} /\ Owned("declared") = Owned(at)
      /\ Scratch("declared") = {} /\ {"compose"} \in SUBSET Held(at)
  BY DEF Scratch, Held, Holders, Owned
<1>2. CASE FailsInLive({"compose"})
  BY <1>1, <1>2, RefusedInLive
<1> DEFINE values == Makes("state", {"compose", "state"})
<1>3. CASE NoSwap(After({"compose"}), fresh, values) /\ GoTo("declared", decl, 1, 1)
  <2>1. /\ {"compose", "state"} \in SUBSET Held(at)
        /\ Clean(After({"compose"}), Owned(at)) /\ fresh \in Nat /\ Owned(at) \subseteq 1..fresh
    BY <1>1, Reading
  <2>2. values \in [Holders -> SUBSET Nat] /\ Result(arenas.live, {"compose", "state"}) \subseteq Owned(at)
    BY <1>1, <2>1, Reading
  <2>3. \A h \in Held("declared") : values[h] \subseteq Owned("declared")
    BY <1>1, <2>2 DEF Makes, With, Types
  <2>4. outcome = "none" /\ arenas.live \notin Scratch("declared")
    BY <1>1 DEF Going
  <2> HIDE DEF values
  <2> QED
    BY <1>1, <1>3, <2>1, <2>2, <2>3, <2>4, Kept DEF Apart
<1> QED
  BY <1>2, <1>3 DEF CloseWith

-----------------------------------------------------------------------------
\* Compositions.
LEMMA ComposeBeginSafe == Types /\ Going(at) /\ ComposeBegin => IInv'
<1> SUFFICES ASSUME Types, Going(at), ComposeBegin PROVE IInv'
  OBVIOUS
<1>1. /\ Scratch(at) = {} /\ {"state"} \in SUBSET Held(at) /\ Held(at) = {"state"}
      /\ {"start", "state"} \in SUBSET Holders /\ Held("line") = {"start", "state"}
  BY DEF ComposeBegin, Begins, Scratch, Held, Holders
<1> DEFINE values == Makes("start", {"state"})
<1>2. CASE Swap(After({"state"}), fresh, values, {"start", "state"}, {}) /\ Continue("line", decl, 1, 1)
  <2>1. values \in [Holders -> SUBSET Nat] /\ Result(arenas.live, {"state"}) \subseteq Owned(at)
    BY <1>1, Reading
  <2>2. \A h \in {"start", "state"} : values[h] \subseteq Owned(at)
    <3>1. refs["state"] \subseteq Owned(at)
      BY <1>1 DEF Going
    <3> QED
      BY <1>1, <2>1, <3>1 DEF Makes, With, Types
  <2> HIDE DEF values
  <2> QED
    BY <1>1, <1>2, <2>1, <2>2, CopiedFromLive
<1> QED
  BY <1>1, <1>2, RefusedInLive DEF ComposeBegin, StartSwap

LEMMA LineHeadSafe == Types /\ Going(at) /\ LineHead => IInv'
<1> SUFFICES ASSUME Types, Going(at), LineHead PROVE IInv'
  OBVIOUS
<1>1. /\ at = "line" /\ Scratch(at) = {} /\ {"start", "state"} \in SUBSET Held(at)
      /\ Held(at) = {"start", "state"} /\ {"head", "mapped", "start", "state"} \subseteq Holders
      /\ Held("line_member") = {"head", "mapped", "start", "state"}
      /\ Scratch("line_member") = {} /\ Owned("line_member") = Owned(at) /\ arenas.live \in Owned(at)
  BY DEF LineHead, Scratch, Held, Holders, Owned
<1> DEFINE read == {"start", "state"}
           head == Makes("head", read)
           values == [head EXCEPT !["mapped"] = {arenas.live}]
<1>2. CASE FailsInLive(read)
  BY <1>1, <1>2, RefusedInLive
<1>3. CASE NoSwap(After(read), fresh, values) /\ GoTo("line_member", decl, line, 1)
  <2>1. /\ head \in [Holders -> SUBSET Nat] /\ Result(arenas.live, read) \subseteq Owned(at)
        /\ Clean(After(read), Owned(at)) /\ fresh \in Nat /\ Owned(at) \subseteq 1..fresh
        /\ Owned(at) \subseteq Nat
    BY <1>1, Reading
  <2>2. values \in [Holders -> SUBSET Nat]
    <3> HIDE DEF head
    <3> QED
      BY <1>1, <2>1
  <2>3. \A h \in Held("line_member") : values[h] \subseteq Owned("line_member")
    <3>1. refs["start"] \subseteq Owned(at) /\ refs["state"] \subseteq Owned(at)
      BY <1>1 DEF Going
    <3> QED
      BY <1>1, <2>1, <3>1 DEF Makes, With, Types
  <2>4. outcome = "none" /\ arenas.live \notin Scratch("line_member")
    BY <1>1 DEF Going
  <2> HIDE DEF values
  <2> QED
    BY <1>1, <1>3, <2>1, <2>2, <2>3, <2>4, Kept DEF Apart
<1> QED
  BY <1>2, <1>3 DEF LineHead

LEMMA LineMemberSafe == Types /\ Going(at) /\ LineMember => IInv'
<1> SUFFICES ASSUME Types, Going(at), LineMember PROVE IInv'
  OBVIOUS
<1>1. /\ at = "line_member" /\ {"head"} \in SUBSET Held(at) /\ "mapped" \in Held(at)
      /\ arenas.live \in Owned(at) /\ Scratch(at) = {}
  BY DEF LineMember, Scratch, Held, Owned
<1>2. MemberOnStep({"head"}, arenas.live, "mapped", Scratch(at))
  BY <1>1 DEF LineMember
<1> QED
  BY <1>1, <1>2, MemberKept

LEMMA LineMappedSafe == Types /\ Going(at) /\ LineMapped => IInv'
<1> SUFFICES ASSUME Types, Going(at), LineMapped PROVE IInv'
  OBVIOUS
<1>1. /\ Scratch(at) = {} /\ {"head", "mapped"} \in SUBSET Held(at) /\ "head" \in Holders
      /\ Held("schema") \subseteq Held(at) \cup {"head"}
      /\ Held("line_tail") \subseteq Held(at) \cup {"head"}
  BY DEF LineMapped, Scratch, Held, Holders
<1>2. CASE FailsInLive({"head", "mapped"})
  BY <1>1, <1>2, RefusedInLive
<1>3. CASE /\ NoSwap(After({"head", "mapped"}), fresh, Makes("head", {"head", "mapped"}))
           /\ GoTo(IF Line.renamed THEN "schema" ELSE "line_tail", decl, line, 1)
  <2>1. PICK step \in {"schema", "line_tail"} : GoTo(step, decl, line, 1)
    BY <1>3
  <2> QED
    BY <1>1, <1>3, <2>1, KeptInLive
<1> QED
  BY <1>2, <1>3 DEF LineMapped

LEMMA LineTailSafe == Types /\ Going(at) /\ LineTail => IInv'
<1> SUFFICES ASSUME Types, Going(at), LineTail PROVE IInv'
  OBVIOUS
<1>1. /\ Scratch(at) = {} /\ {"head"} \in SUBSET Held(at) /\ {"start", "state"} \subseteq Held(at)
      /\ {"start", "state"} \in SUBSET Holders /\ Held("line") = {"start", "state"}
  BY DEF LineTail, Scratch, Held, Holders
<1> DEFINE values == With("start", refs["start"] \cup Result(arenas.live, {"head"}))
<1>2. CASE Swap(After({"head"}), fresh, values, {"start", "state"}, {}) /\ Continue("line", decl, line + 1, 1)
  <2>1. /\ Result(arenas.live, {"head"}) \subseteq Owned(at) /\ Owned(at) \subseteq Nat
    BY <1>1, Reading
  <2>2. refs["start"] \subseteq Owned(at) /\ refs["state"] \subseteq Owned(at)
    BY <1>1 DEF Going
  <2>3. values \in [Holders -> SUBSET Nat]
    BY <1>1, <2>1, <2>2 DEF With, Types
  <2>4. \A h \in {"start", "state"} : values[h] \subseteq Owned(at)
    BY <1>1, <2>1, <2>2 DEF With, Types
  <2> HIDE DEF values
  <2> QED
    BY <1>1, <1>2, <2>3, <2>4, CopiedFromLive
<1> QED
  BY <1>1, <1>2, RefusedInLive DEF LineTail, StartSwap

LEMMA ComposeMemberSafe == Types /\ Going(at) /\ ComposeMember => IInv'
<1> SUFFICES ASSUME Types, Going(at), ComposeMember PROVE IInv'
  OBVIOUS
<1>1. /\ Scratch(at) = {} /\ {"compose"} \in SUBSET Held(at) /\ "state" \in Held(at)
      /\ at = "compose_member" /\ Held("compose_member") \subseteq Held(at) \cup {"compose"}
      /\ "compose" \in Holders
  BY DEF ComposeMember, Scratch, Held, Holders
<1>2. CASE FailsInLive({"compose"})
  BY <1>1, <1>2, RefusedInLive
<1>3. CASE /\ NoSwap(After({"compose"}), fresh, Makes("compose", {"compose"}))
           /\ Continue("compose_member", decl, line, i + 1)
  <2>1. GoTo("compose_member", decl, line, i + 1)
    BY <1>3 DEF NoSwap, Continue, Going
  <2> QED
    BY <1>1, <1>3, <2>1, KeptInLive
<1>4. CASE GroupSwap({"compose"}) /\ Continue("compose_member", decl, line, i + 1)
  BY <1>1, <1>4, GroupSwapSafe
<1> QED
  BY <1>2, <1>3, <1>4 DEF ComposeMember

-----------------------------------------------------------------------------
\* The steps that make scratch arenas, which are owned from then on.
LEMMA Opened ==
  ASSUME Types, Going(at), Scratch(at) = {}, NEW holders \in SUBSET Held(at), NEW ids,
         NEW step, step # "returned", at' = step, UNCHANGED outcome,
         mem' = New(After(holders), ids), arenas.live \notin ids, fresh' \in Nat,
         Owned(at) \cup ids \subseteq 1..fresh',
         arenas' \in [Roles -> Nat], arenas'.live = arenas.live, Scratch(step)' = ids,
         refs' \in [Holders -> SUBSET Nat], Apart(step, refs'),
         \A h \in Held(step) : refs'[h] \subseteq Owned(at) \cup ids
  PROVE  IInv'
<1>1. Clean(mem', Owned(at) \cup ids)
  BY Reading, NewClean
<1>2. Owned(step)' = Owned(at) \cup ids
  BY DEF Owned
<1>3. Going(step)'
  BY <1>1, <1>2 DEF Going, Clean, Apart
<1> QED
  BY <1>3 DEF IInv, Types

LEMMA SchemaOpenSafe == Types /\ Going(at) /\ SchemaOpen => IInv'
<1> SUFFICES ASSUME Types, Going(at), SchemaOpen PROVE IInv'
  OBVIOUS
<1> DEFINE base == fresh + 1
           keep == fresh + 2
<1>1. /\ at = "schema" /\ Scratch(at) = {} /\ {"head"} \in SUBSET Held(at)
      /\ Held(at) = {"state", "start", "head"} /\ Owned(at) = {arenas.live}
      /\ Held("schema_member") = {"state", "start", "head", "globals"}
      /\ {"state", "start", "head", "globals"} \subseteq Holders
  BY DEF SchemaOpen, Scratch, Held, Holders, Owned
<1>2. /\ RefsOf({"head"}) \subseteq {arenas.live} /\ Owned(at) \subseteq 1..fresh /\ fresh \in Nat
      /\ Owned(at) \subseteq Nat
  BY <1>1, Reading
<1>3. /\ base \in Nat /\ keep \in Nat /\ arenas.live \notin {base, keep}
      /\ Owned(at) \cup {base, keep} \subseteq 1..keep
  <2>1. base \in Nat /\ base \in 1..keep /\ keep \in Nat /\ keep \in 1..keep
    BY <1>2
  <2>2. arenas.live \in 1..fresh
    BY <1>1, <1>2
  <2>3. base \notin 1..fresh /\ keep \notin 1..fresh /\ 1..fresh \subseteq 1..keep
    BY <1>2
  <2> HIDE DEF base, keep
  <2> QED
    BY <1>1, <2>1, <2>2, <2>3
<1>4. CASE Fails(New(mem, {base}), base, {"head"}, {base})
  <2>1. Clean(New(mem, {base}), {arenas.live} \cup {base})
    BY <1>1, NewClean DEF Going
  <2> HIDE DEF base, keep
  <2> QED
    BY <1>2, <1>3, <1>4, <2>1, Refused
<1>5. CASE /\ mem' = New(After({"head"}), {base, keep}) /\ fresh' = keep
           /\ arenas' = [arenas EXCEPT !.base = base, !.keep = keep]
           /\ refs' = With("globals", Result(base, {"head"}))
           /\ GoTo("schema_member", decl, line, 1) /\ UNCHANGED <<members, outcome>>
  <2> HIDE DEF base, keep
  <2>1. /\ arenas' \in [Roles -> Nat] /\ arenas'.live = arenas.live
        /\ arenas'.base = base /\ arenas'.keep = keep
    BY <1>3, <1>5 DEF Types, Roles
  <2>2. Scratch("schema_member")' = {base, keep}
    BY <2>1 DEF Scratch
  <2>3. Result(base, {"head"}) \subseteq {arenas.live, base}
    BY <1>2 DEF Result
  <2>4. refs' \in [Holders -> SUBSET Nat]
    BY <1>1, <1>2, <1>3, <1>5, <2>3 DEF Types, With
  <2>5. \A h \in Held("schema_member") : refs'[h] \subseteq Owned(at) \cup {base, keep}
    <3>1. \A h \in {"state", "start", "head"} : refs[h] \subseteq Owned(at)
      BY <1>1 DEF Going
    <3> QED
      BY <1>1, <1>5, <2>3, <3>1 DEF Types, With
  <2>6. Apart("schema_member", refs')
    <3>1. \A h \in {"state", "start", "head"} : refs[h] \subseteq {arenas.live}
      BY <1>1 DEF Going
    <3> QED
      BY <1>1, <1>5, <3>1 DEF Types, With, Apart
  <2>7. at' = "schema_member" /\ UNCHANGED outcome
    BY <1>5 DEF GoTo
  <2> QED
    BY <1>1, <1>3, <1>5, <2>1, <2>2, <2>4, <2>5, <2>6, <2>7, Opened
<1> QED
  BY <1>4, <1>5 DEF SchemaOpen

LEMMA SchemaMemberSafe == Types /\ Going(at) /\ SchemaMember => IInv'
<1> SUFFICES ASSUME Types, Going(at), SchemaMember PROVE IInv'
  OBVIOUS
<1>1. /\ at = "schema_member" /\ {"globals"} \in SUBSET Held(at) /\ "globals" \in Held(at)
      /\ arenas.keep \in Owned(at) /\ Scratch(at) = {arenas.keep, arenas.base}
  BY DEF SchemaMember, Scratch, Held, Owned
<1>2. MemberOnStep({"globals"}, arenas.keep, "globals", Scratch(at))
  BY <1>1 DEF SchemaMember
<1> QED
  BY <1>1, <1>2, MemberKept

LEMMA SchemaCloseSafe == Types /\ Going(at) /\ SchemaClose => IInv'
<1> SUFFICES ASSUME Types, Going(at), SchemaClose PROVE IInv'
  OBVIOUS
<1> DEFINE m == Free(mem, {arenas.keep, arenas.base})
<1>1. /\ at = "schema_member" /\ NoSwap(m, fresh, refs) /\ GoTo("line_tail", decl, line, 1)
      /\ Scratch(at) = {arenas.keep, arenas.base} /\ Held(at) = {"state", "start", "head", "globals"}
      /\ Held("line_tail") = {"state", "start", "head"} /\ Scratch("line_tail") = {}
      /\ Owned("line_tail") = {arenas.live}
  BY DEF SchemaClose, Scratch, Held, Owned
<1>2. /\ outcome = "none" /\ arenas.live \notin {arenas.keep, arenas.base}
      /\ Owned("line_tail") \subseteq 1..fresh
      /\ Clean(mem, {arenas.live} \cup {arenas.keep, arenas.base})
  BY <1>1 DEF Going, Owned
<1>3. Clean(m, {arenas.live})
  <2>1. Clean(m, ({arenas.live} \cup {arenas.keep, arenas.base}) \ {arenas.keep, arenas.base})
    BY <1>2, FreeClean
  <2>2. ({arenas.live} \cup {arenas.keep, arenas.base}) \ {arenas.keep, arenas.base} = {arenas.live}
    BY <1>2
  <2> QED
    BY <2>1, <2>2
<1>4. \A h \in Held("line_tail") : refs[h] \subseteq Owned("line_tail")
  BY <1>1 DEF Going, Apart
<1>5. Apart("line_tail", refs)
  BY DEF Apart
<1> QED
  BY <1>1, <1>2, <1>3, <1>4, <1>5, Kept DEF Types

-----------------------------------------------------------------------------
\* A keep arena is made for what the members leave.
LEMMA KeepOpened ==
  ASSUME Types, Going(at), Scratch(at) = {}, NEW holders \in SUBSET Held(at),
         "state" \in Held(at) \ {"head"},
         NEW step \in {"open_member", "map_member"}, NEW mapped \in SUBSET Owned(at),
         mem' = New(After(holders), {fresh + 1}), fresh' = fresh + 1,
         arenas' = [arenas EXCEPT !.keep = fresh + 1],
         refs' = [Makes("head", holders) EXCEPT !["mapped"] = {fresh + 1} \cup mapped],
         at' = step, UNCHANGED outcome
  PROVE  IInv'
<1> DEFINE keep == fresh + 1
           head == Makes("head", holders)
<1>1. /\ Owned(at) = {arenas.live} /\ Owned(at) \subseteq 1..fresh /\ Owned(at) \subseteq Nat
      /\ fresh \in Nat /\ Result(arenas.live, holders) \subseteq Owned(at)
      /\ {"state", "head", "mapped"} \subseteq Holders
  BY Reading DEF Owned, Holders
<1>2. head \in [Holders -> SUBSET Nat]
  BY <1>1, Reading
<1>3. keep \in Nat /\ arenas.live \notin {keep} /\ Owned(at) \cup {keep} \subseteq 1..keep
  BY <1>1, NewArena
<1>4. \A h \in Held(step) : refs'[h] \subseteq Owned(at) \cup {keep}
  <2>1. refs["state"] \subseteq Owned(at) /\ Held(step) = {"state", "head", "mapped"}
    BY DEF Going, Held
  <2> HIDE DEF keep
  <2>2. /\ refs'["mapped"] = {keep} \cup mapped /\ refs'["head"] = head["head"]
        /\ refs'["state"] = head["state"]
    <3> HIDE DEF head
    <3> QED
      BY <1>1, <1>2 DEF head, keep
  <2>3. head["head"] = Result(arenas.live, holders) /\ head["state"] = refs["state"]
    BY <1>1 DEF Makes, With, Types
  <2> QED
    BY <1>1, <2>1, <2>2, <2>3
<1> HIDE DEF head
<1>5. refs' \in [Holders -> SUBSET Nat]
  BY <1>1, <1>2, <1>3 DEF head
<1> HIDE DEF keep
<1>6. arenas' \in [Roles -> Nat] /\ arenas'.live = arenas.live /\ arenas'.keep = keep
  BY <1>3 DEF Types, Roles, keep
<1>7. Scratch(step)' = {keep}
  BY <1>6 DEF Scratch
<1>8. Apart(step, refs')
  BY DEF Apart
<1> QED
  BY <1>3, <1>4, <1>5, <1>6, <1>7, <1>8, Opened DEF keep

\* The run in keep that closes an opening refuses, or what it leaves is copied.
LEMMA KeepRefused ==
  ASSUME Types, Going(at), at \in {"open_member", "map_member"}, FailsInKeep
  PROVE  IInv'
<1>1. /\ Scratch(at) = {arenas.keep} /\ {"head", "mapped"} \in SUBSET Held(at)
      /\ Owned(at) = {arenas.live} \cup {arenas.keep}
  BY DEF Scratch, Owned, Held
<1>2. /\ RefsOf({"head", "mapped"}) \subseteq {arenas.live} \cup {arenas.keep}
      /\ Clean(mem, {arenas.live} \cup {arenas.keep}) /\ arenas.live \notin {arenas.keep}
  BY <1>1, Reading DEF Going
<1> QED
  BY <1>2, Refused DEF FailsInKeep

LEMMA KeepCopied ==
  ASSUME Types, Going(at), at \in {"open_member", "map_member"},
         NEW holder \in {"compose", "start"}, TailInKeep(holder),
         NEW step, step \notin {"returned", "schema_member", "open_member", "map_member"},
         Held(step) = {holder, "state"}, NEW d, NEW l, NEW k, Continue(step, d, l, k)
  PROVE  IInv'
<1> DEFINE read == {"head", "mapped"}
           values == With(holder, Result(arenas.keep, read))
<1>1. /\ Scratch(at) = {arenas.keep} /\ {"head", "mapped"} \in SUBSET Held(at) /\ "state" \in Held(at)
      /\ Owned(at) = {arenas.live} \cup {arenas.keep} /\ {holder, "state"} \in SUBSET Holders
  BY DEF Scratch, Owned, Held, Holders
<1>2. /\ RefsOf(read) \subseteq Owned(at) /\ Clean(After(read), Owned(at)) /\ fresh \in Nat
      /\ Owned(at) \subseteq 1..fresh /\ Owned(at) \subseteq Nat
  BY <1>1, Reading
<1>3. /\ arenas.live \notin {arenas.keep} /\ outcome = "none" /\ refs["state"] \subseteq Owned(at)
  BY <1>1 DEF Going
<1>4. Result(arenas.keep, read) \subseteq Owned(at)
  BY <1>1, <1>2 DEF Result
<1>5. values \in [Holders -> SUBSET Nat]
  BY <1>1, <1>2, <1>4 DEF With, Types
<1>6. \A h \in {holder, "state"} : values[h] \subseteq {arenas.live} \cup {arenas.keep}
  BY <1>1, <1>3, <1>4 DEF With, Types
<1>7. Swap(After(read), fresh, values, {holder, "state"}, {arenas.keep})
  BY DEF TailInKeep
<1> HIDE DEF values, read
<1> QED
  BY <1>1, <1>2, <1>3, <1>5, <1>6, <1>7, Copied

LEMMA ComposeOpenHeadSafe == Types /\ Going(at) /\ ComposeOpenHead => IInv'
<1> SUFFICES ASSUME Types, Going(at), ComposeOpenHead PROVE IInv'
  OBVIOUS
<1> DEFINE keep == fresh + 1
           read == {"start", "state"}
<1>1. /\ Scratch(at) = {} /\ read \in SUBSET Held(at) /\ "state" \in Held(at) \ {"head"}
      /\ Owned(at) = {arenas.live}
  BY DEF ComposeOpenHead, Scratch, Held, Owned
<1>2. CASE FailsInLive(read)
  BY <1>1, <1>2, RefusedInLive
<1>3. CASE RunsOut(New(After(read), {keep}), {keep})
  <2>1. fresh \in Nat /\ Owned(at) \subseteq 1..fresh /\ Clean(After(read), {arenas.live})
    BY <1>1, Reading
  <2>2. arenas.live \notin {keep}
    BY <1>1, <2>1, NewArena
  <2>3. Clean(New(After(read), {keep}), {arenas.live} \cup {keep})
    BY <2>1, NewClean
  <2> HIDE DEF keep, read
  <2> QED
    BY <1>3, <2>2, <2>3, OutOfMemory
<1>4. CASE /\ mem' = New(After(read), {keep}) /\ fresh' = keep
           /\ arenas' = [arenas EXCEPT !.keep = keep]
           /\ refs' = [Makes("head", read) EXCEPT !["mapped"] = {keep} \cup Result(arenas.live, read)]
           /\ GoTo("open_member", decl, line, 1) /\ UNCHANGED outcome
  <2>1. Result(arenas.live, read) \in SUBSET Owned(at)
    BY <1>1, Reading
  <2>2. at' = "open_member"
    BY <1>4 DEF GoTo
  <2> HIDE DEF read
  <2> QED
    BY <1>1, <1>4, <2>1, <2>2, KeepOpened
<1> QED
  BY <1>2, <1>3, <1>4 DEF ComposeOpenHead

LEMMA ComposeOpenMemberSafe == Types /\ Going(at) /\ ComposeOpenMember => IInv'
<1> SUFFICES ASSUME Types, Going(at), ComposeOpenMember PROVE IInv'
  OBVIOUS
<1>1. /\ at = "open_member" /\ {"head", "mapped"} \in SUBSET Held(at) /\ "mapped" \in Held(at)
      /\ arenas.keep \in Owned(at) /\ Scratch(at) = {arenas.keep}
  BY DEF ComposeOpenMember, Scratch, Held, Owned
<1>2. MemberOnStep({"head", "mapped"}, arenas.keep, "mapped", Scratch(at))
  BY <1>1 DEF ComposeOpenMember
<1> QED
  BY <1>1, <1>2, MemberKept

LEMMA ComposeOpenTailSafe == Types /\ Going(at) /\ ComposeOpenTail => IInv'
<1> SUFFICES ASSUME Types, Going(at), ComposeOpenTail PROVE IInv'
  OBVIOUS
<1>1. at \in {"open_member", "map_member"} /\ Held("compose_member") = {"compose", "state"}
  BY DEF ComposeOpenTail, Held
<1> QED
  BY <1>1, KeepRefused, KeepCopied DEF ComposeOpenTail

-----------------------------------------------------------------------------
\* Instantiations.
LEMMA InstantiateHeadSafe == Types /\ Going(at) /\ InstantiateHead => IInv'
<1> SUFFICES ASSUME Types, Going(at), InstantiateHead PROVE IInv'
  OBVIOUS
<1>1. Scratch(at) = {} /\ {"state"} \in SUBSET Held(at) /\ "state" \in Held(at) \ {"head"}
  BY DEF InstantiateHead, Begins, Scratch, Held
<1>2. CASE FailsInLive({"state"})
  BY <1>1, <1>2, RefusedInLive
<1>3. CASE /\ mem' = New(After({"state"}), {fresh + 1}) /\ fresh' = fresh + 1
           /\ arenas' = [arenas EXCEPT !.keep = fresh + 1]
           /\ refs' = [Makes("head", {"state"}) EXCEPT !["mapped"] = {fresh + 1}]
           /\ GoTo("map_member", decl, 1, 1) /\ UNCHANGED outcome
  <2>1. at' = "map_member"
    BY <1>3 DEF GoTo
  <2>2. {fresh + 1} = {fresh + 1} \cup {} /\ {} \in SUBSET Owned(at)
    OBVIOUS
  <2>3. refs' = [Makes("head", {"state"}) EXCEPT !["mapped"] = {fresh + 1} \cup {}]
    BY <1>3, <2>2
  <2> QED
    BY <1>1, <1>3, <2>1, <2>2, <2>3, KeepOpened
<1> QED
  BY <1>2, <1>3 DEF InstantiateHead

LEMMA InstantiateMapSafe == Types /\ Going(at) /\ InstantiateMap => IInv'
<1> SUFFICES ASSUME Types, Going(at), InstantiateMap PROVE IInv'
  OBVIOUS
<1>1. /\ at = "map_member" /\ {"head"} \in SUBSET Held(at) /\ "mapped" \in Held(at)
      /\ arenas.keep \in Owned(at) /\ Scratch(at) = {arenas.keep}
  BY DEF InstantiateMap, Scratch, Held, Owned
<1>2. MemberOnStep({"head"}, arenas.keep, "mapped", Scratch(at))
  BY <1>1 DEF InstantiateMap
<1> QED
  BY <1>1, <1>2, MemberKept

LEMMA InstantiateTailSafe == Types /\ Going(at) /\ InstantiateTail => IInv'
<1> SUFFICES ASSUME Types, Going(at), InstantiateTail PROVE IInv'
  OBVIOUS
<1>1. at \in {"open_member", "map_member"} /\ Held("check_member") = {"start", "state"}
  BY DEF InstantiateTail, Held
<1> QED
  BY <1>1, KeepRefused, KeepCopied DEF InstantiateTail

LEMMA InstantiateCloseSafe == Types /\ Going(at) /\ InstantiateClose => IInv'
<1> SUFFICES ASSUME Types, Going(at), InstantiateClose PROVE IInv'
  OBVIOUS
<1>1. /\ Scratch(at) = {} /\ {"start", "state"} \in SUBSET Held(at) /\ "state" \in Holders
      /\ Held("declared") \subseteq Held(at) \cup {"state"}
  BY DEF InstantiateClose, Scratch, Held, Holders
<1> QED
  BY <1>1, RefusedInLive, KeptInLive DEF InstantiateClose

LEMMA InstantiateCheckSafe == Types /\ Going(at) /\ InstantiateCheck => IInv'
<1> SUFFICES ASSUME Types, Going(at), InstantiateCheck PROVE IInv'
  OBVIOUS
<1> DEFINE step == fresh + 1
           read == {"start", "state"}
           ran == Read(New(mem, {step}), RefsOf(read))
           copied == Free(Read(ran, Result(step, read)), {step})
           values == With("start", refs["start"] \cup {arenas.live})
<1>1. /\ Scratch(at) = {} /\ Held(at) = read /\ Owned(at) = {arenas.live} /\ read \subseteq Holders
      /\ at = "check_member" /\ read \in SUBSET Held(at)
  BY DEF InstantiateCheck, Scratch, Held, Owned, Holders
<1>2. /\ RefsOf(read) \subseteq {arenas.live} /\ fresh \in Nat /\ Owned(at) \subseteq 1..fresh
      /\ Owned(at) \subseteq Nat
  BY <1>1, Reading
<1>3. /\ step \in Nat /\ arenas.live \notin {step} /\ {arenas.live} \cup {} \subseteq 1..step
  BY <1>1, <1>2, NewArena
<1> HIDE DEF step
<1>4. Clean(New(mem, {step}), {arenas.live} \cup {step})
  BY <1>1, NewClean DEF Going
<1>5. Clean(copied, {arenas.live})
  <2> HIDE DEF read
  <2>1. Clean(ran, {arenas.live} \cup {step})
    BY <1>2, <1>4, ReadClean
  <2>2. Clean(Read(ran, Result(step, read)), {arenas.live} \cup {step})
    BY <1>2, <2>1, ReadClean DEF Result
  <2>3. Clean(copied, ({arenas.live} \cup {step}) \ {step})
    BY <2>2, FreeClean
  <2>4. ({arenas.live} \cup {step}) \ {step} = {arenas.live}
    BY <1>3
  <2> QED
    BY <2>3, <2>4
<1>6. refs["start"] \subseteq {arenas.live} /\ refs["state"] \subseteq {arenas.live} /\ outcome = "none"
  BY <1>1 DEF Going
<1>7. /\ values \in [Holders -> SUBSET Nat]
      /\ \A h \in read : values[h] \subseteq {arenas.live}
  BY <1>1, <1>2, <1>6 DEF With, Types
<1>8. CASE Fails(New(mem, {step}), step, read, {step})
  <2> HIDE DEF read
  <2> QED
    BY <1>2, <1>3, <1>4, <1>8, Refused
<1> HIDE DEF copied, values
<1>9. CASE RunsOut(copied, {})
  <2>1. Clean(copied, {arenas.live} \cup {})
    BY <1>5
  <2> QED
    BY <1>9, <2>1, OutOfMemory
<1>10. CASE NoSwap(copied, step, values) /\ Continue("check_member", decl, 1, i + 1)
  <2>1. GoTo("check_member", decl, 1, i + 1)
    BY <1>6, <1>10 DEF NoSwap, Continue
  <2>2. Apart("check_member", values)
    BY DEF Apart
  <2> QED
    BY <1>1, <1>3, <1>5, <1>6, <1>7, <1>10, <2>1, <2>2, Kept
<1>11. CASE Swap(copied, step, values, read, {}) /\ Continue("check_member", decl, 1, 1)
  <2>1. Clean(copied, {arenas.live} \cup {}) /\ \A h \in read : values[h] \subseteq {arenas.live} \cup {}
    BY <1>5, <1>7
  <2>2. read \in SUBSET Holders /\ Held("check_member") \subseteq read /\ arenas.live \notin {}
    BY <1>1
  <2> HIDE DEF read
  <2> QED
    BY <1>3, <1>6, <1>7, <1>11, <2>1, <2>2, Copied
<1> QED
  BY <1>8, <1>9, <1>10, <1>11 DEF InstantiateCheck, CheckContinue, step, copied, ran, values

-----------------------------------------------------------------------------
\* The invariant holds at the start and is kept by every step.
LEMMA InitSafe == Init => IInv
<1> SUFFICES ASSUME Init PROVE IInv
  OBVIOUS
<1>1. Types
  BY DEF Init, Types, Roles, Holders, Nowhere
<1>2. at = "declaration" /\ arenas.live = 1 /\ fresh = 1 /\ outcome = "none" /\ refs["state"] = {}
  BY DEF Init, Roles, Holders
<1>3. /\ Scratch("declaration") = {} /\ Owned("declaration") = {1} /\ Held("declaration") = {"state"}
      /\ Apart("declaration", refs) /\ {1} \subseteq 1..1
  BY <1>2 DEF Scratch, Owned, Held, Apart
<1>4. Clean(mem, {1})
  BY DEF Init, Clean
<1> QED
  BY <1>1, <1>2, <1>3, <1>4 DEF IInv, Going

LEMMA NextSafe == IInv /\ [Next]_vars => IInv'
<1> SUFFICES ASSUME IInv, [Next]_vars PROVE IInv'
  OBVIOUS
<1>1. CASE UNCHANGED vars
  BY <1>1 DEF vars, IInv, Types, Going, Over, Scratch, Owned, Apart, Clean
<1>2. CASE Over /\ Next
  <2>1. CASE Returned
    BY <1>1, <2>1 DEF Returned
  <2>2. at = "returned"
    BY <1>2 DEF Over
  <2> QED
    BY <1>2, <2>1, <2>2
    DEF Next, PlainEntry, Declared, Finish, Begins, GroupOpen, GroupMember, GroupClose,
        ComposeBegin, LineHead, LineMember, LineMapped, SchemaOpen, SchemaMember, SchemaClose,
        LineTail, ComposeOpenHead, ComposeOpenMember, ComposeOpenTail, ComposeMember, ComposeClose,
        InstantiateHead, InstantiateMap, InstantiateTail, InstantiateCheck, InstantiateClose
<1>3. CASE Going(at) /\ Next
  <2>1. Types
    BY DEF IInv
  <2>2. CASE GroupClose
    BY <1>3, <2>1, <2>2, CloseSafe DEF GroupClose
  <2>3. CASE ComposeClose
    BY <1>3, <2>1, <2>3, CloseSafe DEF ComposeClose
  <2>4. CASE Returned
    BY <1>1, <2>4 DEF Returned
  <2> QED
    BY <1>3, <2>1, <2>2, <2>3, <2>4, PlainEntrySafe, DeclaredSafe, FinishSafe, GroupOpenSafe,
       GroupMemberSafe, ComposeBeginSafe, LineHeadSafe, LineMemberSafe, LineMappedSafe,
       SchemaOpenSafe, SchemaMemberSafe, SchemaCloseSafe, LineTailSafe, ComposeOpenHeadSafe,
       ComposeOpenMemberSafe, ComposeOpenTailSafe, ComposeMemberSafe, InstantiateHeadSafe,
       InstantiateMapSafe, InstantiateTailSafe, InstantiateCheckSafe, InstantiateCloseSafe
    DEF Next
<1> QED
  BY <1>1, <1>2, <1>3 DEF IInv

LEMMA Disciplined == Spec => []IInv
  BY InitSafe, NextSafe, PTL DEF Spec

\* However many declarations, lines and members a program has, and wherever a run refuses or the
\* memory ends: check_in_compact reads no arena it has freed and frees none twice.
THEOREM MemorySafe == Spec => []NoReport
<1>1. IInv => NoReport
  BY DEF IInv, Going, Over, Clean, NoReport
<1> QED
  BY <1>1, Disciplined, PTL

\* However check_in_compact returns, with a result, an error or without memory, none of the arenas
\* it made is left.
THEOREM NothingLeaks == Spec => []NothingLeaked
<1>1. IInv => NothingLeaked
  BY DEF IInv, Going, Over, Clean, NothingLeaked
<1> QED
  BY <1>1, Disciplined, PTL

-----------------------------------------------------------------------------
(* The order of the runs.  Every part has a place in an order of five      *)
(* numbers, and wherever the loops stand is a place too: what is done is   *)
(* always what is before it.  An action that runs a part is in order if    *)
(* its part is the first that is left and the loops then stand behind it   *)
(* and before all others.                                                  *)

\* Where the elaboration is in the order of the parts: what comes before has been run.
Here ==
  CASE at = "declaration"    -> <<decl, 0, 0, 0, 0>>
    [] at = "declared"       -> <<decl, 8, 0, 0, 0>>
    [] at = "group_member"   -> <<decl, 2, 0, 0, i>>
    [] at = "line"           -> <<decl, 2, line, 0, 0>>
    [] at = "line_member"    -> <<decl, 2, line, 2, i>>
    [] at = "schema"         -> <<decl, 2, line, 4, 0>>
    [] at = "schema_member"  -> <<decl, 2, line, 5, i>>
    [] at = "line_tail"      -> <<decl, 2, line, 6, 0>>
    [] at = "open_member"    -> <<decl, 4, 0, 0, i>>
    [] at = "compose_member" -> <<decl, 6, 0, 0, i>>
    [] at = "map_member"     -> <<decl, 2, 0, 0, i>>
    [] at = "check_member"   -> <<decl, 4, 0, 0, i + (Decl.members - Len(members))>>

\* The loops are within the declaration, and the members left are its last ones.
Control ==
  /\ decl \in 1..(Len(program) + 1) /\ line \in Nat /\ line >= 1 /\ i \in Nat /\ i >= 1
  /\ at # "declaration" => decl \in DOMAIN program
  /\ at = "group_member" => Decl.kind = "group" /\ i <= Decl.helpers + 1
  /\ at \in {"line", "line_member", "schema", "schema_member", "line_tail",
             "open_member", "compose_member"} => Decl.kind = "compose"
  /\ at = "line" => line <= Len(Decl.lines) + 1
  /\ at \in {"line_member", "schema", "schema_member", "line_tail"} => line \in DOMAIN Decl.lines
  /\ at = "line_member" => i <= Line.members + 1
  /\ at \in {"schema", "schema_member"} => Line.renamed
  /\ at = "schema_member" => i <= Line.schema + 1
  /\ at = "open_member" => i <= Decl.trusted + 1
  /\ at = "compose_member" => i <= Decl.pending + Decl.helpers + 1
  /\ at \in {"map_member", "check_member"} => Decl.kind = "instantiate"
  /\ at = "map_member" => i <= Decl.members + 1
  /\ at = "check_member" =>
       /\ members \in Seq(Nat) /\ Len(members) <= Decl.members /\ i <= Len(members) + 1
       /\ \A k \in DOMAIN members : members[k] = k + (Decl.members - Len(members))

\* The inductive invariant of the order.
InOrder ==
  /\ program \in Programs /\ trace \in Seq(Parts) /\ OneRunOrder
  /\ at # "returned" =>
       outcome = "none" /\ Control /\ \A p \in Parts : p \in Done <=> Below(Key(p), Here)

\* A part at a place of the order.
IsAt(p, phase, d, a, l, b, n) == p = <<d, phase, l, n>> /\ Place(phase) = a /\ LinePlace(phase) = b

\* The order of places, number by number.
LEMMA BelowBy ==
  ASSUME NEW a, NEW b
  PROVE  Below(a, b) <=>
           \/ a[1] < b[1]
           \/ a[1] = b[1] /\ a[2] < b[2]
           \/ a[1] = b[1] /\ a[2] = b[2] /\ a[3] < b[3]
           \/ a[1] = b[1] /\ a[2] = b[2] /\ a[3] = b[3] /\ a[4] < b[4]
           \/ a[1] = b[1] /\ a[2] = b[2] /\ a[3] = b[3] /\ a[4] = b[4] /\ a[5] < b[5]
<1> DEFINE At(k) == a[k] < b[k] /\ \A j \in 1..(k - 1) : a[j] = b[j]
<1>1. Below(a, b) <=> (At(1) \/ At(2) \/ At(3) \/ At(4) \/ At(5))
  <2>1. \A k \in 1..5 : k = 1 \/ k = 2 \/ k = 3 \/ k = 4 \/ k = 5
    OBVIOUS
  <2>2. 1 \in 1..5 /\ 2 \in 1..5 /\ 3 \in 1..5 /\ 4 \in 1..5 /\ 5 \in 1..5
    OBVIOUS
  <2>3. Below(a, b) <=> \E k \in 1..5 : At(k)
    BY DEF Below
  <2> HIDE DEF At
  <2> QED
    BY <2>1, <2>2, <2>3
<1>2. /\ 1..(1 - 1) = {} /\ 1..(2 - 1) = {1} /\ 1..(3 - 1) = {1, 2}
      /\ 1..(4 - 1) = {1, 2, 3} /\ 1..(5 - 1) = {1, 2, 3, 4}
  OBVIOUS
<1>3. At(1) <=> a[1] < b[1]
  BY <1>2
<1>4. At(2) <=> a[1] = b[1] /\ a[2] < b[2]
  BY <1>2
<1>5. At(3) <=> a[1] = b[1] /\ a[2] = b[2] /\ a[3] < b[3]
  BY <1>2
<1>6. At(4) <=> a[1] = b[1] /\ a[2] = b[2] /\ a[3] = b[3] /\ a[4] < b[4]
  BY <1>2
<1>7. At(5) <=> a[1] = b[1] /\ a[2] = b[2] /\ a[3] = b[3] /\ a[4] = b[4] /\ a[5] < b[5]
  BY <1>2
<1> HIDE DEF At
<1> QED
  BY <1>1, <1>3, <1>4, <1>5, <1>6, <1>7

\* The declarations of a program are of the four kinds.
LEMMA DeclTyped ==
  ASSUME program \in Programs, NEW d \in DOMAIN program
  PROVE  program[d] \in Declarations /\ d \in 1..Len(program) /\ program \in Seq(Declarations)
  BY ProgramsAssumption

\* Where the parts of each phase are.
LEMMA Places ==
  /\ Place("plain") = 1 /\ LinePlace("plain") = 0
  /\ Place("group_open") = 1 /\ LinePlace("group_open") = 0
  /\ Place("begin") = 1 /\ LinePlace("begin") = 0
  /\ Place("instantiate_head") = 1 /\ LinePlace("instantiate_head") = 0
  /\ Place("group_member") = 2 /\ LinePlace("group_member") = 0
  /\ Place("map_member") = 2 /\ LinePlace("map_member") = 0
  /\ Place("line_head") = 2 /\ LinePlace("line_head") = 1
  /\ Place("line_member") = 2 /\ LinePlace("line_member") = 2
  /\ Place("line_mapped") = 2 /\ LinePlace("line_mapped") = 3
  /\ Place("schema_open") = 2 /\ LinePlace("schema_open") = 4
  /\ Place("schema_member") = 2 /\ LinePlace("schema_member") = 5
  /\ Place("line_tail") = 2 /\ LinePlace("line_tail") = 6
  /\ Place("open_head") = 3 /\ LinePlace("open_head") = 0
  /\ Place("instantiate_tail") = 3 /\ LinePlace("instantiate_tail") = 0
  /\ Place("open_member") = 4 /\ LinePlace("open_member") = 0
  /\ Place("check_member") = 4 /\ LinePlace("check_member") = 0
  /\ Place("open_tail") = 5 /\ LinePlace("open_tail") = 0
  /\ Place("compose_member") = 6 /\ LinePlace("compose_member") = 0
  /\ Place("group_close") = 7 /\ LinePlace("group_close") = 0
  /\ Place("compose_close") = 7 /\ LinePlace("compose_close") = 0
  /\ Place("instantiate_close") = 7 /\ LinePlace("instantiate_close") = 0
  BY DEF Place, LinePlace

\* A spot of the order, by its five numbers.
Spot(x, d, a, l, b, n) == x[1] = d /\ x[2] = a /\ x[3] = l /\ x[4] = b /\ x[5] = n

LEMMA KeyAt ==
  ASSUME NEW p, NEW phase, NEW d, NEW a, NEW l, NEW b, NEW n, IsAt(p, phase, d, a, l, b, n)
  PROVE  Spot(Key(p), d, a, l, b, n)
  BY DEF IsAt, Key, Spot

LEMMA PlainParts ==
  ASSUME NEW spec, spec.kind = "plain", NEW d \in Nat, NEW p
  PROVE  p \in PartsOf(spec, d) <=>
           \/ IsAt(p, "plain", d, 1, 0, 0, 0)
  BY Places DEF IsAt, PartsOf, Once

LEMMA GroupParts ==
  ASSUME NEW spec, spec.kind = "group", NEW d \in Nat, NEW p
  PROVE  p \in PartsOf(spec, d) <=>
           \/ IsAt(p, "group_open", d, 1, 0, 0, 0)
           \/ \E n \in 1..spec.helpers : IsAt(p, "group_member", d, 2, 0, 0, n)
           \/ IsAt(p, "group_close", d, 7, 0, 0, 0)
  BY Places DEF IsAt, PartsOf, Once, Each

LEMMA InstantiateParts ==
  ASSUME NEW spec, spec.kind = "instantiate", NEW d \in Nat, NEW p
  PROVE  p \in PartsOf(spec, d) <=>
           \/ IsAt(p, "instantiate_head", d, 1, 0, 0, 0)
           \/ \E n \in 1..spec.members : IsAt(p, "map_member", d, 2, 0, 0, n)
           \/ IsAt(p, "instantiate_tail", d, 3, 0, 0, 0)
           \/ \E n \in 1..spec.members : IsAt(p, "check_member", d, 4, 0, 0, n)
           \/ IsAt(p, "instantiate_close", d, 7, 0, 0, 0)
  BY Places DEF IsAt, PartsOf, Once, Each

LEMMA PartsOfLine ==
  ASSUME NEW spec, NEW d \in Nat, NEW l \in Nat, NEW p
  PROVE  p \in LineParts(spec, d, l) <=>
           \/ IsAt(p, "line_head", d, 2, l, 1, 0)
           \/ \E n \in 1..spec.members : IsAt(p, "line_member", d, 2, l, 2, n)
           \/ IsAt(p, "line_mapped", d, 2, l, 3, 0)
           \/ spec.renamed /\ IsAt(p, "schema_open", d, 2, l, 4, 0)
           \/ \E n \in 1..spec.schema : spec.renamed /\ IsAt(p, "schema_member", d, 2, l, 5, n)
           \/ IsAt(p, "line_tail", d, 2, l, 6, 0)
  BY Places DEF IsAt, LineParts, Once, Each

LEMMA ComposeParts ==
  ASSUME NEW spec, spec.kind = "compose", NEW d \in Nat, NEW p
  PROVE  p \in PartsOf(spec, d) <=>
           \/ IsAt(p, "begin", d, 1, 0, 0, 0)
           \/ \E l \in DOMAIN spec.lines : p \in LineParts(spec.lines[l], d, l)
           \/ IsAt(p, "open_head", d, 3, 0, 0, 0)
           \/ \E n \in 1..spec.trusted : IsAt(p, "open_member", d, 4, 0, 0, n)
           \/ IsAt(p, "open_tail", d, 5, 0, 0, 0)
           \/ \E n \in 1..(spec.pending + spec.helpers) : IsAt(p, "compose_member", d, 6, 0, 0, n)
           \/ IsAt(p, "compose_close", d, 7, 0, 0, 0)
  BY Places DEF IsAt, PartsOf, Once, Each

\* The keys are five numbers, the first that of the declaration.
LEMMA Fields ==
  ASSUME NEW spec \in Declarations
  PROVE  \/ spec.kind = "plain"
         \/ spec.kind = "group" /\ spec.helpers \in Nat
         \/ spec.kind = "instantiate" /\ spec.members \in Nat
         \/ /\ spec.kind = "compose" /\ spec.lines \in Seq(Lines)
            /\ spec.trusted \in Nat /\ spec.pending \in Nat /\ spec.helpers \in Nat
  BY DEF Declarations

LEMMA LineFields ==
  ASSUME NEW spec \in Lines
  PROVE  spec.members \in Nat /\ spec.renamed \in BOOLEAN /\ spec.schema \in Nat
  BY DEF Lines

-----------------------------------------------------------------------------
(* The parts of a declaration by numbers alone.                            *)

\* There is a part at this spot of the line, of the declaration.
InLine(spec, b, n) ==
  \/ b \in {1, 3, 6} /\ n = 0
  \/ b = 2 /\ n \in 1..spec.members
  \/ spec.renamed /\ b = 4 /\ n = 0
  \/ spec.renamed /\ b = 5 /\ n \in 1..spec.schema
Has(spec, a, l, b, n) ==
  \/ spec.kind = "plain" /\ l = 0 /\ b = 0 /\ a = 1 /\ n = 0
  \/ spec.kind = "group" /\ l = 0 /\ b = 0 /\ a \in {1, 7} /\ n = 0
  \/ spec.kind = "group" /\ l = 0 /\ b = 0 /\ a = 2 /\ n \in 1..spec.helpers
  \/ spec.kind = "instantiate" /\ l = 0 /\ b = 0 /\ a \in {1, 3, 7} /\ n = 0
  \/ spec.kind = "instantiate" /\ l = 0 /\ b = 0 /\ a \in {2, 4} /\ n \in 1..spec.members
  \/ spec.kind = "compose" /\ l = 0 /\ b = 0 /\ a \in {1, 3, 5, 7} /\ n = 0
  \/ spec.kind = "compose" /\ l = 0 /\ b = 0 /\ a = 4 /\ n \in 1..spec.trusted
  \/ spec.kind = "compose" /\ l = 0 /\ b = 0 /\ a = 6 /\ n \in 1..(spec.pending + spec.helpers)
  \/ spec.kind = "compose" /\ a = 2 /\ l \in DOMAIN spec.lines /\ InLine(spec.lines[l], b, n)

\* The phase of the part at a spot.
PhaseAt(spec, a, b) ==
  CASE spec.kind = "plain" -> "plain"
    [] spec.kind = "group" ->
         (CASE a = 1 -> "group_open" [] a = 2 -> "group_member" [] OTHER -> "group_close")
    [] spec.kind = "instantiate" ->
         (CASE a = 1 -> "instantiate_head" [] a = 2 -> "map_member" [] a = 3 -> "instantiate_tail"
            [] a = 4 -> "check_member" [] OTHER -> "instantiate_close")
    [] spec.kind = "compose" ->
         (CASE a = 1 -> "begin" [] a = 3 -> "open_head" [] a = 4 -> "open_member"
            [] a = 5 -> "open_tail" [] a = 6 -> "compose_member" [] a = 7 -> "compose_close"
            [] OTHER ->
                 (CASE b = 1 -> "line_head" [] b = 2 -> "line_member" [] b = 3 -> "line_mapped"
                    [] b = 4 -> "schema_open" [] b = 5 -> "schema_member" [] OTHER -> "line_tail"))

Placed(p, spec, d) ==
  \E a, l, b, n \in Int :
    Has(spec, a, l, b, n) /\ Spot(Key(p), d, a, l, b, n) /\ p = <<d, PhaseAt(spec, a, b), l, n>>

LEMMA PlacedAt ==
  ASSUME NEW spec, NEW d, NEW p, NEW phase, NEW a \in Int, NEW l \in Int, NEW b \in Int, NEW n \in Int,
         IsAt(p, phase, d, a, l, b, n), Has(spec, a, l, b, n), PhaseAt(spec, a, b) = phase
  PROVE  Placed(p, spec, d)
<1>1. Spot(Key(p), d, a, l, b, n)
  BY KeyAt
<1>2. p = <<d, PhaseAt(spec, a, b), l, n>>
  BY DEF IsAt
<1> QED
  BY <1>1, <1>2 DEF Placed

LEMMA PartsPlaced ==
  ASSUME NEW spec \in Declarations, NEW d \in Nat, NEW p \in PartsOf(spec, d)
  PROVE  Placed(p, spec, d)
<1>0. 0 \in Int /\ 1 \in Int /\ 2 \in Int /\ 3 \in Int /\ 4 \in Int /\ 5 \in Int /\ 6 \in Int /\ 7 \in Int
  OBVIOUS
<1>1. CASE spec.kind = "plain"
  <2>1. Has(spec, 1, 0, 0, 0) /\ PhaseAt(spec, 1, 0) = "plain"
    BY <1>1 DEF Has, PhaseAt
  <2>2. IsAt(p, "plain", d, 1, 0, 0, 0)
    BY <1>1, PlainParts
  <2> QED
    BY <1>0, <2>1, <2>2, PlacedAt
<1>2. CASE spec.kind = "group" /\ spec.helpers \in Nat
  <2>1. /\ Has(spec, 1, 0, 0, 0) /\ PhaseAt(spec, 1, 0) = "group_open"
        /\ \A n \in 1..spec.helpers : n \in Int /\ Has(spec, 2, 0, 0, n)
        /\ PhaseAt(spec, 2, 0) = "group_member"
        /\ Has(spec, 7, 0, 0, 0) /\ PhaseAt(spec, 7, 0) = "group_close"
    BY <1>2 DEF Has, PhaseAt
  <2>2. \/ IsAt(p, "group_open", d, 1, 0, 0, 0)
        \/ \E n \in 1..spec.helpers : IsAt(p, "group_member", d, 2, 0, 0, n)
        \/ IsAt(p, "group_close", d, 7, 0, 0, 0)
    BY <1>2, GroupParts
  <2> QED
    BY <1>0, <2>1, <2>2, PlacedAt
<1>3. CASE spec.kind = "instantiate" /\ spec.members \in Nat
  <2>1. /\ Has(spec, 1, 0, 0, 0) /\ PhaseAt(spec, 1, 0) = "instantiate_head"
        /\ \A n \in 1..spec.members : n \in Int /\ Has(spec, 2, 0, 0, n)
        /\ PhaseAt(spec, 2, 0) = "map_member"
        /\ Has(spec, 3, 0, 0, 0) /\ PhaseAt(spec, 3, 0) = "instantiate_tail"
        /\ \A n \in 1..spec.members : Has(spec, 4, 0, 0, n) /\ PhaseAt(spec, 4, 0) = "check_member"
        /\ Has(spec, 7, 0, 0, 0) /\ PhaseAt(spec, 7, 0) = "instantiate_close"
    BY <1>3 DEF Has, PhaseAt
  <2>2. \/ IsAt(p, "instantiate_head", d, 1, 0, 0, 0)
        \/ \E n \in 1..spec.members : IsAt(p, "map_member", d, 2, 0, 0, n)
        \/ IsAt(p, "instantiate_tail", d, 3, 0, 0, 0)
        \/ \E n \in 1..spec.members : IsAt(p, "check_member", d, 4, 0, 0, n)
        \/ IsAt(p, "instantiate_close", d, 7, 0, 0, 0)
    BY <1>3, InstantiateParts
  <2> QED
    BY <1>0, <2>1, <2>2, PlacedAt
<1>4. CASE /\ spec.kind = "compose" /\ spec.lines \in Seq(Lines)
           /\ spec.trusted \in Nat /\ spec.pending \in Nat /\ spec.helpers \in Nat
  <2>1. ASSUME NEW l \in DOMAIN spec.lines, p \in LineParts(spec.lines[l], d, l)
        PROVE  Placed(p, spec, d)
    <3>1. l \in Nat /\ l \in Int /\ spec.lines[l] \in Lines
      BY <1>4
    <3>2. /\ Has(spec, 2, l, 1, 0) /\ PhaseAt(spec, 2, 1) = "line_head"
          /\ \A n \in 1..spec.lines[l].members : n \in Int /\ Has(spec, 2, l, 2, n)
          /\ PhaseAt(spec, 2, 2) = "line_member"
          /\ Has(spec, 2, l, 3, 0) /\ PhaseAt(spec, 2, 3) = "line_mapped"
          /\ spec.lines[l].renamed => Has(spec, 2, l, 4, 0)
          /\ PhaseAt(spec, 2, 4) = "schema_open"
          /\ \A n \in 1..spec.lines[l].schema :
               n \in Int /\ (spec.lines[l].renamed => Has(spec, 2, l, 5, n))
          /\ PhaseAt(spec, 2, 5) = "schema_member"
          /\ Has(spec, 2, l, 6, 0) /\ PhaseAt(spec, 2, 6) = "line_tail"
      BY <1>4, <3>1, LineFields DEF Has, PhaseAt, InLine
    <3>3. \/ IsAt(p, "line_head", d, 2, l, 1, 0)
          \/ \E n \in 1..spec.lines[l].members : IsAt(p, "line_member", d, 2, l, 2, n)
          \/ IsAt(p, "line_mapped", d, 2, l, 3, 0)
          \/ spec.lines[l].renamed /\ IsAt(p, "schema_open", d, 2, l, 4, 0)
          \/ \E n \in 1..spec.lines[l].schema :
               spec.lines[l].renamed /\ IsAt(p, "schema_member", d, 2, l, 5, n)
          \/ IsAt(p, "line_tail", d, 2, l, 6, 0)
      BY <2>1, <3>1, PartsOfLine
    <3> QED
      BY <1>0, <3>1, <3>2, <3>3, PlacedAt
  <2>2. /\ Has(spec, 1, 0, 0, 0) /\ PhaseAt(spec, 1, 0) = "begin"
        /\ Has(spec, 3, 0, 0, 0) /\ PhaseAt(spec, 3, 0) = "open_head"
        /\ \A n \in 1..spec.trusted :
             n \in Int /\ Has(spec, 4, 0, 0, n) /\ PhaseAt(spec, 4, 0) = "open_member"
        /\ Has(spec, 5, 0, 0, 0) /\ PhaseAt(spec, 5, 0) = "open_tail"
        /\ \A n \in 1..(spec.pending + spec.helpers) :
             n \in Int /\ Has(spec, 6, 0, 0, n) /\ PhaseAt(spec, 6, 0) = "compose_member"
        /\ Has(spec, 7, 0, 0, 0) /\ PhaseAt(spec, 7, 0) = "compose_close"
    BY <1>4 DEF Has, PhaseAt
  <2>3. \/ IsAt(p, "begin", d, 1, 0, 0, 0)
        \/ \E l \in DOMAIN spec.lines : p \in LineParts(spec.lines[l], d, l)
        \/ IsAt(p, "open_head", d, 3, 0, 0, 0)
        \/ \E n \in 1..spec.trusted : IsAt(p, "open_member", d, 4, 0, 0, n)
        \/ IsAt(p, "open_tail", d, 5, 0, 0, 0)
        \/ \E n \in 1..(spec.pending + spec.helpers) : IsAt(p, "compose_member", d, 6, 0, 0, n)
        \/ IsAt(p, "compose_close", d, 7, 0, 0, 0)
    BY <1>4, ComposeParts
  <2> QED
    BY <1>0, <2>1, <2>2, <2>3, PlacedAt
<1> QED
  BY <1>1, <1>2, <1>3, <1>4, Fields

Five(x) == \A k \in 1..5 : x[k] \in Int
KeyIn(p, d) == Key(p)[1] = d /\ Five(Key(p))

LEMMA KeysTyped ==
  ASSUME NEW spec \in Declarations, NEW d \in Nat, NEW p \in PartsOf(spec, d)
  PROVE  KeyIn(p, d)
<1>1. PICK a, l, b, n \in Int : Spot(Key(p), d, a, l, b, n)
  BY PartsPlaced DEF Placed
<1>2. \A k \in 1..5 : k = 1 \/ k = 2 \/ k = 3 \/ k = 4 \/ k = 5
  OBVIOUS
<1> QED
  BY <1>1, <1>2 DEF KeyIn, Five, Spot

LEMMA KeyOfPart ==
  ASSUME program \in Programs, NEW p \in Parts
  PROVE  \E d \in DOMAIN program : d \in Nat /\ p \in PartsOf(program[d], d) /\ KeyIn(p, d)
<1>1. PICK d \in DOMAIN program : p \in PartsOf(program[d], d)
  BY DEF Parts
<1>2. d \in Nat /\ program[d] \in Declarations
  BY DeclTyped
<1> QED
  BY <1>1, <1>2, KeysTyped

LEMMA FiveNumbers ==
  ASSUME NEW x, Five(x)
  PROVE  x[1] \in Int /\ x[2] \in Int /\ x[3] \in Int /\ x[4] \in Int /\ x[5] \in Int
<1>1. 1 \in 1..5 /\ 2 \in 1..5 /\ 3 \in 1..5 /\ 4 \in 1..5 /\ 5 \in 1..5
  OBVIOUS
<1> QED
  BY <1>1 DEF Five

\* The parts of other declarations are before or after all of this one.
LEMMA Elsewhere ==
  ASSUME program \in Programs, decl \in DOMAIN program, NEW p \in Parts, p \notin PartsOf(Decl, decl),
         NEW x, NEW y, x[1] = decl, y[1] = decl
  PROVE  Below(Key(p), x) <=> Below(Key(p), y)
<1>1. PICK d \in DOMAIN program : d \in Nat /\ p \in PartsOf(program[d], d) /\ KeyIn(p, d)
  BY KeyOfPart
<1>2. d # decl /\ decl \in Nat
  BY <1>1, DeclTyped DEF Decl
<1>3. Key(p)[1] = d
  BY <1>1 DEF KeyIn
<1>4. Below(Key(p), x) <=> d < decl
  BY <1>1, <1>2, <1>3, BelowBy
<1>5. Below(Key(p), y) <=> d < decl
  BY <1>1, <1>2, <1>3, BelowBy
<1> QED
  BY <1>4, <1>5

\* The order is strict.
LEMMA Irreflexive == ASSUME NEW x, Five(x) PROVE ~Below(x, x)
  BY BelowBy, FiveNumbers

LEMMA Transitive ==
  ASSUME NEW x, NEW y, NEW z, Five(x), Five(y), Five(z), Below(x, y), Below(y, z)
  PROVE  Below(x, z)
  BY BelowBy, FiveNumbers

LEMMA NotAfter ==
  ASSUME NEW x, NEW y, NEW z, Five(x), Five(y), Five(z), Below(x, y), ~Below(z, y)
  PROVE  Below(x, z)
  BY BelowBy, FiveNumbers

-----------------------------------------------------------------------------
\* This part is the next one, and here comes after it and before all others that are left.
Leads(r, here) == \A p \in PartsOf(Decl, decl) : Below(Key(p), here) <=> (Below(Key(p), Here) \/ p = r)

Halts == at' = "returned" /\ outcome' \in {"fail", "oom"}
GoesOn(step, d, l, n) == outcome' = "none" /\ GoTo(step, d, l, n)

\* A part is run: the invariant holds if the next part is the one that was run.
LEMMA PartRun ==
  ASSUME InOrder, at # "returned", decl \in DOMAIN program, NEW r \in PartsOf(Decl, decl), NEW here,
         Five(Here), Five(here), Here[1] = decl, here[1] = decl,
         Leads(r, here), ~Below(Key(r), Here),
         program' = program, trace' = Append(trace, r),
         \/ Halts
         \/ at' # "returned" /\ outcome' = "none" /\ Control' /\ Here' = here
  PROVE  InOrder'
<1>0. /\ program \in Programs /\ trace \in Seq(Parts) /\ OneRunOrder
      /\ \A p \in Parts : p \in Done <=> Below(Key(p), Here)
  BY DEF InOrder
<1>1. r \in Parts /\ Parts' = Parts
  <2>1. r \in Parts
    BY DEF Parts, Decl
  <2>2. Parts' = Parts
    <3> DEFINE In(prog) == UNION {PartsOf(prog[d], d) : d \in DOMAIN prog}
    <3>1. Parts = In(program) /\ Parts' = In(program')
      BY DEF Parts
    <3> HIDE DEF In
    <3> QED
      BY <3>1
  <2> QED
    BY <2>1, <2>2
<1>2. trace' \in Seq(Parts) /\ Len(trace') = Len(trace) + 1 /\ Len(trace) \in Nat
  BY <1>0, <1>1
<1>3. /\ \A n \in DOMAIN trace : n \in DOMAIN trace' /\ trace'[n] = trace[n]
      /\ \A n \in DOMAIN trace' : n \in DOMAIN trace \/ (n = Len(trace) + 1 /\ trace'[n] = r)
      /\ DOMAIN trace = 1..Len(trace) /\ DOMAIN trace' = 1..(Len(trace) + 1)
      /\ trace'[Len(trace) + 1] = r
  <2>1. DOMAIN trace = 1..Len(trace) /\ DOMAIN trace' = 1..(Len(trace) + 1)
    BY <1>0, <1>2
  <2>2. (\A n \in 1..Len(trace) : trace'[n] = trace[n]) /\ trace'[Len(trace) + 1] = r
    BY <1>0, <1>1
  <2>3. /\ \A n \in 1..Len(trace) : n \in 1..(Len(trace) + 1)
        /\ \A n \in 1..(Len(trace) + 1) : n \in 1..Len(trace) \/ n = Len(trace) + 1
    BY <1>2
  <2> QED
    BY <2>1, <2>2, <2>3
<1>4. Done' = Done \cup {r}
  BY <1>2, <1>3 DEF Done
<1>5. \A p \in Parts : p \in Done' <=> Below(Key(p), here)
  <2> SUFFICES ASSUME NEW p \in Parts PROVE p \in Done' <=> Below(Key(p), here)
    OBVIOUS
  <2>1. CASE p \in PartsOf(Decl, decl)
    BY <1>0, <1>4, <2>1 DEF Leads
  <2>2. CASE p \notin PartsOf(Decl, decl)
    <3>1. Below(Key(p), here) <=> Below(Key(p), Here)
      BY <1>0, <2>2, Elsewhere
    <3> QED
      BY <1>0, <1>4, <2>2, <3>1
  <2> QED
    BY <2>1, <2>2
<1>6. \A p \in Parts : Five(Key(p))
  BY <1>0, KeyOfPart DEF KeyIn
<1>7. \A q \in Done : Before(q, r)
  <2> SUFFICES ASSUME NEW q \in Done PROVE Before(q, r)
    OBVIOUS
  <2>1. q \in Parts
    BY <1>0 DEF OneRunOrder
  <2> QED
    BY <1>0, <1>1, <1>6, <2>1, NotAfter DEF Before
<1>8. \A m, n \in DOMAIN trace' : m < n => Before(trace'[m], trace'[n])
  <2> SUFFICES ASSUME NEW m \in DOMAIN trace', NEW n \in DOMAIN trace', m < n
               PROVE  Before(trace'[m], trace'[n])
    OBVIOUS
  <2>1. m \in DOMAIN trace
    BY <1>2, <1>3
  <2>2. CASE n \in DOMAIN trace
    BY <1>0, <1>3, <2>1, <2>2 DEF OneRunOrder
  <2>3. CASE trace'[n] = r
    BY <1>3, <1>7, <2>1, <2>3 DEF Done
  <2> QED
    BY <1>3, <2>2, <2>3
<1>9. \A q \in Done', p \in Parts : Before(p, q) => p \in Done'
  <2> SUFFICES ASSUME NEW q \in Done', NEW p \in Parts, Before(p, q) PROVE p \in Done'
    OBVIOUS
  <2>1. CASE q \in Done
    BY <1>0, <1>4, <2>1 DEF OneRunOrder
  <2>2. CASE q = r
    <3>1. Below(Key(r), here)
      BY <1>1, <1>4, <1>5
    <3>2. Below(Key(p), here)
      BY <1>1, <1>6, <2>2, <3>1, Transitive DEF Before
    <3> QED
      BY <1>5, <3>2
  <2> QED
    BY <1>4, <2>1, <2>2
<1>10. OneRunOrder'
  <2>1. Done' \subseteq Parts'
    BY <1>0, <1>1, <1>4 DEF OneRunOrder
  <2>2. outcome' # "done"
    BY DEF Halts
  <2>3. \A m, n \in DOMAIN trace' : m < n => Before(trace[m], trace[n])'
    BY <1>8 DEF Before, Below, Key, Place, LinePlace
  <2>4. \A q \in Done', p \in Parts' : Before(p, q)' => p \in Done'
    BY <1>1, <1>9 DEF Before, Below, Key, Place, LinePlace
  <2> QED
    BY <2>1, <2>2, <2>3, <2>4 DEF OneRunOrder
<1>11. CASE Halts
  BY <1>0, <1>1, <1>2, <1>10, <1>11 DEF InOrder, Halts
<1>12. CASE at' # "returned" /\ outcome' = "none" /\ Control' /\ Here' = here
  <2>1. \A p \in Parts' : p \in Done' <=> Below(Key(p), Here')
    BY <1>1, <1>5, <1>12
  <2> QED
    BY <1>0, <1>1, <1>2, <1>10, <1>12, <2>1 DEF InOrder
<1> QED
  BY <1>11, <1>12

-----------------------------------------------------------------------------
\* How the steps end.
LEMMA FailsHalts ==
  ASSUME NEW m, NEW on, NEW holders, NEW scratch, Fails(m, on, holders, scratch)
  PROVE  Halts
  BY DEF Fails, RunsOut, Stop, Halts

LEMMA KeptGoes ==
  ASSUME outcome = "none", NEW m, NEW n, NEW values, NoSwap(m, n, values),
         NEW step, NEW d, NEW l, NEW k
  PROVE  /\ GoTo(step, d, l, k) => GoesOn(step, d, l, k)
         /\ Continue(step, d, l, k) => GoesOn(step, d, l, k)
  BY DEF NoSwap, Continue, GoTo, GoesOn

LEMMA SwapGoes ==
  ASSUME outcome = "none", NEW m, NEW n, NEW values, NEW survivors, NEW scratch,
         Swap(m, n, values, survivors, scratch),
         NEW step, NEW d, NEW l, NEW k, Continue(step, d, l, k)
  PROVE  Halts \/ GoesOn(step, d, l, k)
  BY DEF Swap, Continue, GoTo, GoesOn, Halts

LEMMA MemberGoes ==
  ASSUME outcome = "none", NEW holders, NEW target, NEW result, NEW scratch,
         MemberOnStep(holders, target, result, scratch)
  PROVE  Halts \/ GoesOn(at, decl, line, i + 1)
  BY FailsHalts, KeptGoes DEF MemberOnStep, RunsOut, Stop, Halts

\* Two parts are the same only if they are at the same place.
LEMMA SpotFive ==
  ASSUME NEW x, NEW d \in Int, NEW a \in Int, NEW l \in Int, NEW b \in Int, NEW n \in Int,
         Spot(x, d, a, l, b, n)
  PROVE  Five(x) /\ x[1] = d
<1>1. \A k \in 1..5 : k = 1 \/ k = 2 \/ k = 3 \/ k = 4 \/ k = 5
  OBVIOUS
<1> QED
  BY <1>1 DEF Five, Spot

\* What is known when the loops are in a declaration.
LEMMA InDeclaration ==
  ASSUME InOrder, at # "returned", decl \in DOMAIN program
  PROVE  /\ program \in Programs /\ decl \in Nat /\ decl <= Len(program) /\ Len(program) \in Nat
         /\ Decl \in Declarations /\ outcome = "none" /\ Control
         /\ line \in Nat /\ line >= 1 /\ i \in Nat /\ i >= 1
  BY DeclTyped DEF InOrder, Decl, Control

LEMMA InCompose ==
  ASSUME InOrder, at # "returned", decl \in DOMAIN program, Decl.kind = "compose"
  PROVE  /\ Decl.lines \in Seq(Lines) /\ DOMAIN Decl.lines = 1..Len(Decl.lines) /\ Len(Decl.lines) \in Nat
         /\ Decl.trusted \in Nat /\ Decl.pending \in Nat /\ Decl.helpers \in Nat
         /\ line \in DOMAIN Decl.lines =>
              /\ Line = Decl.lines[line]
              /\ Line.members \in Nat /\ Line.renamed \in BOOLEAN /\ Line.schema \in Nat
<1>1. Decl \in Declarations
  BY InDeclaration
<1>2. /\ Decl.lines \in Seq(Lines)
      /\ Decl.trusted \in Nat /\ Decl.pending \in Nat /\ Decl.helpers \in Nat
  BY <1>1, Fields
<1> QED
  BY <1>2, LineFields DEF Line

\* Spots of one declaration are ordered by their numbers.
Lt(a, l, b, n, e, f, g, h) ==
  \/ a < e
  \/ a = e /\ l < f
  \/ a = e /\ l = f /\ b < g
  \/ a = e /\ l = f /\ b = g /\ n < h

LEMMA BelowLt ==
  ASSUME NEW d \in Int, NEW x, NEW y, NEW a, NEW l, NEW b, NEW n, NEW e, NEW f, NEW g, NEW h,
         Spot(x, d, a, l, b, n), Spot(y, d, e, f, g, h)
  PROVE  Below(x, y) <=> Lt(a, l, b, n, e, f, g, h)
  BY BelowBy DEF Spot, Lt

\* From this spot, the part that comes next, and where one is after it.
Follows(a0, l0, b0, n0, ar, lr, br, nr, a1, l1, b1, n1) ==
  \A a, l, b, n \in Int : Has(Decl, a, l, b, n) =>
    (Lt(a, l, b, n, a1, l1, b1, n1) <=>
       (Lt(a, l, b, n, a0, l0, b0, n0) \/ (a = ar /\ l = lr /\ b = br /\ n = nr)))

\* A part is run, and the loops go on behind it.
LEMMA Moves ==
  ASSUME InOrder, at # "returned", decl \in DOMAIN program,
         NEW a0 \in Int, NEW l0 \in Int, NEW b0 \in Int, NEW n0 \in Int,
         NEW ar \in Int, NEW lr \in Int, NEW br \in Int, NEW nr \in Int,
         NEW a1 \in Int, NEW l1 \in Int, NEW b1 \in Int, NEW n1 \in Int,
         NEW phase, NEW r, IsAt(r, phase, decl, ar, lr, br, nr), r \in PartsOf(Decl, decl),
         Spot(Here, decl, a0, l0, b0, n0),
         ~Lt(ar, lr, br, nr, a0, l0, b0, n0), Follows(a0, l0, b0, n0, ar, lr, br, nr, a1, l1, b1, n1),
         program' = program, trace' = Append(trace, r),
         \/ Halts
         \/ /\ at' # "returned" /\ outcome' = "none" /\ Control'
            /\ Here' = <<decl, a1, l1, b1, n1>>
  PROVE  InOrder'
<1> DEFINE here == <<decl, a1, l1, b1, n1>>
<1>1. decl \in Nat /\ decl \in Int /\ Decl \in Declarations
  BY InDeclaration
<1>2. Spot(here, decl, a1, l1, b1, n1)
  BY DEF Spot
<1>3. Spot(Key(r), decl, ar, lr, br, nr)
  BY KeyAt
<1> HIDE DEF here
<1>4. Five(Here) /\ Five(here) /\ Here[1] = decl /\ here[1] = decl
  BY <1>1, <1>2, SpotFive
<1>5. ~Below(Key(r), Here)
  BY <1>1, <1>2, <1>3, BelowLt
<1>6. Leads(r, here)
  <2> SUFFICES ASSUME NEW p \in PartsOf(Decl, decl)
               PROVE  Below(Key(p), here) <=> (Below(Key(p), Here) \/ p = r)
    BY DEF Leads
  <2>1. PICK a, l, b, n \in Int : /\ Has(Decl, a, l, b, n) /\ Spot(Key(p), decl, a, l, b, n)
                                  /\ p = <<decl, PhaseAt(Decl, a, b), l, n>>
    <3>1. Placed(p, Decl, decl)
      BY <1>1, PartsPlaced
    <3> QED
      BY <3>1 DEF Placed
  <2>2. Below(Key(p), here) <=> Lt(a, l, b, n, a1, l1, b1, n1)
    BY <1>1, <1>2, <2>1, BelowLt
  <2>3. Below(Key(p), Here) <=> Lt(a, l, b, n, a0, l0, b0, n0)
    BY <1>1, <1>2, <2>1, BelowLt
  <2>4. p = r <=> (a = ar /\ l = lr /\ b = br /\ n = nr)
    <3>1. p = r => (a = ar /\ l = lr /\ b = br /\ n = nr)
      BY <1>3, <2>1 DEF Spot
    <3>2. r = <<decl, PhaseAt(Decl, ar, br), lr, nr>>
      <4>1. PICK e, f, g, h \in Int : /\ Spot(Key(r), decl, e, f, g, h)
                                      /\ r = <<decl, PhaseAt(Decl, e, g), f, h>>
        <5>1. Placed(r, Decl, decl)
          BY <1>1, PartsPlaced
        <5> QED
          BY <5>1 DEF Placed
      <4>2. e = ar /\ f = lr /\ g = br /\ h = nr
        BY <1>3, <4>1 DEF Spot
      <4> QED
        BY <4>1, <4>2
    <3> QED
      BY <2>1, <3>1, <3>2
  <2> QED
    BY <2>1, <2>2, <2>3, <2>4 DEF Follows
<1> QED
  BY <1>4, <1>5, <1>6, PartRun DEF here

-----------------------------------------------------------------------------
(* One lemma per action.                                                  *)
LEMMA PlainEntryInOrder == InOrder /\ PlainEntry => InOrder'
<1> SUFFICES ASSUME InOrder, PlainEntry PROVE InOrder'
  OBVIOUS
<1> DEFINE r == <<decl, "plain", 0, 0>>
<1>1. /\ at = "declaration" /\ at # "returned" /\ decl \in DOMAIN program /\ Decl.kind = "plain"
      /\ trace' = Append(trace, r) /\ program' = program
  BY DEF PlainEntry, Begins, Ran, InOrder, Control
<1>2. /\ decl \in Nat /\ decl <= Len(program) /\ Len(program) \in Nat /\ outcome = "none"
      /\ 0 \in Int /\ 1 \in Int /\ 8 \in Int
  BY <1>1, InDeclaration
<1>3. IsAt(r, "plain", decl, 1, 0, 0, 0) /\ r \in PartsOf(Decl, decl)
  BY <1>1, <1>2, Places, PlainParts DEF IsAt
<1>4. Spot(Here, decl, 0, 0, 0, 0)
  BY <1>1 DEF Here, Spot
<1>5. Follows(0, 0, 0, 0, 1, 0, 0, 0, 8, 0, 0, 0) /\ ~Lt(1, 0, 0, 0, 0, 0, 0, 0)
  BY <1>1, <1>2 DEF Follows, Has, Lt
<1>6. Halts \/ GoesOn("declared", decl, 1, 1)
  BY <1>2, FailsHalts, KeptGoes DEF PlainEntry, FailsInLive
<1>7. ASSUME GoesOn("declared", decl, 1, 1)
      PROVE  /\ at' # "returned" /\ outcome' = "none" /\ Control'
             /\ Here' = <<decl, 8, 0, 0, 0>>
  <2>1. /\ at' = "declared" /\ decl' = decl /\ line' = 1 /\ i' = 1
        /\ outcome' = "none" /\ program' = program /\ Decl' = Decl
    BY <1>1, <1>7 DEF GoesOn, GoTo, Decl
  <2>2. Control'
    BY <1>1, <1>2, <2>1 DEF Control
  <2>3. Here' = <<decl, 8, 0, 0, 0>>
    BY <2>1 DEF Here
  <2> QED
    BY <2>1, <2>2, <2>3
<1> HIDE DEF r
<1> QED
  BY <1>1, <1>2, <1>3, <1>4, <1>5, <1>6, <1>7, Moves

LEMMA GroupOpenInOrder == InOrder /\ GroupOpen => InOrder'
<1> SUFFICES ASSUME InOrder, GroupOpen PROVE InOrder'
  OBVIOUS
<1> DEFINE r == <<decl, "group_open", 0, 0>>
<1>1. /\ at = "declaration" /\ at # "returned" /\ decl \in DOMAIN program /\ Decl.kind = "group"
      /\ trace' = Append(trace, r) /\ program' = program
  BY DEF GroupOpen, Begins, Ran, InOrder, Control
<1>2. /\ decl \in Nat /\ decl <= Len(program) /\ Len(program) \in Nat /\ outcome = "none"
      /\ Decl.helpers \in Nat
      /\ 0 \in Int /\ 1 \in Int /\ 2 \in Int
  BY <1>1, InDeclaration, Fields
<1>3. IsAt(r, "group_open", decl, 1, 0, 0, 0) /\ r \in PartsOf(Decl, decl)
  BY <1>1, <1>2, Places, GroupParts DEF IsAt
<1>4. Spot(Here, decl, 0, 0, 0, 0)
  BY <1>1 DEF Here, Spot
<1>5. Follows(0, 0, 0, 0, 1, 0, 0, 0, 2, 0, 0, 1) /\ ~Lt(1, 0, 0, 0, 0, 0, 0, 0)
  BY <1>1, <1>2 DEF Follows, Has, Lt
<1>6. Halts \/ GoesOn("group_member", decl, 1, 1)
  BY <1>2, FailsHalts, SwapGoes DEF GroupOpen, FailsInLive, GroupSwap
<1>7. ASSUME GoesOn("group_member", decl, 1, 1)
      PROVE  /\ at' # "returned" /\ outcome' = "none" /\ Control'
             /\ Here' = <<decl, 2, 0, 0, 1>>
  <2>1. /\ at' = "group_member" /\ decl' = decl /\ line' = 1 /\ i' = 1
        /\ outcome' = "none" /\ program' = program /\ Decl' = Decl
    BY <1>1, <1>7 DEF GoesOn, GoTo, Decl
  <2>2. Control'
    BY <1>1, <1>2, <2>1 DEF Control
  <2>3. Here' = <<decl, 2, 0, 0, 1>>
    BY <2>1 DEF Here
  <2> QED
    BY <2>1, <2>2, <2>3
<1> HIDE DEF r
<1> QED
  BY <1>1, <1>2, <1>3, <1>4, <1>5, <1>6, <1>7, Moves

LEMMA GroupMemberInOrder == InOrder /\ GroupMember => InOrder'
<1> SUFFICES ASSUME InOrder, GroupMember PROVE InOrder'
  OBVIOUS
<1> DEFINE r == <<decl, "group_member", 0, i>>
<1>1. /\ at = "group_member" /\ at # "returned" /\ decl \in DOMAIN program /\ Decl.kind = "group"
      /\ i <= Decl.helpers
      /\ trace' = Append(trace, r) /\ program' = program
  BY DEF GroupMember, Ran, InOrder, Control
<1>2. /\ decl \in Nat /\ decl <= Len(program) /\ Len(program) \in Nat /\ outcome = "none"
      /\ Decl.helpers \in Nat /\ i \in 1..Decl.helpers
      /\ 0 \in Int /\ 2 \in Int /\ i \in Int /\ i + 1 \in Int
  BY <1>1, InDeclaration, Fields
<1>3. IsAt(r, "group_member", decl, 2, 0, 0, i) /\ r \in PartsOf(Decl, decl)
  BY <1>1, <1>2, Places, GroupParts DEF IsAt
<1>4. Spot(Here, decl, 2, 0, 0, i)
  BY <1>1 DEF Here, Spot
<1>5. Follows(2, 0, 0, i, 2, 0, 0, i, 2, 0, 0, i + 1) /\ ~Lt(2, 0, 0, i, 2, 0, 0, i)
  BY <1>1, <1>2 DEF Follows, Has, Lt
<1>6. Halts \/ GoesOn("group_member", decl, 1, i + 1)
  BY <1>2, FailsHalts, SwapGoes DEF GroupMember, FailsInLive, GroupSwap
<1>7. ASSUME GoesOn("group_member", decl, 1, i + 1)
      PROVE  /\ at' # "returned" /\ outcome' = "none" /\ Control'
             /\ Here' = <<decl, 2, 0, 0, i + 1>>
  <2>1. /\ at' = "group_member" /\ decl' = decl /\ line' = 1 /\ i' = i + 1
        /\ outcome' = "none" /\ program' = program /\ Decl' = Decl
    BY <1>1, <1>7 DEF GoesOn, GoTo, Decl
  <2>2. Control'
    BY <1>1, <1>2, <2>1 DEF Control
  <2>3. Here' = <<decl, 2, 0, 0, i + 1>>
    BY <2>1 DEF Here
  <2> QED
    BY <2>1, <2>2, <2>3
<1> HIDE DEF r
<1> QED
  BY <1>1, <1>2, <1>3, <1>4, <1>5, <1>6, <1>7, Moves

LEMMA GroupCloseInOrder == InOrder /\ GroupClose => InOrder'
<1> SUFFICES ASSUME InOrder, GroupClose PROVE InOrder'
  OBVIOUS
<1> DEFINE r == <<decl, "group_close", 0, 0>>
<1>1. /\ at = "group_member" /\ at # "returned" /\ decl \in DOMAIN program /\ Decl.kind = "group"
      /\ i > Decl.helpers
      /\ trace' = Append(trace, r) /\ program' = program
  BY DEF GroupClose, Ran, InOrder, Control, CloseWith
<1>2. /\ decl \in Nat /\ decl <= Len(program) /\ Len(program) \in Nat /\ outcome = "none"
      /\ Decl.helpers \in Nat
      /\ 0 \in Int /\ 2 \in Int /\ 7 \in Int /\ 8 \in Int /\ i \in Int
  BY <1>1, InDeclaration, Fields
<1>3. IsAt(r, "group_close", decl, 7, 0, 0, 0) /\ r \in PartsOf(Decl, decl)
  BY <1>1, <1>2, Places, GroupParts DEF IsAt
<1>4. Spot(Here, decl, 2, 0, 0, i)
  BY <1>1 DEF Here, Spot
<1>5. Follows(2, 0, 0, i, 7, 0, 0, 0, 8, 0, 0, 0) /\ ~Lt(7, 0, 0, 0, 2, 0, 0, i)
  BY <1>1, <1>2 DEF Follows, Has, Lt
<1>6. Halts \/ GoesOn("declared", decl, 1, 1)
  BY <1>2, FailsHalts, KeptGoes DEF GroupClose, FailsInLive, CloseWith
<1>7. ASSUME GoesOn("declared", decl, 1, 1)
      PROVE  /\ at' # "returned" /\ outcome' = "none" /\ Control'
             /\ Here' = <<decl, 8, 0, 0, 0>>
  <2>1. /\ at' = "declared" /\ decl' = decl /\ line' = 1 /\ i' = 1
        /\ outcome' = "none" /\ program' = program /\ Decl' = Decl
    BY <1>1, <1>7 DEF GoesOn, GoTo, Decl
  <2>2. Control'
    BY <1>1, <1>2, <2>1 DEF Control
  <2>3. Here' = <<decl, 8, 0, 0, 0>>
    BY <2>1 DEF Here
  <2> QED
    BY <2>1, <2>2, <2>3
<1> HIDE DEF r
<1> QED
  BY <1>1, <1>2, <1>3, <1>4, <1>5, <1>6, <1>7, Moves

LEMMA ComposeBeginInOrder == InOrder /\ ComposeBegin => InOrder'
<1> SUFFICES ASSUME InOrder, ComposeBegin PROVE InOrder'
  OBVIOUS
<1> DEFINE r == <<decl, "begin", 0, 0>>
<1>1. /\ at = "declaration" /\ at # "returned" /\ decl \in DOMAIN program /\ Decl.kind = "compose"
      /\ trace' = Append(trace, r) /\ program' = program
  BY DEF ComposeBegin, Begins, Ran, InOrder, Control
<1>2. /\ decl \in Nat /\ decl <= Len(program) /\ Len(program) \in Nat /\ outcome = "none"
      /\ Decl.lines \in Seq(Lines) /\ DOMAIN Decl.lines = 1..Len(Decl.lines) /\ Len(Decl.lines) \in Nat
      /\ 0 \in Int /\ 1 \in Int /\ 2 \in Int
  BY <1>1, InDeclaration, InCompose
<1>3. IsAt(r, "begin", decl, 1, 0, 0, 0) /\ r \in PartsOf(Decl, decl)
  BY <1>1, <1>2, Places, ComposeParts DEF IsAt
<1>4. Spot(Here, decl, 0, 0, 0, 0)
  BY <1>1 DEF Here, Spot
<1>5. Follows(0, 0, 0, 0, 1, 0, 0, 0, 2, 1, 0, 0) /\ ~Lt(1, 0, 0, 0, 0, 0, 0, 0)
  BY <1>1, <1>2 DEF Follows, Has, Lt, InLine
<1>6. Halts \/ GoesOn("line", decl, 1, 1)
  BY <1>2, FailsHalts, SwapGoes DEF ComposeBegin, FailsInLive, StartSwap
<1>7. ASSUME GoesOn("line", decl, 1, 1)
      PROVE  /\ at' # "returned" /\ outcome' = "none" /\ Control'
             /\ Here' = <<decl, 2, 1, 0, 0>>
  <2>1. /\ at' = "line" /\ decl' = decl /\ line' = 1 /\ i' = 1
        /\ outcome' = "none" /\ program' = program /\ Decl' = Decl
    BY <1>1, <1>7 DEF GoesOn, GoTo, Decl
  <2>2. Control'
    BY <1>1, <1>2, <2>1 DEF Control
  <2>3. Here' = <<decl, 2, 1, 0, 0>>
    BY <2>1 DEF Here
  <2> QED
    BY <2>1, <2>2, <2>3
<1> HIDE DEF r
<1> QED
  BY <1>1, <1>2, <1>3, <1>4, <1>5, <1>6, <1>7, Moves

LEMMA LineHeadInOrder == InOrder /\ LineHead => InOrder'
<1> SUFFICES ASSUME InOrder, LineHead PROVE InOrder'
  OBVIOUS
<1> DEFINE r == <<decl, "line_head", line, 0>>
<1>1. /\ at = "line" /\ at # "returned" /\ decl \in DOMAIN program /\ Decl.kind = "compose"
      /\ line <= Len(Decl.lines)
      /\ trace' = Append(trace, r) /\ program' = program
  BY DEF LineHead, Ran, InOrder, Control
<1>2. /\ decl \in Nat /\ decl <= Len(program) /\ Len(program) \in Nat /\ outcome = "none"
      /\ line \in DOMAIN Decl.lines /\ line \in Nat /\ Line = Decl.lines[line] /\ Line.members \in Nat
      /\ DOMAIN Decl.lines = 1..Len(Decl.lines) /\ Len(Decl.lines) \in Nat
      /\ 0 \in Int /\ 1 \in Int /\ 2 \in Int /\ line \in Int
  BY <1>1, InDeclaration, InCompose
<1>3. IsAt(r, "line_head", decl, 2, line, 1, 0) /\ r \in PartsOf(Decl, decl)
  <2>1. IsAt(r, "line_head", decl, 2, line, 1, 0)
    BY Places DEF IsAt
  <2>2. r \in LineParts(Decl.lines[line], decl, line)
    BY <1>1, <1>2, <2>1, PartsOfLine
  <2> QED
    BY <1>1, <1>2, <2>1, <2>2, ComposeParts
<1>4. Spot(Here, decl, 2, line, 0, 0)
  BY <1>1 DEF Here, Spot
<1>5. Follows(2, line, 0, 0, 2, line, 1, 0, 2, line, 2, 1) /\ ~Lt(2, line, 1, 0, 2, line, 0, 0)
  BY <1>1, <1>2 DEF Follows, Has, Lt, InLine
<1>6. Halts \/ GoesOn("line_member", decl, line, 1)
  BY <1>2, FailsHalts, KeptGoes DEF LineHead, FailsInLive
<1>7. ASSUME GoesOn("line_member", decl, line, 1)
      PROVE  /\ at' # "returned" /\ outcome' = "none" /\ Control'
             /\ Here' = <<decl, 2, line, 2, 1>>
  <2>1. /\ at' = "line_member" /\ decl' = decl /\ line' = line /\ i' = 1
        /\ outcome' = "none" /\ program' = program /\ Decl' = Decl /\ Line' = Line
    BY <1>1, <1>7 DEF GoesOn, GoTo, Decl, Line
  <2>2. Control'
    BY <1>1, <1>2, <2>1 DEF Control
  <2>3. Here' = <<decl, 2, line, 2, 1>>
    BY <2>1 DEF Here
  <2> QED
    BY <2>1, <2>2, <2>3
<1> HIDE DEF r
<1> QED
  BY <1>1, <1>2, <1>3, <1>4, <1>5, <1>6, <1>7, Moves

LEMMA LineMemberInOrder == InOrder /\ LineMember => InOrder'
<1> SUFFICES ASSUME InOrder, LineMember PROVE InOrder'
  OBVIOUS
<1> DEFINE r == <<decl, "line_member", line, i>>
<1>1. /\ at = "line_member" /\ at # "returned" /\ decl \in DOMAIN program /\ Decl.kind = "compose"
      /\ line \in DOMAIN Decl.lines /\ Line = Decl.lines[line]
      /\ i <= Line.members
      /\ trace' = Append(trace, r) /\ program' = program
  BY DEF LineMember, Ran, InOrder, Control, Line
<1>2. /\ decl \in Nat /\ decl <= Len(program) /\ Len(program) \in Nat /\ outcome = "none"
      /\ line \in Nat /\ line >= 1 /\ Line.members \in Nat /\ Line.schema \in Nat
      /\ DOMAIN Decl.lines = 1..Len(Decl.lines)
      /\ Len(Decl.lines) \in Nat /\ i \in 1..Line.members
      /\ 2 \in Int /\ i \in Int /\ i + 1 \in Int /\ line \in Int
  BY <1>1, InDeclaration, InCompose
<1>3. IsAt(r, "line_member", decl, 2, line, 2, i) /\ r \in PartsOf(Decl, decl)
  <2>1. IsAt(r, "line_member", decl, 2, line, 2, i)
    BY Places DEF IsAt
  <2>2. r \in LineParts(Decl.lines[line], decl, line)
    BY <1>1, <1>2, <2>1, PartsOfLine
  <2> QED
    BY <1>1, <1>2, <2>1, <2>2, ComposeParts
<1>4. Spot(Here, decl, 2, line, 2, i)
  BY <1>1 DEF Here, Spot
<1>5. Follows(2, line, 2, i, 2, line, 2, i, 2, line, 2, i + 1) /\ ~Lt(2, line, 2, i, 2, line, 2, i)
  BY <1>1, <1>2 DEF Follows, Has, Lt, InLine
<1>6. Halts \/ GoesOn("line_member", decl, line, i + 1)
  BY <1>1, <1>2, MemberGoes DEF LineMember
<1>7. ASSUME GoesOn("line_member", decl, line, i + 1)
      PROVE  /\ at' # "returned" /\ outcome' = "none" /\ Control'
             /\ Here' = <<decl, 2, line, 2, i + 1>>
  <2>1. /\ at' = "line_member" /\ decl' = decl /\ line' = line /\ i' = i + 1
        /\ outcome' = "none" /\ program' = program /\ Decl' = Decl /\ Line' = Line
    BY <1>1, <1>7 DEF GoesOn, GoTo, Decl, Line
  <2>2. Control'
    BY <1>1, <1>2, <2>1 DEF Control
  <2>3. Here' = <<decl, 2, line, 2, i + 1>>
    BY <2>1 DEF Here
  <2> QED
    BY <2>1, <2>2, <2>3
<1> HIDE DEF r
<1> QED
  BY <1>1, <1>2, <1>3, <1>4, <1>5, <1>6, <1>7, Moves

LEMMA SchemaOpenInOrder == InOrder /\ SchemaOpen => InOrder'
<1> SUFFICES ASSUME InOrder, SchemaOpen PROVE InOrder'
  OBVIOUS
<1> DEFINE r == <<decl, "schema_open", line, 0>>
<1>1. /\ at = "schema" /\ at # "returned" /\ decl \in DOMAIN program /\ Decl.kind = "compose"
      /\ line \in DOMAIN Decl.lines /\ Line = Decl.lines[line]
      /\ Line.renamed
      /\ trace' = Append(trace, r) /\ program' = program
  BY DEF SchemaOpen, Ran, InOrder, Control, Line
<1>2. /\ decl \in Nat /\ decl <= Len(program) /\ Len(program) \in Nat /\ outcome = "none"
      /\ line \in Nat /\ line >= 1 /\ Line.members \in Nat /\ Line.schema \in Nat
      /\ DOMAIN Decl.lines = 1..Len(Decl.lines)
      /\ Len(Decl.lines) \in Nat
      /\ 0 \in Int /\ 1 \in Int /\ 2 \in Int /\ 4 \in Int /\ 5 \in Int /\ line \in Int
  BY <1>1, InDeclaration, InCompose
<1>3. IsAt(r, "schema_open", decl, 2, line, 4, 0) /\ r \in PartsOf(Decl, decl)
  <2>1. IsAt(r, "schema_open", decl, 2, line, 4, 0)
    BY Places DEF IsAt
  <2>2. r \in LineParts(Decl.lines[line], decl, line)
    BY <1>1, <1>2, <2>1, PartsOfLine
  <2> QED
    BY <1>1, <1>2, <2>1, <2>2, ComposeParts
<1>4. Spot(Here, decl, 2, line, 4, 0)
  BY <1>1 DEF Here, Spot
<1>5. Follows(2, line, 4, 0, 2, line, 4, 0, 2, line, 5, 1) /\ ~Lt(2, line, 4, 0, 2, line, 4, 0)
  BY <1>1, <1>2 DEF Follows, Has, Lt, InLine
<1>6. Halts \/ GoesOn("schema_member", decl, line, 1)
  BY <1>2, FailsHalts, KeptGoes DEF SchemaOpen, GoesOn
<1>7. ASSUME GoesOn("schema_member", decl, line, 1)
      PROVE  /\ at' # "returned" /\ outcome' = "none" /\ Control'
             /\ Here' = <<decl, 2, line, 5, 1>>
  <2>1. /\ at' = "schema_member" /\ decl' = decl /\ line' = line /\ i' = 1
        /\ outcome' = "none" /\ program' = program /\ Decl' = Decl /\ Line' = Line
    BY <1>1, <1>7 DEF GoesOn, GoTo, Decl, Line
  <2>2. Control'
    BY <1>1, <1>2, <2>1 DEF Control
  <2>3. Here' = <<decl, 2, line, 5, 1>>
    BY <2>1 DEF Here
  <2> QED
    BY <2>1, <2>2, <2>3
<1> HIDE DEF r
<1> QED
  BY <1>1, <1>2, <1>3, <1>4, <1>5, <1>6, <1>7, Moves

LEMMA SchemaMemberInOrder == InOrder /\ SchemaMember => InOrder'
<1> SUFFICES ASSUME InOrder, SchemaMember PROVE InOrder'
  OBVIOUS
<1> DEFINE r == <<decl, "schema_member", line, i>>
<1>1. /\ at = "schema_member" /\ at # "returned" /\ decl \in DOMAIN program /\ Decl.kind = "compose"
      /\ line \in DOMAIN Decl.lines /\ Line = Decl.lines[line]
      /\ Line.renamed /\ i <= Line.schema
      /\ trace' = Append(trace, r) /\ program' = program
  BY DEF SchemaMember, Ran, InOrder, Control, Line
<1>2. /\ decl \in Nat /\ decl <= Len(program) /\ Len(program) \in Nat /\ outcome = "none"
      /\ line \in Nat /\ line >= 1 /\ Line.members \in Nat /\ Line.schema \in Nat
      /\ DOMAIN Decl.lines = 1..Len(Decl.lines)
      /\ Len(Decl.lines) \in Nat /\ i \in 1..Line.schema
      /\ 2 \in Int /\ 5 \in Int /\ i \in Int /\ i + 1 \in Int /\ line \in Int
  BY <1>1, InDeclaration, InCompose
<1>3. IsAt(r, "schema_member", decl, 2, line, 5, i) /\ r \in PartsOf(Decl, decl)
  <2>1. IsAt(r, "schema_member", decl, 2, line, 5, i)
    BY Places DEF IsAt
  <2>2. r \in LineParts(Decl.lines[line], decl, line)
    BY <1>1, <1>2, <2>1, PartsOfLine
  <2> QED
    BY <1>1, <1>2, <2>1, <2>2, ComposeParts
<1>4. Spot(Here, decl, 2, line, 5, i)
  BY <1>1 DEF Here, Spot
<1>5. Follows(2, line, 5, i, 2, line, 5, i, 2, line, 5, i + 1) /\ ~Lt(2, line, 5, i, 2, line, 5, i)
  BY <1>1, <1>2 DEF Follows, Has, Lt, InLine
<1>6. Halts \/ GoesOn("schema_member", decl, line, i + 1)
  BY <1>1, <1>2, MemberGoes DEF SchemaMember
<1>7. ASSUME GoesOn("schema_member", decl, line, i + 1)
      PROVE  /\ at' # "returned" /\ outcome' = "none" /\ Control'
             /\ Here' = <<decl, 2, line, 5, i + 1>>
  <2>1. /\ at' = "schema_member" /\ decl' = decl /\ line' = line /\ i' = i + 1
        /\ outcome' = "none" /\ program' = program /\ Decl' = Decl /\ Line' = Line
    BY <1>1, <1>7 DEF GoesOn, GoTo, Decl, Line
  <2>2. Control'
    BY <1>1, <1>2, <2>1 DEF Control
  <2>3. Here' = <<decl, 2, line, 5, i + 1>>
    BY <2>1 DEF Here
  <2> QED
    BY <2>1, <2>2, <2>3
<1> HIDE DEF r
<1> QED
  BY <1>1, <1>2, <1>3, <1>4, <1>5, <1>6, <1>7, Moves

LEMMA LineTailInOrder == InOrder /\ LineTail => InOrder'
<1> SUFFICES ASSUME InOrder, LineTail PROVE InOrder'
  OBVIOUS
<1> DEFINE r == <<decl, "line_tail", line, 0>>
<1>1. /\ at = "line_tail" /\ at # "returned" /\ decl \in DOMAIN program /\ Decl.kind = "compose"
      /\ line \in DOMAIN Decl.lines /\ Line = Decl.lines[line]
      /\ trace' = Append(trace, r) /\ program' = program
  BY DEF LineTail, Ran, InOrder, Control, Line
<1>2. /\ decl \in Nat /\ decl <= Len(program) /\ Len(program) \in Nat /\ outcome = "none"
      /\ line \in Nat /\ line >= 1 /\ Line.members \in Nat /\ Line.schema \in Nat
      /\ DOMAIN Decl.lines = 1..Len(Decl.lines)
      /\ Len(Decl.lines) \in Nat
      /\ 0 \in Int /\ 2 \in Int /\ 6 \in Int /\ line \in Int /\ line + 1 \in Int
  BY <1>1, InDeclaration, InCompose
<1>3. IsAt(r, "line_tail", decl, 2, line, 6, 0) /\ r \in PartsOf(Decl, decl)
  <2>1. IsAt(r, "line_tail", decl, 2, line, 6, 0)
    BY Places DEF IsAt
  <2>2. r \in LineParts(Decl.lines[line], decl, line)
    BY <1>1, <1>2, <2>1, PartsOfLine
  <2> QED
    BY <1>1, <1>2, <2>1, <2>2, ComposeParts
<1>4. Spot(Here, decl, 2, line, 6, 0)
  BY <1>1 DEF Here, Spot
<1>5. Follows(2, line, 6, 0, 2, line, 6, 0, 2, line + 1, 0, 0) /\ ~Lt(2, line, 6, 0, 2, line, 6, 0)
  BY <1>1, <1>2 DEF Follows, Has, Lt, InLine
<1>6. Halts \/ GoesOn("line", decl, line + 1, 1)
  BY <1>2, FailsHalts, SwapGoes DEF LineTail, FailsInLive, StartSwap
<1>7. ASSUME GoesOn("line", decl, line + 1, 1)
      PROVE  /\ at' # "returned" /\ outcome' = "none" /\ Control'
             /\ Here' = <<decl, 2, line + 1, 0, 0>>
  <2>1. /\ at' = "line" /\ decl' = decl /\ line' = line + 1 /\ i' = 1
        /\ outcome' = "none" /\ program' = program /\ Decl' = Decl
    BY <1>1, <1>7 DEF GoesOn, GoTo, Decl, Line
  <2>2. Control'
    BY <1>1, <1>2, <2>1 DEF Control
  <2>3. Here' = <<decl, 2, line + 1, 0, 0>>
    BY <2>1 DEF Here
  <2> QED
    BY <2>1, <2>2, <2>3
<1> HIDE DEF r
<1> QED
  BY <1>1, <1>2, <1>3, <1>4, <1>5, <1>6, <1>7, Moves

LEMMA ComposeOpenHeadInOrder == InOrder /\ ComposeOpenHead => InOrder'
<1> SUFFICES ASSUME InOrder, ComposeOpenHead PROVE InOrder'
  OBVIOUS
<1> DEFINE r == <<decl, "open_head", 0, 0>>
<1>1. /\ at = "line" /\ at # "returned" /\ decl \in DOMAIN program /\ Decl.kind = "compose"
      /\ line > Len(Decl.lines)
      /\ trace' = Append(trace, r) /\ program' = program
  BY DEF ComposeOpenHead, Ran, InOrder, Control
<1>2. /\ decl \in Nat /\ decl <= Len(program) /\ Len(program) \in Nat /\ outcome = "none"
      /\ Decl.trusted \in Nat /\ Decl.pending \in Nat /\ Decl.helpers \in Nat /\ line \in Nat /\ line >= 1
      /\ DOMAIN Decl.lines = 1..Len(Decl.lines) /\ Len(Decl.lines) \in Nat
      /\ 0 \in Int /\ 1 \in Int /\ 2 \in Int /\ 3 \in Int /\ 4 \in Int /\ line \in Int
  BY <1>1, InDeclaration, InCompose
<1>3. IsAt(r, "open_head", decl, 3, 0, 0, 0) /\ r \in PartsOf(Decl, decl)
  BY <1>1, <1>2, Places, ComposeParts DEF IsAt
<1>4. Spot(Here, decl, 2, line, 0, 0)
  BY <1>1 DEF Here, Spot
<1>5. Follows(2, line, 0, 0, 3, 0, 0, 0, 4, 0, 0, 1) /\ ~Lt(3, 0, 0, 0, 2, line, 0, 0)
  BY <1>1, <1>2 DEF Follows, Has, Lt, InLine
<1>6. Halts \/ GoesOn("open_member", decl, line, 1)
  BY <1>2, FailsHalts, KeptGoes DEF ComposeOpenHead, FailsInLive, GoesOn, RunsOut, Stop, Halts
<1>7. ASSUME GoesOn("open_member", decl, line, 1)
      PROVE  /\ at' # "returned" /\ outcome' = "none" /\ Control'
             /\ Here' = <<decl, 4, 0, 0, 1>>
  <2>1. /\ at' = "open_member" /\ decl' = decl /\ line' = line /\ i' = 1
        /\ outcome' = "none" /\ program' = program /\ Decl' = Decl
    BY <1>1, <1>7 DEF GoesOn, GoTo, Decl
  <2>2. Control'
    BY <1>1, <1>2, <2>1 DEF Control
  <2>3. Here' = <<decl, 4, 0, 0, 1>>
    BY <2>1 DEF Here
  <2> QED
    BY <2>1, <2>2, <2>3
<1> HIDE DEF r
<1> QED
  BY <1>1, <1>2, <1>3, <1>4, <1>5, <1>6, <1>7, Moves

LEMMA ComposeOpenMemberInOrder == InOrder /\ ComposeOpenMember => InOrder'
<1> SUFFICES ASSUME InOrder, ComposeOpenMember PROVE InOrder'
  OBVIOUS
<1> DEFINE r == <<decl, "open_member", 0, i>>
<1>1. /\ at = "open_member" /\ at # "returned" /\ decl \in DOMAIN program /\ Decl.kind = "compose"
      /\ i <= Decl.trusted
      /\ trace' = Append(trace, r) /\ program' = program
  BY DEF ComposeOpenMember, Ran, InOrder, Control
<1>2. /\ decl \in Nat /\ decl <= Len(program) /\ Len(program) \in Nat /\ outcome = "none"
      /\ Decl.trusted \in Nat /\ Decl.pending \in Nat /\ Decl.helpers \in Nat
      /\ i \in 1..Decl.trusted /\ line \in Nat /\ line >= 1
      /\ 0 \in Int /\ 4 \in Int /\ i \in Int /\ i + 1 \in Int
  BY <1>1, InDeclaration, InCompose
<1>3. IsAt(r, "open_member", decl, 4, 0, 0, i) /\ r \in PartsOf(Decl, decl)
  BY <1>1, <1>2, Places, ComposeParts DEF IsAt
<1>4. Spot(Here, decl, 4, 0, 0, i)
  BY <1>1 DEF Here, Spot
<1>5. Follows(4, 0, 0, i, 4, 0, 0, i, 4, 0, 0, i + 1) /\ ~Lt(4, 0, 0, i, 4, 0, 0, i)
  BY <1>1, <1>2 DEF Follows, Has, Lt, InLine
<1>6. Halts \/ GoesOn("open_member", decl, line, i + 1)
  BY <1>1, <1>2, MemberGoes DEF ComposeOpenMember
<1>7. ASSUME GoesOn("open_member", decl, line, i + 1)
      PROVE  /\ at' # "returned" /\ outcome' = "none" /\ Control'
             /\ Here' = <<decl, 4, 0, 0, i + 1>>
  <2>1. /\ at' = "open_member" /\ decl' = decl /\ line' = line /\ i' = i + 1
        /\ outcome' = "none" /\ program' = program /\ Decl' = Decl
    BY <1>1, <1>7 DEF GoesOn, GoTo, Decl
  <2>2. Control'
    BY <1>1, <1>2, <2>1 DEF Control
  <2>3. Here' = <<decl, 4, 0, 0, i + 1>>
    BY <2>1 DEF Here
  <2> QED
    BY <2>1, <2>2, <2>3
<1> HIDE DEF r
<1> QED
  BY <1>1, <1>2, <1>3, <1>4, <1>5, <1>6, <1>7, Moves

LEMMA ComposeOpenTailInOrder == InOrder /\ ComposeOpenTail => InOrder'
<1> SUFFICES ASSUME InOrder, ComposeOpenTail PROVE InOrder'
  OBVIOUS
<1> DEFINE r == <<decl, "open_tail", 0, 0>>
<1>1. /\ at = "open_member" /\ at # "returned" /\ decl \in DOMAIN program /\ Decl.kind = "compose"
      /\ i > Decl.trusted
      /\ trace' = Append(trace, r) /\ program' = program
  BY DEF ComposeOpenTail, Ran, InOrder, Control
<1>2. /\ decl \in Nat /\ decl <= Len(program) /\ Len(program) \in Nat /\ outcome = "none"
      /\ Decl.trusted \in Nat /\ Decl.pending \in Nat /\ Decl.helpers \in Nat /\ line \in Nat /\ line >= 1
      /\ 0 \in Int /\ 1 \in Int /\ 4 \in Int /\ 5 \in Int /\ 6 \in Int /\ i \in Int
  BY <1>1, InDeclaration, InCompose
<1>3. IsAt(r, "open_tail", decl, 5, 0, 0, 0) /\ r \in PartsOf(Decl, decl)
  BY <1>1, <1>2, Places, ComposeParts DEF IsAt
<1>4. Spot(Here, decl, 4, 0, 0, i)
  BY <1>1 DEF Here, Spot
<1>5. Follows(4, 0, 0, i, 5, 0, 0, 0, 6, 0, 0, 1) /\ ~Lt(5, 0, 0, 0, 4, 0, 0, i)
  BY <1>1, <1>2 DEF Follows, Has, Lt, InLine
<1>6. Halts \/ GoesOn("compose_member", decl, line, 1)
  BY <1>2, FailsHalts, SwapGoes DEF ComposeOpenTail, FailsInKeep, TailInKeep
<1>7. ASSUME GoesOn("compose_member", decl, line, 1)
      PROVE  /\ at' # "returned" /\ outcome' = "none" /\ Control'
             /\ Here' = <<decl, 6, 0, 0, 1>>
  <2>1. /\ at' = "compose_member" /\ decl' = decl /\ line' = line /\ i' = 1
        /\ outcome' = "none" /\ program' = program /\ Decl' = Decl
    BY <1>1, <1>7 DEF GoesOn, GoTo, Decl
  <2>2. Control'
    BY <1>1, <1>2, <2>1 DEF Control
  <2>3. Here' = <<decl, 6, 0, 0, 1>>
    BY <2>1 DEF Here
  <2> QED
    BY <2>1, <2>2, <2>3
<1> HIDE DEF r
<1> QED
  BY <1>1, <1>2, <1>3, <1>4, <1>5, <1>6, <1>7, Moves

LEMMA ComposeMemberInOrder == InOrder /\ ComposeMember => InOrder'
<1> SUFFICES ASSUME InOrder, ComposeMember PROVE InOrder'
  OBVIOUS
<1> DEFINE r == <<decl, "compose_member", 0, i>>
<1>1. /\ at = "compose_member" /\ at # "returned" /\ decl \in DOMAIN program
      /\ Decl.kind = "compose" /\ i <= Decl.pending + Decl.helpers
      /\ trace' = Append(trace, r) /\ program' = program
  BY DEF ComposeMember, Ran, InOrder, Control
<1>2. /\ decl \in Nat /\ decl <= Len(program) /\ Len(program) \in Nat /\ outcome = "none"
      /\ Decl.trusted \in Nat /\ Decl.pending \in Nat /\ Decl.helpers \in Nat
      /\ i \in 1..(Decl.pending + Decl.helpers) /\ line \in Nat /\ line >= 1
      /\ 0 \in Int /\ 6 \in Int /\ i \in Int /\ i + 1 \in Int
  BY <1>1, InDeclaration, InCompose
<1>3. IsAt(r, "compose_member", decl, 6, 0, 0, i) /\ r \in PartsOf(Decl, decl)
  BY <1>1, <1>2, Places, ComposeParts DEF IsAt
<1>4. Spot(Here, decl, 6, 0, 0, i)
  BY <1>1 DEF Here, Spot
<1>5. Follows(6, 0, 0, i, 6, 0, 0, i, 6, 0, 0, i + 1) /\ ~Lt(6, 0, 0, i, 6, 0, 0, i)
  BY <1>1, <1>2 DEF Follows, Has, Lt, InLine
<1>6. Halts \/ GoesOn("compose_member", decl, line, i + 1)
  BY <1>2, FailsHalts, SwapGoes, KeptGoes DEF ComposeMember, FailsInLive, GroupSwap
<1>7. ASSUME GoesOn("compose_member", decl, line, i + 1)
      PROVE  /\ at' # "returned" /\ outcome' = "none" /\ Control'
             /\ Here' = <<decl, 6, 0, 0, i + 1>>
  <2>1. /\ at' = "compose_member" /\ decl' = decl /\ line' = line /\ i' = i + 1
        /\ outcome' = "none" /\ program' = program /\ Decl' = Decl
    BY <1>1, <1>7 DEF GoesOn, GoTo, Decl
  <2>2. Control'
    BY <1>1, <1>2, <2>1 DEF Control
  <2>3. Here' = <<decl, 6, 0, 0, i + 1>>
    BY <2>1 DEF Here
  <2> QED
    BY <2>1, <2>2, <2>3
<1> HIDE DEF r
<1> QED
  BY <1>1, <1>2, <1>3, <1>4, <1>5, <1>6, <1>7, Moves

LEMMA ComposeCloseInOrder == InOrder /\ ComposeClose => InOrder'
<1> SUFFICES ASSUME InOrder, ComposeClose PROVE InOrder'
  OBVIOUS
<1> DEFINE r == <<decl, "compose_close", 0, 0>>
<1>1. /\ at = "compose_member" /\ at # "returned" /\ decl \in DOMAIN program
      /\ Decl.kind = "compose" /\ i > Decl.pending + Decl.helpers
      /\ trace' = Append(trace, r) /\ program' = program
  BY DEF ComposeClose, Ran, InOrder, Control, CloseWith
<1>2. /\ decl \in Nat /\ decl <= Len(program) /\ Len(program) \in Nat /\ outcome = "none"
      /\ Decl.trusted \in Nat /\ Decl.pending \in Nat /\ Decl.helpers \in Nat
      /\ 0 \in Int /\ 6 \in Int /\ 7 \in Int /\ 8 \in Int /\ i \in Int
  BY <1>1, InDeclaration, InCompose
<1>3. IsAt(r, "compose_close", decl, 7, 0, 0, 0) /\ r \in PartsOf(Decl, decl)
  BY <1>1, <1>2, Places, ComposeParts DEF IsAt
<1>4. Spot(Here, decl, 6, 0, 0, i)
  BY <1>1 DEF Here, Spot
<1>5. Follows(6, 0, 0, i, 7, 0, 0, 0, 8, 0, 0, 0) /\ ~Lt(7, 0, 0, 0, 6, 0, 0, i)
  BY <1>1, <1>2 DEF Follows, Has, Lt, InLine
<1>6. Halts \/ GoesOn("declared", decl, 1, 1)
  BY <1>2, FailsHalts, KeptGoes DEF ComposeClose, FailsInLive, CloseWith
<1>7. ASSUME GoesOn("declared", decl, 1, 1)
      PROVE  /\ at' # "returned" /\ outcome' = "none" /\ Control'
             /\ Here' = <<decl, 8, 0, 0, 0>>
  <2>1. /\ at' = "declared" /\ decl' = decl /\ line' = 1 /\ i' = 1
        /\ outcome' = "none" /\ program' = program /\ Decl' = Decl
    BY <1>1, <1>7 DEF GoesOn, GoTo, Decl
  <2>2. Control'
    BY <1>1, <1>2, <2>1 DEF Control
  <2>3. Here' = <<decl, 8, 0, 0, 0>>
    BY <2>1 DEF Here
  <2> QED
    BY <2>1, <2>2, <2>3
<1> HIDE DEF r
<1> QED
  BY <1>1, <1>2, <1>3, <1>4, <1>5, <1>6, <1>7, Moves

LEMMA InstantiateHeadInOrder == InOrder /\ InstantiateHead => InOrder'
<1> SUFFICES ASSUME InOrder, InstantiateHead PROVE InOrder'
  OBVIOUS
<1> DEFINE r == <<decl, "instantiate_head", 0, 0>>
<1>1. /\ at = "declaration" /\ at # "returned" /\ decl \in DOMAIN program /\ Decl.kind = "instantiate"
      /\ trace' = Append(trace, r) /\ program' = program
  BY DEF InstantiateHead, Begins, Ran, InOrder, Control
<1>2. /\ decl \in Nat /\ decl <= Len(program) /\ Len(program) \in Nat /\ outcome = "none"
      /\ Decl.members \in Nat
      /\ 0 \in Int /\ 1 \in Int /\ 2 \in Int
  BY <1>1, InDeclaration, Fields
<1>3. IsAt(r, "instantiate_head", decl, 1, 0, 0, 0) /\ r \in PartsOf(Decl, decl)
  BY <1>1, <1>2, Places, InstantiateParts DEF IsAt
<1>4. Spot(Here, decl, 0, 0, 0, 0)
  BY <1>1 DEF Here, Spot
<1>5. Follows(0, 0, 0, 0, 1, 0, 0, 0, 2, 0, 0, 1) /\ ~Lt(1, 0, 0, 0, 0, 0, 0, 0)
  BY <1>1, <1>2 DEF Follows, Has, Lt
<1>6. Halts \/ GoesOn("map_member", decl, 1, 1)
  BY <1>2, FailsHalts, KeptGoes DEF InstantiateHead, FailsInLive, GoesOn
<1>7. ASSUME GoesOn("map_member", decl, 1, 1)
      PROVE  /\ at' # "returned" /\ outcome' = "none" /\ Control'
             /\ Here' = <<decl, 2, 0, 0, 1>>
  <2>1. /\ at' = "map_member" /\ decl' = decl /\ line' = 1 /\ i' = 1
        /\ outcome' = "none" /\ program' = program /\ Decl' = Decl
    BY <1>1, <1>7 DEF GoesOn, GoTo, Decl
  <2>2. Control'
    BY <1>1, <1>2, <2>1 DEF Control
  <2>3. Here' = <<decl, 2, 0, 0, 1>>
    BY <2>1 DEF Here
  <2> QED
    BY <2>1, <2>2, <2>3
<1> HIDE DEF r
<1> QED
  BY <1>1, <1>2, <1>3, <1>4, <1>5, <1>6, <1>7, Moves

LEMMA InstantiateMapInOrder == InOrder /\ InstantiateMap => InOrder'
<1> SUFFICES ASSUME InOrder, InstantiateMap PROVE InOrder'
  OBVIOUS
<1> DEFINE r == <<decl, "map_member", 0, i>>
<1>1. /\ at = "map_member" /\ at # "returned" /\ decl \in DOMAIN program
      /\ Decl.kind = "instantiate" /\ i <= Decl.members
      /\ trace' = Append(trace, r) /\ program' = program
  BY DEF InstantiateMap, Ran, InOrder, Control
<1>2. /\ decl \in Nat /\ decl <= Len(program) /\ Len(program) \in Nat /\ outcome = "none"
      /\ Decl.members \in Nat /\ i \in 1..Decl.members /\ line \in Nat /\ line >= 1
      /\ 0 \in Int /\ 2 \in Int /\ i \in Int /\ i + 1 \in Int
  BY <1>1, InDeclaration, Fields
<1>3. IsAt(r, "map_member", decl, 2, 0, 0, i) /\ r \in PartsOf(Decl, decl)
  BY <1>1, <1>2, Places, InstantiateParts DEF IsAt
<1>4. Spot(Here, decl, 2, 0, 0, i)
  BY <1>1 DEF Here, Spot
<1>5. Follows(2, 0, 0, i, 2, 0, 0, i, 2, 0, 0, i + 1) /\ ~Lt(2, 0, 0, i, 2, 0, 0, i)
  BY <1>1, <1>2 DEF Follows, Has, Lt
<1>6. Halts \/ GoesOn("map_member", decl, line, i + 1)
  BY <1>1, <1>2, MemberGoes DEF InstantiateMap
<1>7. ASSUME GoesOn("map_member", decl, line, i + 1)
      PROVE  /\ at' # "returned" /\ outcome' = "none" /\ Control'
             /\ Here' = <<decl, 2, 0, 0, i + 1>>
  <2>1. /\ at' = "map_member" /\ decl' = decl /\ line' = line /\ i' = i + 1
        /\ outcome' = "none" /\ program' = program /\ Decl' = Decl
    BY <1>1, <1>7 DEF GoesOn, GoTo, Decl
  <2>2. Control'
    BY <1>1, <1>2, <2>1 DEF Control
  <2>3. Here' = <<decl, 2, 0, 0, i + 1>>
    BY <2>1 DEF Here
  <2> QED
    BY <2>1, <2>2, <2>3
<1> HIDE DEF r
<1> QED
  BY <1>1, <1>2, <1>3, <1>4, <1>5, <1>6, <1>7, Moves

LEMMA LineMappedInOrder == InOrder /\ LineMapped => InOrder'
<1> SUFFICES ASSUME InOrder, LineMapped PROVE InOrder'
  OBVIOUS
<1> DEFINE r == <<decl, "line_mapped", line, 0>>
<1>1. /\ at = "line_member" /\ at # "returned" /\ decl \in DOMAIN program /\ Decl.kind = "compose"
      /\ line \in DOMAIN Decl.lines /\ Line = Decl.lines[line] /\ i > Line.members
      /\ trace' = Append(trace, r) /\ program' = program
  BY DEF LineMapped, Ran, InOrder, Control, Line
<1>2. /\ decl \in Nat /\ decl <= Len(program) /\ Len(program) \in Nat /\ outcome = "none"
      /\ line \in Nat /\ line >= 1 /\ Line.members \in Nat /\ Line.schema \in Nat
      /\ Line.renamed \in BOOLEAN /\ DOMAIN Decl.lines = 1..Len(Decl.lines) /\ Len(Decl.lines) \in Nat
      /\ 0 \in Int /\ 2 \in Int /\ 3 \in Int /\ 4 \in Int /\ 6 \in Int /\ i \in Int /\ line \in Int
  BY <1>1, InDeclaration, InCompose
<1>3. IsAt(r, "line_mapped", decl, 2, line, 3, 0) /\ r \in PartsOf(Decl, decl)
  <2>1. IsAt(r, "line_mapped", decl, 2, line, 3, 0)
    BY Places DEF IsAt
  <2>2. r \in LineParts(Decl.lines[line], decl, line)
    BY <1>1, <1>2, <2>1, PartsOfLine
  <2> QED
    BY <1>1, <1>2, <2>1, <2>2, ComposeParts
<1>4. Spot(Here, decl, 2, line, 2, i)
  BY <1>1 DEF Here, Spot
<1>5. ~Lt(2, line, 3, 0, 2, line, 2, i)
  BY <1>2 DEF Lt
<1>6. CASE Line.renamed
  <2>1. Follows(2, line, 2, i, 2, line, 3, 0, 2, line, 4, 0)
    BY <1>1, <1>2, <1>6 DEF Follows, Has, Lt, InLine
  <2>2. Halts \/ GoesOn("schema", decl, line, 1)
    BY <1>2, <1>6, FailsHalts, KeptGoes DEF LineMapped, FailsInLive
  <2>3. ASSUME GoesOn("schema", decl, line, 1)
        PROVE  /\ at' # "returned" /\ outcome' = "none" /\ Control'
               /\ Here' = <<decl, 2, line, 4, 0>>
    <3>1. /\ at' = "schema" /\ decl' = decl /\ line' = line /\ i' = 1
          /\ outcome' = "none" /\ program' = program /\ Decl' = Decl /\ Line' = Line
      BY <1>1, <2>3 DEF GoesOn, GoTo, Decl, Line
    <3>2. Control'
      BY <1>1, <1>2, <1>6, <3>1 DEF Control
    <3>3. Here' = <<decl, 2, line, 4, 0>>
      BY <3>1 DEF Here
    <3> QED
      BY <3>1, <3>2, <3>3
  <2> HIDE DEF r
  <2> QED
    BY <1>1, <1>2, <1>3, <1>4, <1>5, <2>1, <2>2, <2>3, Moves
<1>7. CASE ~Line.renamed
  <2>1. Follows(2, line, 2, i, 2, line, 3, 0, 2, line, 6, 0)
    BY <1>1, <1>2, <1>7 DEF Follows, Has, Lt, InLine
  <2>2. Halts \/ GoesOn("line_tail", decl, line, 1)
    BY <1>2, <1>7, FailsHalts, KeptGoes DEF LineMapped, FailsInLive
  <2>3. ASSUME GoesOn("line_tail", decl, line, 1)
        PROVE  /\ at' # "returned" /\ outcome' = "none" /\ Control'
               /\ Here' = <<decl, 2, line, 6, 0>>
    <3>1. /\ at' = "line_tail" /\ decl' = decl /\ line' = line /\ i' = 1
          /\ outcome' = "none" /\ program' = program /\ Decl' = Decl /\ Line' = Line
      BY <1>1, <2>3 DEF GoesOn, GoTo, Decl, Line
    <3>2. Control'
      BY <1>1, <1>2, <1>7, <3>1 DEF Control
    <3>3. Here' = <<decl, 2, line, 6, 0>>
      BY <3>1 DEF Here
    <3> QED
      BY <3>1, <3>2, <3>3
  <2> HIDE DEF r
  <2> QED
    BY <1>1, <1>2, <1>3, <1>4, <1>5, <2>1, <2>2, <2>3, Moves
<1> QED
  BY <1>6, <1>7

LEMMA InstantiateTailInOrder == InOrder /\ InstantiateTail => InOrder'
<1> SUFFICES ASSUME InOrder, InstantiateTail PROVE InOrder'
  OBVIOUS
<1> DEFINE r == <<decl, "instantiate_tail", 0, 0>>
<1>1. /\ at = "map_member" /\ at # "returned" /\ decl \in DOMAIN program /\ Decl.kind = "instantiate"
      /\ i > Decl.members /\ trace' = Append(trace, r) /\ program' = program
  BY DEF InstantiateTail, Ran, InOrder, Control
<1>2. /\ decl \in Nat /\ decl <= Len(program) /\ Len(program) \in Nat /\ outcome = "none"
      /\ Decl.members \in Nat
      /\ 0 \in Int /\ 1 \in Int /\ 2 \in Int /\ 3 \in Int /\ 4 \in Int /\ i \in Int
  BY <1>1, InDeclaration, Fields
<1>3. IsAt(r, "instantiate_tail", decl, 3, 0, 0, 0) /\ r \in PartsOf(Decl, decl)
  BY <1>1, <1>2, Places, InstantiateParts DEF IsAt
<1>4. Spot(Here, decl, 2, 0, 0, i)
  BY <1>1 DEF Here, Spot
<1>5. Follows(2, 0, 0, i, 3, 0, 0, 0, 4, 0, 0, 1) /\ ~Lt(3, 0, 0, 0, 2, 0, 0, i)
  BY <1>1, <1>2 DEF Follows, Has, Lt
<1>6. Halts \/ (GoesOn("check_member", decl, 1, 1) /\ members' = [n \in 1..Decl.members |-> n])
  BY <1>2, FailsHalts, SwapGoes DEF InstantiateTail, FailsInKeep, TailInKeep
<1>7. ASSUME GoesOn("check_member", decl, 1, 1), members' = [n \in 1..Decl.members |-> n]
      PROVE  /\ at' # "returned" /\ outcome' = "none" /\ Control'
             /\ Here' = <<decl, 4, 0, 0, 1>>
  <2>1. /\ at' = "check_member" /\ decl' = decl /\ line' = 1 /\ i' = 1
        /\ outcome' = "none" /\ program' = program /\ Decl' = Decl
    BY <1>1, <1>7 DEF GoesOn, GoTo, Decl
  <2>2. /\ members' \in Seq(Nat) /\ Len(members') = Decl.members /\ DOMAIN members' = 1..Decl.members
        /\ \A k \in 1..Decl.members : members'[k] = k
    BY <1>2, <1>7
  <2>3. Control'
    BY <1>1, <1>2, <2>1, <2>2 DEF Control
  <2>4. Here' = <<decl, 4, 0, 0, 1 + (Decl.members - Decl.members)>>
    BY <2>1, <2>2 DEF Here
  <2>5. 1 + (Decl.members - Decl.members) = 1
    BY <1>2
  <2> QED
    BY <2>1, <2>3, <2>4, <2>5
<1>8. \/ Halts
      \/ at' # "returned" /\ outcome' = "none" /\ Control' /\ Here' = <<decl, 4, 0, 0, 1>>
  BY <1>6, <1>7
<1> HIDE DEF r
<1> QED
  BY <1>1, <1>2, <1>3, <1>4, <1>5, <1>8, Moves

\* The members that are left from one on are the last ones, in their order.
LEMMA LastMembers ==
  ASSUME members \in Seq(Nat), NEW k \in 1..Len(members)
  PROVE  /\ From(k + 1) \in Seq(Nat) /\ Len(From(k + 1)) = Len(members) - k
         /\ \A j \in 1..(Len(members) - k) : From(k + 1)[j] = members[j + k]
<1>1. Len(members) \in Nat /\ k \in Nat /\ k >= 1 /\ k <= Len(members)
  OBVIOUS
<1>2. From(k + 1) \in Seq(Nat)
  BY <1>1 DEF From
<1>3. Len(From(k + 1)) = Len(members) - k
  <2>1. CASE k + 1 <= Len(members)
    <3>1. Len(From(k + 1)) = Len(members) - (k + 1) + 1
      BY <1>1, <2>1 DEF From
    <3> QED
      BY <1>1, <3>1
  <2>2. CASE k = Len(members)
    <3>1. From(k + 1) = <<>>
      BY <1>1, <2>2 DEF From
    <3> QED
      BY <1>1, <2>2, <3>1
  <2> QED
    BY <1>1, <2>1, <2>2
<1>4. \A j \in 1..(Len(members) - k) : From(k + 1)[j] = members[j + k]
  BY <1>1 DEF From
<1> QED
  BY <1>2, <1>3, <1>4

LEMMA InstantiateCheckInOrder == InOrder /\ InstantiateCheck => InOrder'
<1> SUFFICES ASSUME InOrder, InstantiateCheck PROVE InOrder'
  OBVIOUS
<1> DEFINE left == Len(members)
           k == i + (Decl.members - left)
           r == <<decl, "check_member", 0, members[i]>>
<1>1. /\ at = "check_member" /\ at # "returned" /\ decl \in DOMAIN program /\ Decl.kind = "instantiate"
      /\ i <= left /\ trace' = Append(trace, r) /\ program' = program
      /\ members \in Seq(Nat) /\ left <= Decl.members
      /\ \A j \in DOMAIN members : members[j] = j + (Decl.members - left)
  BY DEF InstantiateCheck, Ran, InOrder, Control
<1>2. /\ decl \in Nat /\ decl <= Len(program) /\ Len(program) \in Nat /\ outcome = "none"
      /\ Decl.members \in Nat /\ i \in Nat /\ i >= 1
      /\ 0 \in Int /\ 4 \in Int
  <2> HIDE DEF left, k, r
  <2>1. /\ decl \in Nat /\ decl <= Len(program) /\ Len(program) \in Nat /\ outcome = "none"
        /\ i \in Nat /\ i >= 1 /\ Decl \in Declarations
    BY <1>1, InDeclaration
  <2> QED
    BY <1>1, <2>1, Fields
<1>a. left \in Nat /\ DOMAIN members = 1..left /\ i \in 1..left
  BY <1>1, <1>2
<1>b. members[i] = k
  BY <1>1, <1>a
<1>c. k \in Int /\ k + 1 \in Int /\ k \in 1..Decl.members
  BY <1>1, <1>2, <1>a
<1>3. IsAt(r, "check_member", decl, 4, 0, 0, k) /\ r \in PartsOf(Decl, decl)
  <2> HIDE DEF k
  <2>1. IsAt(r, "check_member", decl, 4, 0, 0, k)
    BY <1>b, Places DEF IsAt
  <2> QED
    BY <1>1, <1>2, <1>c, <2>1, InstantiateParts
<1>4. Spot(Here, decl, 4, 0, 0, k)
  BY <1>1 DEF Here, Spot
<1>5. Follows(4, 0, 0, k, 4, 0, 0, k, 4, 0, 0, k + 1) /\ ~Lt(4, 0, 0, k, 4, 0, 0, k)
  <2> HIDE DEF k
  <2> QED
    BY <1>1, <1>2, <1>c DEF Follows, Has, Lt
<1>6. \/ Halts
      \/ GoesOn("check_member", decl, 1, i + 1) /\ members' = members
      \/ GoesOn("check_member", decl, 1, 1) /\ members' = From(i + 1)
  BY <1>2, FailsHalts, KeptGoes, SwapGoes DEF InstantiateCheck, CheckContinue, RunsOut, Stop, Halts
<1>7. ASSUME GoesOn("check_member", decl, 1, i + 1), members' = members
      PROVE  /\ at' # "returned" /\ outcome' = "none" /\ Control'
             /\ Here' = <<decl, 4, 0, 0, k + 1>>
  <2>1. /\ at' = "check_member" /\ decl' = decl /\ line' = 1 /\ i' = i + 1
        /\ outcome' = "none" /\ program' = program /\ Decl' = Decl
    BY <1>1, <1>7 DEF GoesOn, GoTo, Decl
  <2>2. Control'
    BY <1>1, <1>2, <1>7, <1>a, <2>1 DEF Control
  <2>3. Here' = <<decl, 4, 0, 0, (i + 1) + (Decl.members - left)>>
    BY <1>7, <2>1 DEF Here
  <2>4. (i + 1) + (Decl.members - left) = k + 1
    BY <1>2, <1>a
  <2> QED
    BY <2>1, <2>2, <2>3, <2>4
<1>8. ASSUME GoesOn("check_member", decl, 1, 1), members' = From(i + 1)
      PROVE  /\ at' # "returned" /\ outcome' = "none" /\ Control'
             /\ Here' = <<decl, 4, 0, 0, k + 1>>
  <2>1. /\ at' = "check_member" /\ decl' = decl /\ line' = 1 /\ i' = 1
        /\ outcome' = "none" /\ program' = program /\ Decl' = Decl
    BY <1>1, <1>8 DEF GoesOn, GoTo, Decl
  <2>2. /\ members' \in Seq(Nat) /\ Len(members') = left - i
        /\ \A j \in 1..(left - i) : members'[j] = members[j + i]
    BY <1>1, <1>8, <1>a, LastMembers
  <2>3. DOMAIN members' = 1..(left - i)
    BY <2>2
  <2>4. \A j \in 1..(left - i) : members'[j] = j + (Decl.members - (left - i))
    <3> SUFFICES ASSUME NEW j \in 1..(left - i) PROVE members'[j] = j + (Decl.members - (left - i))
      OBVIOUS
    <3>1. j + i \in DOMAIN members
      BY <1>a
    <3>2. members'[j] = (j + i) + (Decl.members - left)
      BY <1>1, <2>2, <3>1
    <3> QED
      BY <1>2, <1>a, <3>2
  <2>5. Control'
    <3> HIDE DEF left, k, r
    <3>1. 1 <= Len(members') + 1 /\ Len(members') <= Decl.members
      BY <1>1, <1>2, <1>a, <2>2
    <3>2. \A j \in DOMAIN members' : members'[j] = j + (Decl.members - Len(members'))
      BY <2>2, <2>3, <2>4
    <3> QED
      BY <1>1, <1>2, <2>1, <2>2, <3>1, <3>2 DEF Control
  <2>6. Here' = <<decl, 4, 0, 0, 1 + (Decl.members - (left - i))>>
    BY <2>1, <2>2 DEF Here
  <2>7. 1 + (Decl.members - (left - i)) = k + 1
    BY <1>2, <1>a
  <2> QED
    BY <2>1, <2>5, <2>6, <2>7
<1>9. \/ Halts
      \/ at' # "returned" /\ outcome' = "none" /\ Control' /\ Here' = <<decl, 4, 0, 0, k + 1>>
  BY <1>6, <1>7, <1>8
<1> HIDE DEF r, k, left
<1>10. at # "returned" /\ decl \in DOMAIN program /\ trace' = Append(trace, r) /\ program' = program
  BY <1>1
<1>11. k \in Int /\ k + 1 \in Int /\ 0 \in Int /\ 4 \in Int
  BY <1>c
<1> QED
  BY <1>3, <1>4, <1>5, <1>9, <1>10, <1>11, Moves

LEMMA InstantiateCloseInOrder == InOrder /\ InstantiateClose => InOrder'
<1> SUFFICES ASSUME InOrder, InstantiateClose PROVE InOrder'
  OBVIOUS
<1> DEFINE r == <<decl, "instantiate_close", 0, 0>>
           k == i + (Decl.members - Len(members))
<1>1. /\ at = "check_member" /\ at # "returned" /\ decl \in DOMAIN program /\ Decl.kind = "instantiate"
      /\ i > Len(members) /\ trace' = Append(trace, r) /\ program' = program
      /\ members \in Seq(Nat) /\ Len(members) <= Decl.members
  BY DEF InstantiateClose, Ran, InOrder, Control
<1>2. /\ decl \in Nat /\ decl <= Len(program) /\ Len(program) \in Nat /\ outcome = "none"
      /\ Decl.members \in Nat /\ i \in Nat /\ Len(members) \in Nat
      /\ 0 \in Int /\ 4 \in Int /\ 7 \in Int /\ 8 \in Int
  BY <1>1, InDeclaration, Fields
<1>a. k \in Int /\ k > Decl.members
  BY <1>1, <1>2
<1>3. IsAt(r, "instantiate_close", decl, 7, 0, 0, 0) /\ r \in PartsOf(Decl, decl)
  BY <1>1, <1>2, Places, InstantiateParts DEF IsAt
<1>4. Spot(Here, decl, 4, 0, 0, k)
  BY <1>1 DEF Here, Spot
<1>5. Follows(4, 0, 0, k, 7, 0, 0, 0, 8, 0, 0, 0) /\ ~Lt(7, 0, 0, 0, 4, 0, 0, k)
  <2> HIDE DEF k
  <2> QED
    BY <1>1, <1>2, <1>a DEF Follows, Has, Lt
<1>6. Halts \/ GoesOn("declared", decl, 1, 1)
  BY <1>2, FailsHalts, KeptGoes DEF InstantiateClose, FailsInLive
<1>7. ASSUME GoesOn("declared", decl, 1, 1)
      PROVE  /\ at' # "returned" /\ outcome' = "none" /\ Control'
             /\ Here' = <<decl, 8, 0, 0, 0>>
  BY <1>1, <1>2, <1>7 DEF GoesOn, GoTo, Here, Control, Decl
<1> HIDE DEF r, k
<1> QED
  BY <1>1, <1>2, <1>3, <1>4, <1>5, <1>6, <1>7, <1>a, Moves

-----------------------------------------------------------------------------
\* Without a run the order stays as it is.
LEMMA NoRun ==
  ASSUME InOrder, program' = program, trace' = trace
  PROVE  /\ Parts' = Parts /\ Done' = Done
         /\ (outcome' = "done" => (outcome = "done" \/ Done = Parts)) => OneRunOrder'
<1>1. Parts' = Parts /\ Done' = Done
  <2> DEFINE In(prog) == UNION {PartsOf(prog[d], d) : d \in DOMAIN prog}
  <2>1. Parts = In(program) /\ Parts' = In(program')
    BY DEF Parts
  <2>2. Done' = Done
    BY DEF Done
  <2> HIDE DEF In
  <2> QED
    BY <2>1, <2>2
<1>2. ASSUME outcome' = "done" => (outcome = "done" \/ Done = Parts) PROVE OneRunOrder'
  <2>1. OneRunOrder
    BY DEF InOrder
  <2>2. \A m, n \in DOMAIN trace' : m < n => Before(trace'[m], trace'[n])
    BY <2>1 DEF OneRunOrder
  <2>3. \A m, n \in DOMAIN trace' : m < n => Before(trace[m], trace[n])'
    BY <2>2 DEF Before, Below, Key, Place, LinePlace
  <2>4. \A q \in Done', p \in Parts' : Before(p, q) => p \in Done'
    BY <1>1, <2>1 DEF OneRunOrder
  <2>5. \A q \in Done', p \in Parts' : Before(p, q)' => p \in Done'
    BY <2>4 DEF Before, Below, Key, Place, LinePlace
  <2>6. Done' \subseteq Parts' /\ (outcome' = "done" => Done' = Parts')
    BY <1>1, <1>2, <2>1 DEF OneRunOrder
  <2> QED
    BY <2>3, <2>5, <2>6 DEF OneRunOrder
<1> QED
  BY <1>1, <1>2

\* A step without a run: the place moves on, but over no part.
LEMMA Passes ==
  ASSUME InOrder, at # "returned", program' = program, trace' = trace,
         \/ Halts
         \/ /\ at' # "returned" /\ outcome' = "none" /\ Control'
            /\ \A p \in Parts : Below(Key(p), Here') <=> Below(Key(p), Here)
  PROVE  InOrder'
<1>1. Parts' = Parts /\ Done' = Done
  BY NoRun
<1>2. OneRunOrder'
  BY NoRun DEF Halts
<1>3. CASE Halts
  BY <1>1, <1>2, <1>3 DEF InOrder, Halts
<1>4. CASE /\ at' # "returned" /\ outcome' = "none" /\ Control'
           /\ \A p \in Parts : Below(Key(p), Here') <=> Below(Key(p), Here)
  <2>1. \A p \in Parts' : p \in Done' <=> Below(Key(p), Here')
    BY <1>1, <1>4 DEF InOrder
  <2> QED
    BY <1>1, <1>2, <1>4, <2>1 DEF InOrder
<1> QED
  BY <1>3, <1>4

LEMMA DeclaredInOrder == InOrder /\ Declared => InOrder'
<1> SUFFICES ASSUME InOrder, Declared PROVE InOrder'
  OBVIOUS
<1>1. /\ at = "declared" /\ at # "returned" /\ decl \in DOMAIN program
      /\ trace' = trace /\ program' = program
  BY DEF Declared, InOrder, Control
<1>2. /\ decl \in Nat /\ decl <= Len(program) /\ Len(program) \in Nat /\ outcome = "none"
      /\ program \in Programs /\ 0 \in Int /\ 8 \in Int /\ decl \in Int
  BY <1>1, InDeclaration
<1>3. Halts \/ GoesOn("declaration", decl + 1, 1, 1)
  BY <1>2, KeptGoes, SwapGoes DEF Declared
<1>4. ASSUME GoesOn("declaration", decl + 1, 1, 1)
      PROVE  /\ at' # "returned" /\ outcome' = "none" /\ Control'
             /\ \A p \in Parts : Below(Key(p), Here') <=> Below(Key(p), Here)
  <2>1. /\ at' = "declaration" /\ decl' = decl + 1 /\ line' = 1 /\ i' = 1
        /\ outcome' = "none" /\ program' = program
    BY <1>1, <1>4 DEF GoesOn, GoTo
  <2>2. Control'
    BY <1>1, <1>2, <2>1 DEF Control
  <2>3. Spot(Here', decl + 1, 0, 0, 0, 0)
    BY <2>1 DEF Here, Spot
  <2>4. Spot(Here, decl, 8, 0, 0, 0)
    BY <1>1 DEF Here, Spot
  <2>5. ASSUME NEW p \in Parts PROVE Below(Key(p), Here') <=> Below(Key(p), Here)
    <3>1. PICK d \in DOMAIN program : d \in Nat /\ p \in PartsOf(program[d], d) /\ KeyIn(p, d)
      BY <1>2, KeyOfPart
    <3>2. program[d] \in Declarations
      BY <1>2, DeclTyped
    <3>3. PICK a, l, b, n \in Int : Has(program[d], a, l, b, n) /\ Spot(Key(p), d, a, l, b, n)
      BY <3>1, <3>2, PartsPlaced DEF Placed
    <3>4. a \in 1..7
      BY <3>3 DEF Has
    <3>5. Below(Key(p), Here') <=> d < decl + 1
      <4>1. Below(Key(p), Here') <=>
              \/ d < decl + 1
              \/ d = decl + 1 /\ a < 0
              \/ d = decl + 1 /\ a = 0 /\ l < 0
              \/ d = decl + 1 /\ a = 0 /\ l = 0 /\ b < 0
              \/ d = decl + 1 /\ a = 0 /\ l = 0 /\ b = 0 /\ n < 0
        BY <2>3, <3>3, BelowBy DEF Spot
      <4> QED
        BY <3>4, <4>1
    <3>6. Below(Key(p), Here) <=> d < decl \/ d = decl
      <4>1. Below(Key(p), Here) <=>
              \/ d < decl
              \/ d = decl /\ a < 8
              \/ d = decl /\ a = 8 /\ l < 0
              \/ d = decl /\ a = 8 /\ l = 0 /\ b < 0
              \/ d = decl /\ a = 8 /\ l = 0 /\ b = 0 /\ n < 0
        BY <2>4, <3>3, BelowBy DEF Spot
      <4> QED
        BY <3>4, <4>1
    <3> QED
      BY <1>2, <3>1, <3>5, <3>6
  <2> QED
    BY <2>1, <2>2, <2>5
<1> QED
  BY <1>1, <1>3, <1>4, Passes

LEMMA SchemaCloseInOrder == InOrder /\ SchemaClose => InOrder'
<1> SUFFICES ASSUME InOrder, SchemaClose PROVE InOrder'
  OBVIOUS
<1>1. /\ at = "schema_member" /\ at # "returned" /\ decl \in DOMAIN program /\ Decl.kind = "compose"
      /\ line \in DOMAIN Decl.lines /\ Line = Decl.lines[line] /\ Line.renamed /\ i > Line.schema
      /\ trace' = trace /\ program' = program
  BY DEF SchemaClose, InOrder, Control, Line
<1>2. /\ decl \in Nat /\ decl <= Len(program) /\ Len(program) \in Nat /\ outcome = "none"
      /\ program \in Programs /\ Decl \in Declarations /\ i \in Nat
      /\ line \in Nat /\ line >= 1 /\ Line.members \in Nat /\ Line.schema \in Nat
      /\ DOMAIN Decl.lines = 1..Len(Decl.lines) /\ Len(Decl.lines) \in Nat
      /\ decl \in Int
  BY <1>1, InDeclaration, InCompose
<1>3. GoesOn("line_tail", decl, line, 1)
  BY <1>2, KeptGoes DEF SchemaClose
<1>4. /\ at' = "line_tail" /\ decl' = decl /\ line' = line /\ i' = 1
      /\ outcome' = "none" /\ program' = program /\ Decl' = Decl /\ Line' = Line
  BY <1>1, <1>3 DEF GoesOn, GoTo, Decl, Line
<1>5. Control'
  BY <1>1, <1>2, <1>4 DEF Control
<1>6. Spot(Here', decl, 2, line, 6, 0)
  BY <1>4 DEF Here, Spot
<1>7. Spot(Here, decl, 2, line, 5, i)
  BY <1>1 DEF Here, Spot
<1>8. ASSUME NEW p \in Parts PROVE Below(Key(p), Here') <=> Below(Key(p), Here)
  <2>1. CASE p \notin PartsOf(Decl, decl)
    BY <1>1, <1>2, <1>6, <1>7, <2>1, Elsewhere DEF Spot
  <2>2. CASE p \in PartsOf(Decl, decl)
    <3>1. PICK a, l, b, n \in Int : Has(Decl, a, l, b, n) /\ Spot(Key(p), decl, a, l, b, n)
      BY <1>2, <2>2, PartsPlaced DEF Placed
    <3>2. Below(Key(p), Here') <=> Lt(a, l, b, n, 2, line, 6, 0)
      BY <1>2, <1>6, <3>1, BelowLt
    <3>3. Below(Key(p), Here) <=> Lt(a, l, b, n, 2, line, 5, i)
      BY <1>2, <1>7, <3>1, BelowLt
    <3>4. Lt(a, l, b, n, 2, line, 6, 0) <=> Lt(a, l, b, n, 2, line, 5, i)
      BY <1>1, <1>2, <3>1 DEF Has, InLine, Lt
    <3> QED
      BY <3>2, <3>3, <3>4
  <2> QED
    BY <2>1, <2>2
<1> QED
  BY <1>1, <1>4, <1>5, <1>8, Passes

\* Behind the last declaration every part has been run.
LEMMA FinishInOrder == InOrder /\ Finish => InOrder'
<1> SUFFICES ASSUME InOrder, Finish PROVE InOrder'
  OBVIOUS
<1>1. /\ at = "declaration" /\ at # "returned" /\ decl > Len(program) /\ at' = "returned"
      /\ trace' = trace /\ program' = program
  BY DEF Finish, Stop
<1>2. program \in Programs /\ decl \in Nat /\ Len(program) \in Nat
  BY <1>1, ProgramsAssumption DEF InOrder, Control
<1>3. Parts' = Parts /\ Done' = Done
  BY <1>1, NoRun
<1>4. Spot(Here, decl, 0, 0, 0, 0)
  BY <1>1 DEF Here, Spot
<1>5. ASSUME NEW p \in Parts PROVE p \in Done
  <2>1. PICK d \in DOMAIN program : d \in Nat /\ p \in PartsOf(program[d], d) /\ KeyIn(p, d)
    BY <1>2, KeyOfPart
  <2>2. d < decl
    BY <1>1, <1>2, <2>1, DeclTyped
  <2>3. Below(Key(p), Here)
    BY <1>4, <2>1, <2>2, BelowBy DEF KeyIn, Spot
  <2> QED
    BY <1>1, <2>3 DEF InOrder
<1>6. OneRunOrder'
  <2>1. Done = Parts
    BY <1>5 DEF InOrder, OneRunOrder
  <2> QED
    BY <1>1, <2>1, NoRun
<1> QED
  BY <1>1, <1>2, <1>3, <1>6 DEF InOrder

LEMMA StartsInOrder == Init => InOrder
<1> SUFFICES ASSUME Init PROVE InOrder
  OBVIOUS
<1>1. /\ program \in Programs /\ decl = 1 /\ line = 1 /\ i = 1
      /\ at = "declaration" /\ trace = <<>> /\ outcome = "none"
  BY DEF Init
<1>2. Len(program) \in Nat
  BY <1>1, ProgramsAssumption
<1>3. Control
  BY <1>1, <1>2 DEF Control
<1>4. Done = {} /\ trace \in Seq(Parts) /\ DOMAIN trace = {}
  BY <1>1 DEF Done
<1>5. Spot(Here, 1, 0, 0, 0, 0)
  BY <1>1 DEF Here, Spot
<1>6. ASSUME NEW p \in Parts PROVE ~Below(Key(p), Here)
  <2>1. PICK d \in DOMAIN program : d \in Nat /\ p \in PartsOf(program[d], d)
    BY <1>1, KeyOfPart
  <2>2. program[d] \in Declarations /\ d >= 1
    BY <1>1, <1>2, <2>1, DeclTyped
  <2>3. PICK a, l, b, n \in Int : Has(program[d], a, l, b, n) /\ Spot(Key(p), d, a, l, b, n)
    BY <2>1, <2>2, PartsPlaced DEF Placed
  <2>4. a \in 1..7
    BY <2>3 DEF Has
  <2>5. Below(Key(p), Here) <=>
          \/ d < 1
          \/ d = 1 /\ a < 0
          \/ d = 1 /\ a = 0 /\ l < 0
          \/ d = 1 /\ a = 0 /\ l = 0 /\ b < 0
          \/ d = 1 /\ a = 0 /\ l = 0 /\ b = 0 /\ n < 0
    BY <1>5, <2>3, BelowBy DEF Spot
  <2> QED
    BY <2>1, <2>2, <2>4, <2>5
<1>7. OneRunOrder
  BY <1>1, <1>4 DEF OneRunOrder
<1> QED
  BY <1>1, <1>3, <1>4, <1>6, <1>7 DEF InOrder

LEMMA StaysInOrder == InOrder /\ UNCHANGED vars => InOrder'
<1> SUFFICES ASSUME InOrder, UNCHANGED vars PROVE InOrder'
  OBVIOUS
<1>1. /\ program' = program /\ trace' = trace /\ at' = at /\ outcome' = outcome /\ decl' = decl
      /\ line' = line /\ i' = i /\ members' = members
  BY DEF vars
<1>2. OneRunOrder' /\ Parts' = Parts /\ Done' = Done
  BY <1>1, NoRun
<1>3. Decl' = Decl /\ Line' = Line
  BY <1>1 DEF Decl, Line
<1>4. Here' = Here
  BY <1>1, <1>3 DEF Here
<1>5. Control' <=> Control
  BY <1>1, <1>3 DEF Control
<1>6. CASE at = "returned"
  BY <1>1, <1>2, <1>6 DEF InOrder
<1>7. CASE at # "returned"
  BY <1>1, <1>2, <1>4, <1>5, <1>7, Passes DEF InOrder
<1> QED
  BY <1>6, <1>7

LEMMA NextInOrder == InOrder /\ [Next]_vars => InOrder'
  BY PlainEntryInOrder, DeclaredInOrder, FinishInOrder, GroupOpenInOrder, GroupMemberInOrder,
     GroupCloseInOrder, ComposeBeginInOrder, LineHeadInOrder, LineMemberInOrder, LineMappedInOrder,
     SchemaOpenInOrder, SchemaMemberInOrder, SchemaCloseInOrder, LineTailInOrder,
     ComposeOpenHeadInOrder, ComposeOpenMemberInOrder, ComposeOpenTailInOrder, ComposeMemberInOrder,
     ComposeCloseInOrder, InstantiateHeadInOrder, InstantiateMapInOrder, InstantiateTailInOrder,
     InstantiateCheckInOrder, InstantiateCloseInOrder, StaysInOrder DEF Next, Returned

\* The runs into which check_in_compact cuts a program are the parts of its one run, in their order,
\* none twice and none left out: for programs of any length, with any number of members.
THEOREM PartsInOrder == Spec => []OneRunOrder
<1>1. InOrder => OneRunOrder
  BY DEF InOrder
<1> QED
  BY <1>1, StartsInOrder, NextInOrder, PTL DEF Spec
=============================================================================
