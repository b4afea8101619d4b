----------------------------- MODULE CompactElab -----------------------------
(***************************************************************************)
(* surface/elab.c, check_in_compact: the elaboration of a program with its *)
(* own memory management.  Declarations are checked in a live arena; what  *)
(* survives a step is copied into a fresh arena and the old one is freed.  *)
(* Declarations whose garbage is too large are cut into members, each run  *)
(* on a step arena of its own, with a keep arena for their results and a   *)
(* base arena for the schema that a renamed line checks again.             *)
(*                                                                         *)
(* A value is abstracted to the arenas its pointers may lead to: a run     *)
(* reads some values and its result may share all of them; a copy leads to *)
(* its own arena alone.  A run is done, refused or out of memory, and so   *)
(* is a copy, except that it cannot refuse.                                *)
(***************************************************************************)
EXTENDS Naturals, Sequences

CONSTANT Programs \* sequences of declarations, see the kinds below

VARIABLES program,
          decl, line, i, \* where the loops stand
          at,            \* the step that is next
          arenas,        \* the arenas in the C variables live, keep and base
          fresh,         \* how many arenas there have been
          mem,           \* the arenas allocated, and what a sanitizer would say
          refs,          \* where the values in the C variables lead
          members,       \* the members left of an instantiation, from start.members
          trace,         \* the runs so far
          outcome        \* "none" until the result is returned
vars == <<program, decl, line, i, at, arenas, fresh, mem, refs, members, trace, outcome>>

\* What a program is made of: how many members each part has, and which lines are renamed.
Lines == [members : Nat, renamed : BOOLEAN, schema : Nat]
Declarations ==
  [kind : {"plain"}] \cup [kind : {"group"}, helpers : Nat] \cup [kind : {"instantiate"}, members : Nat]
  \cup [kind : {"compose"}, lines : Seq(Lines), trusted : Nat, pending : Nat, helpers : Nat]
ASSUME ProgramsAssumption == \A p \in Programs : p \in Seq(Declarations)

Holders == {"state", "start", "compose", "head", "mapped", "globals"}
Roles == {"live", "keep", "base"}
Nowhere == 0 \* where an uninitialised pointer leads: no arena

Decl == program[decl]
Line == Decl.lines[line]

-----------------------------------------------------------------------------
(* The memory, and the statements that work on it.                         *)
New(m, ids) == [m EXCEPT !.alive = @ \cup ids]
Read(m, ids) == IF ids \subseteq m.alive THEN m ELSE [m EXCEPT !.report = "use_after_free"]
Free(m, ids) ==
  [alive |-> m.alive \ ids, report |-> IF ids \subseteq m.alive THEN m.report ELSE "double_free"]

CompactHostOom(m) == Free(m, {arenas.live})

\* Mistake: the live arena is freed before the error in it is copied.
CompactFailureLate(m, error) == Read(Free(m, {arenas.live}), error)
CompactFailure(m, error) == Free(Read(m, error), {arenas.live})

RefsOf(holders) == UNION {refs[h] : h \in holders}
Result(on, holders) == {on} \cup RefsOf(holders)

-----------------------------------------------------------------------------
(* The parts that steps are made of.                                       *)
Ran(phase, l, n) == trace' = Append(trace, <<decl, phase, l, n>>) /\ UNCHANGED program
GoTo(step, d, l, n) == at' = step /\ decl' = d /\ line' = l /\ i' = n

Stop(result, m) ==
  /\ outcome' = result /\ mem' = m /\ at' = "returned"
  /\ UNCHANGED <<decl, line, i, arenas, fresh, refs, members>>
RunsOut(m, scratch) == Stop("oom", CompactHostOom(Free(m, scratch)))

\* A run in the arena on, which reads these values, refuses or has no memory; m is the memory
\* before it and scratch are the arenas that are freed beside live.
Fails(m, on, holders, scratch) ==
  \/ RunsOut(Read(m, RefsOf(holders)), scratch)
  \/ Stop("fail", Free(CompactFailure(Read(m, RefsOf(holders)), Result(on, holders)), scratch))

\* The values in survivors are copied into a new live arena, the old one is freed, and then
\* scratch; n arenas have been made before.
Swap(m, n, values, survivors, scratch) ==
  LET next == n + 1
      copied == Free(Read(New(m, {next}), UNION {values[h] : h \in survivors}), {arenas.live})
      after == Free(copied, scratch)
  IN /\ fresh' = next /\ arenas' = [arenas EXCEPT !.live = next]
     /\ refs' = [h \in Holders |-> IF h \in survivors THEN {next} ELSE values[h]]
     /\ \/ mem' = after /\ UNCHANGED outcome
        \/ mem' = Free(after, {next}) /\ outcome' = "oom"

\* The same without a copy: live stays, with its garbage.
NoSwap(m, n, values) ==
  mem' = m /\ fresh' = n /\ refs' = values /\ UNCHANGED <<arenas, outcome>>

With(holder, ids) == [refs EXCEPT ![holder] = ids]

\* Where the elaboration goes on, unless the copy of this step has run out of memory.
Continue(step, d, l, n) == GoTo(IF outcome' = "none" THEN step ELSE "returned", d, l, n)

\* A run in live, which reads these values and makes the value of holder.
After(holders) == Read(mem, RefsOf(holders))
Makes(holder, holders) == With(holder, Result(arenas.live, holders))
FailsInLive(holders) == Fails(mem, arenas.live, holders, {})

\* A member is run on a step arena of its own, its result is copied into target, and the step
\* arena is freed; scratch are the other arenas freed when it fails.
MemberOnStep(holders, target, result, scratch) ==
  LET step == fresh + 1
      ran == Read(New(mem, {step}), RefsOf(holders))
      copied == Free(Read(ran, Result(step, holders)), {step})
  IN \/ Fails(New(mem, {step}), step, holders, {step} \cup scratch)
     \/ RunsOut(copied, scratch)
     \/ /\ NoSwap(copied, step, With(result, refs[result] \cup {target}))
        /\ GoTo(at, decl, line, i + 1) /\ UNCHANGED members

-----------------------------------------------------------------------------
Init ==
  /\ program \in Programs
  /\ decl = 1 /\ line = 1 /\ i = 1 /\ at = "declaration"
  /\ arenas = [r \in Roles |-> IF r = "live" THEN 1 ELSE Nowhere] /\ fresh = 1
  /\ mem = [alive |-> {1}, report |-> "none"]
  /\ refs = [h \in Holders |-> IF h = "state" THEN {} ELSE {Nowhere}]
  /\ members = <<>> /\ trace = <<>> /\ outcome = "none"

Begins(kind) == at = "declaration" /\ decl <= Len(program) /\ Decl.kind = kind

PlainEntry ==
  /\ Begins("plain") /\ Ran("plain", 0, 0)
  /\ \/ FailsInLive({"state"})
     \/ /\ NoSwap(After({"state"}), fresh, Makes("state", {"state"}))
        /\ GoTo("declared", decl, 1, 1) /\ UNCHANGED members

\* Between declarations the program state is copied when live has grown enough.
Declared ==
  /\ at = "declared"
  /\ NoSwap(mem, fresh, refs) \/ Swap(mem, fresh, refs, {"state"}, {})
  /\ Continue("declaration", decl + 1, 1, 1) /\ UNCHANGED <<program, members, trace>>

\* compact_finish: the state is copied into the heap of the caller.
Finish ==
  /\ at = "declaration" /\ decl > Len(program)
  /\ \E result \in {"done", "oom"} : Stop(result, Free(After({"state"}), {arenas.live}))
  /\ UNCHANGED <<program, trace>>

-----------------------------------------------------------------------------
(* A group: open, its members, close.  cg.group is held in compose.        *)
GroupSwap(holders) ==
  /\ Swap(After(holders), fresh, Makes("compose", holders), {"compose", "state"}, {})
  /\ UNCHANGED members

GroupOpen ==
  /\ Begins("group") /\ Ran("group_open", 0, 0)
  /\ \/ FailsInLive({"state"})
     \/ GroupSwap({"state"}) /\ Continue("group_member", decl, 1, 1)

GroupMember ==
  /\ at = "group_member" /\ i <= Decl.helpers /\ Ran("group_member", 0, i)
  /\ \/ FailsInLive({"compose"})
     \/ GroupSwap({"compose"}) /\ Continue("group_member", decl, 1, i + 1)

\* The stepped program shares the final state of the group or composition.
CloseWith(phase) ==
  /\ Ran(phase, 0, 0)
  /\ \/ FailsInLive({"compose"})
     \/ /\ NoSwap(After({"compose"}), fresh, Makes("state", {"compose", "state"}))
        /\ GoTo("declared", decl, 1, 1) /\ UNCHANGED members

GroupClose == at = "group_member" /\ i > Decl.helpers /\ CloseWith("group_close")

-----------------------------------------------------------------------------
(* A composition: begin, its specialize lines, open, its members, close.   *)
StartSwap(holders, values) ==
  Swap(After(holders), fresh, values, {"start", "state"}, {}) /\ UNCHANGED members

ComposeBegin ==
  /\ Begins("compose") /\ Ran("begin", 0, 0)
  /\ \/ FailsInLive({"state"})
     \/ StartSwap({"state"}, Makes("start", {"state"})) /\ Continue("line", decl, 1, 1)

LineHead ==
  LET read == {"start", "state"}
  IN /\ at = "line" /\ line <= Len(Decl.lines) /\ Ran("line_head", line, 0)
     /\ \/ FailsInLive(read)
        \/ /\ NoSwap(After(read), fresh, [Makes("head", read) EXCEPT !["mapped"] = {arenas.live}])
           /\ GoTo("line_member", decl, line, 1) /\ UNCHANGED members

LineMember ==
  /\ at = "line_member" /\ i <= Line.members /\ Ran("line_member", line, i)
  /\ MemberOnStep({"head"}, arenas.live, "mapped", {})

LineMapped ==
  LET read == {"head", "mapped"}
  IN /\ at = "line_member" /\ i > Line.members /\ Ran("line_mapped", line, 0)
     /\ \/ FailsInLive(read)
        \/ /\ NoSwap(After(read), fresh, Makes("head", read))
           /\ GoTo(IF Line.renamed THEN "schema" ELSE "line_tail", decl, line, 1) /\ UNCHANGED members

\* compact_check_schema: the schema of a renamed line is opened on a base arena, its members are
\* checked on step arenas, and the entries they add are kept in an arena of their own.
SchemaOpen ==
  LET base == fresh + 1
      keep == fresh + 2
  IN /\ at = "schema" /\ Ran("schema_open", line, 0)
     /\ \/ Fails(New(mem, {base}), base, {"head"}, {base})
        \/ /\ mem' = New(After({"head"}), {base, keep}) /\ fresh' = keep
           /\ arenas' = [arenas EXCEPT !.base = base, !.keep = keep]
           /\ refs' = With("globals", Result(base, {"head"}))
           /\ GoTo("schema_member", decl, line, 1) /\ UNCHANGED <<members, outcome>>

SchemaMember ==
  /\ at = "schema_member" /\ i <= Line.schema /\ Ran("schema_member", line, i)
  /\ MemberOnStep({"globals"}, arenas.keep, "globals", {arenas.keep, arenas.base})

\* Mistake: only the arena of the schema is freed.
SchemaCloseKeeps ==
  /\ at = "schema_member" /\ i > Line.schema
  /\ NoSwap(Free(mem, {arenas.base}), fresh, refs)
  /\ GoTo("line_tail", decl, line, 1) /\ UNCHANGED <<program, members, trace>>

SchemaClose ==
  /\ at = "schema_member" /\ i > Line.schema
  /\ NoSwap(Free(mem, {arenas.keep, arenas.base}), fresh, refs)
  /\ GoTo("line_tail", decl, line, 1) /\ UNCHANGED <<program, members, trace>>

LineTail ==
  /\ at = "line_tail" /\ Ran("line_tail", line, 0)
  /\ \/ FailsInLive({"head"})
     \/ /\ StartSwap({"head"}, With("start", refs["start"] \cup Result(arenas.live, {"head"})))
        /\ Continue("line", decl, line + 1, 1)

\* compact_compose_open: head in live, the trusted members on step arenas, tail in keep.  mapped
\* holds the action that scopes the members, which may have no memory, and the members.
ComposeOpenHead ==
  LET keep == fresh + 1
      read == {"start", "state"}
  IN /\ at = "line" /\ line > Len(Decl.lines) /\ Ran("open_head", 0, 0)
     /\ \/ FailsInLive(read)
        \/ RunsOut(New(After(read), {keep}), {keep})
        \/ /\ mem' = New(After(read), {keep}) /\ fresh' = keep /\ arenas' = [arenas EXCEPT !.keep = keep]
           /\ refs' = [Makes("head", read) EXCEPT !["mapped"] = {keep} \cup Result(arenas.live, read)]
           /\ GoTo("open_member", decl, line, 1) /\ UNCHANGED <<members, outcome>>

ComposeOpenMember ==
  /\ at = "open_member" /\ i <= Decl.trusted /\ Ran("open_member", 0, i)
  /\ MemberOnStep({"head", "mapped"}, arenas.keep, "mapped", {arenas.keep})

\* The tail runs in keep, which is freed when live has been copied.
TailInKeep(holder) ==
  LET read == {"head", "mapped"}
  IN Swap(After(read), fresh, With(holder, Result(arenas.keep, read)), {holder, "state"}, {arenas.keep})
FailsInKeep == Fails(mem, arenas.keep, {"head", "mapped"}, {arenas.keep})

ComposeOpenTail ==
  /\ at = "open_member" /\ i > Decl.trusted /\ Ran("open_tail", 0, 0)
  /\ \/ FailsInKeep
     \/ TailInKeep("compose") /\ Continue("compose_member", decl, line, 1) /\ UNCHANGED members

\* The pending members come first, then the definitions of the declaration; a copy is made only
\* when live has grown enough.
ComposeMember ==
  /\ at = "compose_member" /\ i <= Decl.pending + Decl.helpers /\ Ran("compose_member", 0, i)
  /\ \/ FailsInLive({"compose"})
     \/ /\ \/ NoSwap(After({"compose"}), fresh, Makes("compose", {"compose"})) /\ UNCHANGED members
           \/ GroupSwap({"compose"})
        /\ Continue("compose_member", decl, line, i + 1)

ComposeClose ==
  at = "compose_member" /\ i > Decl.pending + Decl.helpers /\ CloseWith("compose_close")

-----------------------------------------------------------------------------
(* An instantiation: open, with its members mapped on step arenas into     *)
(* keep, then the check of each member, and close.                         *)
InstantiateHead ==
  LET keep == fresh + 1
  IN /\ Begins("instantiate") /\ Ran("instantiate_head", 0, 0)
     /\ \/ FailsInLive({"state"})
        \/ /\ mem' = New(After({"state"}), {keep}) /\ fresh' = keep
           /\ arenas' = [arenas EXCEPT !.keep = keep]
           /\ refs' = [Makes("head", {"state"}) EXCEPT !["mapped"] = {keep}]
           /\ GoTo("map_member", decl, 1, 1) /\ UNCHANGED <<members, outcome>>

InstantiateMap ==
  /\ at = "map_member" /\ i <= Decl.members /\ Ran("map_member", 0, i)
  /\ MemberOnStep({"head"}, arenas.keep, "mapped", {arenas.keep})

InstantiateTail ==
  /\ at = "map_member" /\ i > Decl.members /\ Ran("instantiate_tail", 0, 0)
  /\ \/ FailsInKeep
     \/ /\ TailInKeep("start") /\ members' = [n \in 1..Decl.members |-> n]
        /\ Continue("check_member", decl, 1, 1)

\* compact_instantiate_swap keeps the members from the given one on.
From(n) == SubSeq(members, n, Len(members))

\* Mistake: the index is not set back when the members before it are dropped.
CheckContinueAhead(m, n, values) ==
  \/ NoSwap(m, n, values) /\ Continue("check_member", decl, 1, i + 1) /\ UNCHANGED members
  \/ /\ Swap(m, n, values, {"start", "state"}, {}) /\ members' = From(i + 1)
     /\ Continue("check_member", decl, 1, i + 1)

CheckContinue(m, n, values) ==
  \/ NoSwap(m, n, values) /\ Continue("check_member", decl, 1, i + 1) /\ UNCHANGED members
  \/ /\ Swap(m, n, values, {"start", "state"}, {}) /\ members' = From(i + 1)
     /\ Continue("check_member", decl, 1, 1)

\* A member is checked on a step arena, and the entry it adds is copied into live.
InstantiateCheck ==
  LET step == fresh + 1
      read == {"start", "state"}
      ran == Read(New(mem, {step}), RefsOf(read))
      copied == Free(Read(ran, Result(step, read)), {step})
  IN /\ at = "check_member" /\ i <= Len(members) /\ Ran("check_member", 0, members[i])
     /\ \/ Fails(New(mem, {step}), step, read, {step})
        \/ RunsOut(copied, {})
        \/ CheckContinue(copied, step, With("start", refs["start"] \cup {arenas.live}))

InstantiateClose ==
  LET read == {"start", "state"}
  IN /\ at = "check_member" /\ i > Len(members) /\ Ran("instantiate_close", 0, 0)
     /\ \/ FailsInLive(read)
        \/ /\ NoSwap(After(read), fresh, Makes("state", read))
           /\ GoTo("declared", decl, 1, 1) /\ UNCHANGED members

Returned == at = "returned" /\ UNCHANGED vars

Next ==
  \/ PlainEntry \/ Declared \/ Finish
  \/ GroupOpen \/ GroupMember \/ GroupClose
  \/ ComposeBegin \/ LineHead \/ LineMember \/ LineMapped \/ SchemaOpen \/ SchemaMember
  \/ SchemaClose \/ LineTail \/ ComposeOpenHead \/ ComposeOpenMember \/ ComposeOpenTail
  \/ ComposeMember \/ ComposeClose
  \/ InstantiateHead \/ InstantiateMap \/ InstantiateTail \/ InstantiateCheck \/ InstantiateClose
  \/ Returned

Spec == Init /\ [][Next]_vars

-----------------------------------------------------------------------------
(* The order of surface/elab.c without memory management: one run per      *)
(* declaration, which checks its parts in the order of the syntax and      *)
(* stops at the first that is refused.  check_in_compact cuts that run     *)
(* into many and says that values and errors are the same.                 *)
Once(d, phases, l) == {<<d, phase, l, 0>> : phase \in phases}
Each(d, phase, l, count) == {<<d, phase, l, n>> : n \in 1..count}

LineParts(spec, d, l) ==
  Once(d, {"line_head", "line_mapped", "line_tail"}, l) \cup Each(d, "line_member", l, spec.members)
  \cup (IF spec.renamed THEN Once(d, {"schema_open"}, l) \cup Each(d, "schema_member", l, spec.schema) ELSE {})

PartsOf(spec, d) ==
  CASE spec.kind = "plain" -> Once(d, {"plain"}, 0)
    [] spec.kind = "group" ->
         Once(d, {"group_open", "group_close"}, 0) \cup Each(d, "group_member", 0, spec.helpers)
    [] spec.kind = "compose" ->
         Once(d, {"begin", "open_head", "open_tail", "compose_close"}, 0)
         \cup (UNION {LineParts(spec.lines[l], d, l) : l \in DOMAIN spec.lines})
         \cup Each(d, "open_member", 0, spec.trusted)
         \cup Each(d, "compose_member", 0, spec.pending + spec.helpers)
    [] spec.kind = "instantiate" ->
         Once(d, {"instantiate_head", "instantiate_tail", "instantiate_close"}, 0)
         \cup Each(d, "map_member", 0, spec.members) \cup Each(d, "check_member", 0, spec.members)
Parts == UNION {PartsOf(program[d], d) : d \in DOMAIN program}

\* The places of a declaration in the order of the syntax, and those of a line, which all have place 2.
Place(phase) ==
  CASE phase \in {"plain", "group_open", "begin", "instantiate_head"} -> 1
    [] phase \in {"line_head", "line_member", "line_mapped", "schema_open", "schema_member", "line_tail",
                  "group_member", "map_member"} -> 2
    [] phase \in {"open_head", "instantiate_tail"} -> 3
    [] phase \in {"open_member", "check_member"} -> 4
    [] phase = "open_tail" -> 5
    [] phase = "compose_member" -> 6
    [] phase \in {"group_close", "compose_close", "instantiate_close"} -> 7
LinePlace(phase) ==
  CASE phase = "line_head" -> 1 [] phase = "line_member" -> 2 [] phase = "line_mapped" -> 3
    [] phase = "schema_open" -> 4 [] phase = "schema_member" -> 5 [] phase = "line_tail" -> 6
    [] OTHER -> 0

\* A part comes before another by declaration, place, line, place in the line, and number.
Key(part) == <<part[1], Place(part[2]), part[3], LinePlace(part[2]), part[4]>>
Below(a, b) == \E k \in 1..5 : a[k] < b[k] /\ \A j \in 1..(k - 1) : a[j] = b[j]
Before(p, q) == Below(Key(p), Key(q))

Done == {trace[n] : n \in DOMAIN trace}

\* The parts are run in the order of the one run, none twice and none left out: so a program is
\* accepted only when all of it was run, and an error is that of its first refused part.
OneRunOrder ==
  /\ Done \subseteq Parts
  /\ \A m, n \in DOMAIN trace : m < n => Before(trace[m], trace[n])
  /\ \A q \in Done, p \in Parts : Before(p, q) => p \in Done
  /\ outcome = "done" => Done = Parts

-----------------------------------------------------------------------------
\* No value is read after an arena it leads to is freed, and no arena is freed twice.
NoReport == mem.report = "none"

\* When the elaboration returns, with a result, an error or without memory, every arena it made
\* is freed; what it returns is in the heap of the caller.
NothingLeaked == outcome # "none" => mem.alive = {}
=============================================================================
