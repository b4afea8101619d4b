------------------------------ MODULE Quantity ------------------------------
(***************************************************************************)
(* kernel/quantity.c: the usage of linear binders.  While the checker      *)
(* (kernel/check_engine.c) walks a term it builds a usage from the usages  *)
(* of the parts: for each binder an interval of how often a run that       *)
(* completes uses it, or no interval at all when no run completes, and a   *)
(* bound on how often any run reads it.  A linear binder is accepted if    *)
(* its interval is exactly one.                                            *)
(*                                                                         *)
(* A state is the set of the usages built so far; a usage is immutable and *)
(* may be a part more than once.  Beside each one stand the runs of the    *)
(* term it is the usage of, which the code does not have: what the usages  *)
(* promise is about them.  The rows of a usage are a function on all       *)
(* binders, as quantity_interval reads a missing row as no use.            *)
(***************************************************************************)
EXTENDS Naturals, FiniteSets

CONSTANTS Levels,   \* the de Bruijn levels of the binders in scope
          MaxBuilt  \* bound of the model: how many usages are built

VARIABLE built

Zero == 0
One == 1
Many == 2  \* any number of times; the numbers are those of quantity_rank
Quantities == {Zero, One, Many}

Add(a, b) == IF a = Zero THEN b ELSE IF b = Zero THEN a ELSE Many
Mul(a, b) == IF a = Zero \/ b = Zero THEN Zero ELSE IF a = One THEN b ELSE Many
Minimum(a, b) == IF a <= b THEN a ELSE b
Maximum(a, b) == IF a >= b THEN a ELSE b

Intervals == [lo : Quantities, hi : Quantities]
Interval(lo, hi) == [lo |-> lo, hi |-> hi]
Rows == [Levels -> Intervals]
NoRows == [l \in Levels |-> Interval(Zero, Zero)]

\* paths is a set of at most one member: its rows, unless no run completes.
Usages == [paths : SUBSET Rows, reads : Rows]
Usage(paths, reads) == [paths |-> paths, reads |-> reads]

-----------------------------------------------------------------------------
(* The operations on usages.                                               *)
Empty == Usage({NoRows}, NoRows)
Unreachable == Usage({}, NoRows)

OccurrenceRows(level, q) == [NoRows EXCEPT ![level] = Interval(q, q)]
Occurrence(level, q) == Usage({OccurrenceRows(level, q)}, OccurrenceRows(level, q))

\* Mistake: two parts that each use a binder once use it once together.
SumRowsMost(a, b) ==
  [l \in Levels |-> Interval(Maximum(a[l].lo, b[l].lo), Maximum(a[l].hi, b[l].hi))]
SumRows(a, b) ==
  [l \in Levels |-> Interval(Add(a[l].lo, b[l].lo), Add(a[l].hi, b[l].hi))]
HullRows(a, b) ==
  [l \in Levels |-> Interval(Minimum(a[l].lo, b[l].lo), Maximum(a[l].hi, b[l].hi))]
MostRows(a, b) ==
  [l \in Levels |-> Interval(Maximum(a[l].lo, b[l].lo), Maximum(a[l].hi, b[l].hi))]

Sequence(a, b) ==
  Usage({SumRows(p, q) : p \in a.paths, q \in b.paths}, SumRows(a.reads, b.reads))

Alternative(a, b) ==
  Usage(IF a.paths = {} THEN b.paths ELSE IF b.paths = {} THEN a.paths
        ELSE {HullRows(p, q) : p \in a.paths, q \in b.paths},
        MostRows(a.reads, b.reads))

\* Mistake: a term that may be used many times may be used not at all.
ScaleLoose(q, rows) == [l \in Levels |-> Interval(Zero, Mul(q, rows[l].hi))]
ScaleMap(q, rows) == [l \in Levels |-> Interval(Mul(q, rows[l].lo), Mul(q, rows[l].hi))]
Scale(q, usage) ==
  IF q = Zero THEN Empty
  ELSE IF q = One THEN usage
  ELSE Usage({ScaleMap(Many, p) : p \in usage.paths}, ScaleMap(Many, usage.reads))

\* A closure is made whether or not its body completes.
CaptureRows(a, b) == [l \in Levels |-> Interval(a[l].lo, Maximum(a[l].hi, b[l].hi))]

Captures(usage) ==
  Usage(IF usage.paths = {} THEN {usage.reads} ELSE {CaptureRows(p, usage.reads) : p \in usage.paths},
        usage.reads)

RemoveMap(level, rows) == [rows EXCEPT ![level] = Interval(Zero, Zero)]
Remove(usage, level) ==
  Usage({RemoveMap(level, p) : p \in usage.paths}, RemoveMap(level, usage.reads))

-----------------------------------------------------------------------------
(* What the checker asks of a binder.                                      *)

\* Mistake: a binder is taken to be used once where no run completes.
GetOnce(usage, level) ==
  IF usage.paths = {} THEN Interval(One, One) ELSE (CHOOSE p \in usage.paths : TRUE)[level]

Get(usage, level) ==
  IF usage.paths = {} THEN Interval(One, Maximum(One, usage.reads[level].hi))
  ELSE (CHOOSE p \in usage.paths : TRUE)[level]

ExactlyOnce(level, usage) == Get(usage, level) = Interval(One, One)
AtMostOnce(level, usage) == Get(usage, level).hi # Many
Used(level, usage) == usage.reads[level].hi # Zero

-----------------------------------------------------------------------------
(* The runs of a term, as counts of uses: those that complete, and the     *)
(* beginnings of all runs.                                                 *)
Counts == [Levels -> Quantities]
NoUse == [l \in Levels |-> Zero]
AddCounts(a, b) == [l \in Levels |-> Add(a[l], b[l])]
Runs == [ends : SUBSET Counts, begins : SUBSET Counts]

EmptyRuns == [ends |-> {NoUse}, begins |-> {NoUse}]
UnreachableRuns == [ends |-> {}, begins |-> {NoUse}]
OccurrenceRuns(level, q) ==
  [ends |-> {[NoUse EXCEPT ![level] = q]}, begins |-> {NoUse, [NoUse EXCEPT ![level] = q]}]
SequenceRuns(a, b) ==
  [ends |-> {AddCounts(p, q) : p \in a.ends, q \in b.ends},
   begins |-> a.begins \cup {AddCounts(p, q) : p \in a.ends, q \in b.begins}]
AlternativeRuns(a, b) == [ends |-> a.ends \cup b.ends, begins |-> a.begins \cup b.begins]
ScaleCounts(q, p) == [l \in Levels |-> Mul(q, p[l])]
ScaleRuns(q, a) ==
  IF q = Zero THEN EmptyRuns
  ELSE [ends |-> {ScaleCounts(q, p) : p \in a.ends}, begins |-> {ScaleCounts(q, p) : p \in a.begins}]
Forget(p, level) == [p EXCEPT ![level] = Zero]
RemoveRuns(a, level) ==
  [ends |-> {Forget(p, level) : p \in a.ends}, begins |-> {Forget(p, level) : p \in a.begins}]

-----------------------------------------------------------------------------
\* captured: a closure is part of the term, whose body's runs stand for those of the call.
Part(usage, runs, captured) == [usage |-> usage, runs |-> runs, captured |-> captured]

Init == built = {Part(Empty, EmptyRuns, FALSE)}

Build(part) ==
  /\ Cardinality(built) < MaxBuilt
  /\ built' = built \cup {part}

\* A variable, read in the mode q.
BuildOccurrence ==
  \E l \in Levels, q \in Quantities : Build(Part(Occurrence(l, q), OccurrenceRuns(l, q), FALSE))

\* The case of no branches, from which the alternatives of a case are built.
BuildUnreachable == Build(Part(Unreachable, UnreachableRuns, FALSE))

BuildSequence ==
  \E a, b \in built :
    Build(Part(Sequence(a.usage, b.usage), SequenceRuns(a.runs, b.runs), a.captured \/ b.captured))

BuildAlternative ==
  \E a, b \in built :
    Build(Part(Alternative(a.usage, b.usage), AlternativeRuns(a.runs, b.runs), a.captured \/ b.captured))

BuildScale ==
  \E q \in Quantities, a \in built :
    Build(Part(Scale(q, a.usage), ScaleRuns(q, a.runs), a.captured))

BuildCaptures ==
  \E a \in built : Build(Part(Captures(a.usage), a.runs, TRUE))

BuildRemove ==
  \E l \in Levels, a \in built :
    Build(Part(Remove(a.usage, l), RemoveRuns(a.runs, l), a.captured))

Next ==
  \/ BuildOccurrence \/ BuildUnreachable \/ BuildSequence \/ BuildAlternative
  \/ BuildScale \/ BuildCaptures \/ BuildRemove

Spec == Init /\ [][Next]_built

-----------------------------------------------------------------------------
\* Usages and runs have their types, a usage has at most one set of rows, and a run that
\* completes has begun.
PartOK(part) ==
  /\ part.usage \in Usages
  /\ \A p, q \in part.usage.paths : p = q
  /\ part.runs \in Runs /\ part.runs.ends \subseteq part.runs.begins
  /\ part.captured \in BOOLEAN
TypeOK == \A part \in built : PartOK(part)

\* A usage bounds the runs of its term: if it has no rows no run completes, each run that
\* completes is inside the intervals, and none reads more than the reads.
BoundsRuns(part) ==
  /\ part.usage.paths = {} => part.runs.ends = {}
  /\ \A p \in part.usage.paths, run \in part.runs.ends, l \in Levels :
       p[l].lo <= run[l] /\ run[l] <= p[l].hi
  /\ \A run \in part.runs.begins, l \in Levels : run[l] <= part.usage.reads[l].hi
Sound == \A part \in built : BoundsRuns(part)

\* The bounds are met: where no closure is involved, a usage with rows has for each binder
\* a run that uses it as seldom, and one that uses it as often, as its interval says.
MeetsBounds(part) ==
  ~part.captured => \A p \in part.usage.paths, l \in Levels :
    /\ \E run \in part.runs.ends : run[l] = p[l].lo
    /\ \E run \in part.runs.ends : run[l] = p[l].hi
Exact == \A part \in built : MeetsBounds(part)

\* A linear binder that is accepted is used exactly once on every run that completes and
\* on no run twice where none completes; an alias is never used twice; and a binder that is
\* not used is read by no run.
AcceptsLinear(part) ==
  \A l \in Levels :
    /\ ExactlyOnce(l, part.usage) => \A run \in part.runs.ends : run[l] = One
    /\ AtMostOnce(l, part.usage) => \A run \in part.runs.ends : run[l] # Many
    /\ AtMostOnce(l, part.usage) /\ part.usage.paths = {} =>
         \A run \in part.runs.begins : run[l] # Many
    /\ ~Used(l, part.usage) => \A run \in part.runs.begins : run[l] = Zero
LinearOnEveryPath == \A part \in built : AcceptsLinear(part)
=============================================================================
