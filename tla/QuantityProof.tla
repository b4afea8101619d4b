---------------------------- MODULE QuantityProof ----------------------------
(***************************************************************************)
(* Proofs about Quantity for every set of binders and terms of any size:   *)
(* MaxBuilt is used nowhere.  Each operation on usages keeps the bounds of *)
(* the runs, because addition and multiplication of quantities are         *)
(* monotone; so the invariant holds of every usage built, part by part.    *)
(***************************************************************************)
EXTENDS Quantity, TLAPS

\* Quantities are closed under the operations.
LEMMA Closed ==
  ASSUME NEW a \in Quantities, NEW b \in Quantities
  PROVE  /\ Add(a, b) \in Quantities /\ Mul(a, b) \in Quantities
         /\ Minimum(a, b) \in Quantities /\ Maximum(a, b) \in Quantities
         /\ Zero \in Quantities /\ One \in Quantities /\ Many \in Quantities
  BY DEF Quantities, Zero, One, Many, Add, Mul, Minimum, Maximum

\* Addition and multiplication are monotone.
LEMMA AddMonotone ==
  ASSUME NEW a \in Quantities, NEW b \in Quantities, NEW c \in Quantities, NEW d \in Quantities,
         a <= c, b <= d
  PROVE  Add(a, b) <= Add(c, d)
  BY DEF Quantities, Zero, One, Many, Add

LEMMA MulMonotone ==
  ASSUME NEW q \in Quantities, NEW a \in Quantities, NEW b \in Quantities, a <= b
  PROVE  Mul(q, a) <= Mul(q, b)
  BY DEF Quantities, Zero, One, Many, Mul

\* The order of quantities, and what is below or above two of them.
LEMMA Order ==
  ASSUME NEW a \in Quantities
  PROVE  Zero <= a /\ a <= a
  BY DEF Quantities, Zero, One, Many

LEMMA Transitive ==
  ASSUME NEW a \in Quantities, NEW b \in Quantities, NEW c \in Quantities, a <= b, b <= c
  PROVE  a <= c
  BY DEF Quantities, Zero, One, Many

LEMMA AddGrows ==
  ASSUME NEW a \in Quantities, NEW b \in Quantities
  PROVE  a <= Add(a, b)
  BY DEF Quantities, Zero, One, Many, Add

LEMMA MinimumBelow ==
  ASSUME NEW a \in Quantities, NEW b \in Quantities
  PROVE  Minimum(a, b) <= a /\ Minimum(a, b) <= b /\ Minimum(a, b) \in {a, b}
  BY DEF Quantities, Zero, One, Many, Minimum

LEMMA MaximumAbove ==
  ASSUME NEW a \in Quantities, NEW b \in Quantities
  PROVE  a <= Maximum(a, b) /\ b <= Maximum(a, b) /\ Maximum(a, b) \in {a, b}
  BY DEF Quantities, Zero, One, Many, Maximum

\* The bounds of an interval are quantities.
LEMMA RowsFacts ==
  /\ \A r \in Rows, l \in Levels : r[l].lo \in Quantities /\ r[l].hi \in Quantities
  /\ NoRows \in Rows
  /\ \A l \in Levels, q \in Quantities : OccurrenceRows(l, q) \in Rows
  BY DEF Rows, Intervals, NoRows, OccurrenceRows, Interval, Quantities, Zero

\* The rows that two sets of rows are combined to are rows.
LEMMA RowsClosed ==
  ASSUME NEW a \in Rows, NEW b \in Rows
  PROVE  SumRows(a, b) \in Rows /\ HullRows(a, b) \in Rows /\ MostRows(a, b) \in Rows
         /\ CaptureRows(a, b) \in Rows
<1>1. \A k \in Levels : /\ a[k].lo \in Quantities /\ a[k].hi \in Quantities
                        /\ b[k].lo \in Quantities /\ b[k].hi \in Quantities
  BY RowsFacts
<1>2. SumRows(a, b) \in Rows
  BY <1>1, Closed DEF SumRows, Rows, Intervals, Interval
<1>3. HullRows(a, b) \in Rows
  BY <1>1, Closed DEF HullRows, Rows, Intervals, Interval
<1>4. MostRows(a, b) \in Rows
  BY <1>1, Closed DEF MostRows, Rows, Intervals, Interval
<1>5. CaptureRows(a, b) \in Rows
  BY <1>1, Closed DEF CaptureRows, Rows, Intervals, Interval
<1> QED
  BY <1>2, <1>3, <1>4, <1>5

-----------------------------------------------------------------------------
(* The usage and the runs of a part are what the type invariant says.      *)

\* The usages of leaves are usages.
LEMMA LeavesOK ==
  /\ Empty \in Usages /\ EmptyRuns \in Runs
  /\ Unreachable \in Usages /\ UnreachableRuns \in Runs
  /\ \A l \in Levels, q \in Quantities :
       Occurrence(l, q) \in Usages /\ OccurrenceRuns(l, q) \in Runs
<1>1. NoUse \in Counts
  BY DEF NoUse, Counts, Quantities, Zero
<1>2. \A l \in Levels, q \in Quantities : [NoUse EXCEPT ![l] = q] \in Counts
  BY DEF NoUse, Counts, Quantities, Zero
<1> QED
  BY <1>1, <1>2, RowsFacts
     DEF Empty, Unreachable, Occurrence, Usage, Usages, EmptyRuns, UnreachableRuns, OccurrenceRuns, Runs

\* A sequence of two parts is a part.
LEMMA SequenceOK ==
  ASSUME NEW a, NEW b, PartOK(a), PartOK(b)
  PROVE  PartOK(Part(Sequence(a.usage, b.usage), SequenceRuns(a.runs, b.runs), a.captured \/ b.captured))
<1>1. /\ a.usage.paths \subseteq Rows /\ a.usage.reads \in Rows
      /\ b.usage.paths \subseteq Rows /\ b.usage.reads \in Rows
      /\ a.runs.ends \subseteq Counts /\ a.runs.begins \subseteq Counts
      /\ b.runs.ends \subseteq Counts /\ b.runs.begins \subseteq Counts
  BY DEF PartOK, Usages, Runs
<1>2. \A p \in Rows, q \in Rows : SumRows(p, q) \in Rows
  BY RowsClosed
<1>3. \A p \in Counts, q \in Counts : AddCounts(p, q) \in Counts
  BY Closed DEF AddCounts, Counts
<1>4. Sequence(a.usage, b.usage) \in Usages
  BY <1>1, <1>2 DEF Sequence, Usage, Usages
<1>5. SequenceRuns(a.runs, b.runs) \in Runs
  BY <1>1, <1>3 DEF SequenceRuns, Runs
<1>6. \A p, q \in Sequence(a.usage, b.usage).paths : p = q
  BY DEF PartOK, Sequence, Usage
<1>7. SequenceRuns(a.runs, b.runs).ends \subseteq SequenceRuns(a.runs, b.runs).begins
  BY DEF SequenceRuns, PartOK
<1> QED
  BY <1>4, <1>5, <1>6, <1>7 DEF PartOK, Part

\* The alternatives of two parts are a part.
LEMMA AlternativeOK ==
  ASSUME NEW a, NEW b, PartOK(a), PartOK(b)
  PROVE  PartOK(Part(Alternative(a.usage, b.usage), AlternativeRuns(a.runs, b.runs),
                     a.captured \/ b.captured))
<1>1. /\ a.usage.paths \subseteq Rows /\ a.usage.reads \in Rows
      /\ b.usage.paths \subseteq Rows /\ b.usage.reads \in Rows
  BY DEF PartOK, Usages
<1>2. \A p \in Rows, q \in Rows : HullRows(p, q) \in Rows /\ MostRows(p, q) \in Rows
  BY RowsClosed
<1>3. Alternative(a.usage, b.usage) \in Usages
  BY <1>1, <1>2 DEF Alternative, Usage, Usages
<1>4. AlternativeRuns(a.runs, b.runs) \in Runs
  BY DEF AlternativeRuns, Runs, PartOK
<1>5. \A p, q \in Alternative(a.usage, b.usage).paths : p = q
  BY DEF PartOK, Alternative, Usage
<1> QED
  BY <1>3, <1>4, <1>5 DEF PartOK, Part, AlternativeRuns

\* A scaled part is a part.
LEMMA ScaleOK ==
  ASSUME NEW a, PartOK(a), NEW q \in Quantities
  PROVE  PartOK(Part(Scale(q, a.usage), ScaleRuns(q, a.runs), a.captured))
<1>1. /\ a.usage.paths \subseteq Rows /\ a.usage.reads \in Rows
      /\ a.runs.ends \subseteq Counts /\ a.runs.begins \subseteq Counts
  BY DEF PartOK, Usages, Runs
<1>2. \A p \in Rows : ScaleMap(Many, p) \in Rows
  BY RowsFacts, Closed DEF ScaleMap, Rows, Intervals, Interval, Quantities
<1>3. \A p \in Counts : ScaleCounts(q, p) \in Counts
  BY Closed DEF ScaleCounts, Counts
<1>4. Scale(q, a.usage) \in Usages
  BY <1>1, <1>2, LeavesOK DEF Scale, Usage, Usages, PartOK
<1>5. ScaleRuns(q, a.runs) \in Runs
  BY <1>1, <1>3, LeavesOK DEF ScaleRuns, Runs
<1>6. \A p, r \in Scale(q, a.usage).paths : p = r
  BY DEF PartOK, Scale, Usage, Empty
<1> QED
  BY <1>4, <1>5, <1>6 DEF PartOK, Part, ScaleRuns, EmptyRuns

\* A closure is a part.
LEMMA CapturesOK ==
  ASSUME NEW a, PartOK(a)
  PROVE  PartOK(Part(Captures(a.usage), a.runs, TRUE))
<1>1. a.usage.paths \subseteq Rows /\ a.usage.reads \in Rows
  BY DEF PartOK, Usages
<1>2. \A p \in Rows, r \in Rows : CaptureRows(p, r) \in Rows
  BY RowsClosed
<1>3. Captures(a.usage) \in Usages
  BY <1>1, <1>2 DEF Captures, Usage, Usages
<1>4. \A p, r \in Captures(a.usage).paths : p = r
  BY DEF PartOK, Captures, Usage
<1> QED
  BY <1>3, <1>4 DEF PartOK, Part

\* A part without a binder is a part.
LEMMA RemoveOK ==
  ASSUME NEW a, PartOK(a), NEW l \in Levels
  PROVE  PartOK(Part(Remove(a.usage, l), RemoveRuns(a.runs, l), a.captured))
<1>1. /\ a.usage.paths \subseteq Rows /\ a.usage.reads \in Rows
      /\ a.runs.ends \subseteq Counts /\ a.runs.begins \subseteq Counts
  BY DEF PartOK, Usages, Runs
<1>2. \A p \in Rows : RemoveMap(l, p) \in Rows
  BY DEF RemoveMap, Rows, Intervals, Interval, Quantities, Zero
<1>3. \A p \in Counts : Forget(p, l) \in Counts
  BY DEF Forget, Counts, Quantities, Zero
<1>4. Remove(a.usage, l) \in Usages
  BY <1>1, <1>2 DEF Remove, Usage, Usages
<1>5. RemoveRuns(a.runs, l) \in Runs
  BY <1>1, <1>3 DEF RemoveRuns, Runs
<1>6. \A p, r \in Remove(a.usage, l).paths : p = r
  BY DEF PartOK, Remove, Usage
<1> QED
  BY <1>4, <1>5, <1>6 DEF PartOK, Part, RemoveRuns

-----------------------------------------------------------------------------
(* The bounds of the runs.                                                 *)

\* What it is to bound the runs of a part, of its usage and its runs.
LEMMA BoundsOfPart ==
  ASSUME NEW usage, NEW runs, NEW captured,
         usage.paths = {} => runs.ends = {},
         \A p \in usage.paths, run \in runs.ends, l \in Levels : p[l].lo <= run[l] /\ run[l] <= p[l].hi,
         \A run \in runs.begins, l \in Levels : run[l] <= usage.reads[l].hi
  PROVE  BoundsRuns(Part(usage, runs, captured))
  BY DEF BoundsRuns, Part

\* The leaves bound their runs.
LEMMA LeavesSound ==
  /\ BoundsRuns(Part(Empty, EmptyRuns, FALSE))
  /\ BoundsRuns(Part(Unreachable, UnreachableRuns, FALSE))
  /\ \A l \in Levels, q \in Quantities : BoundsRuns(Part(Occurrence(l, q), OccurrenceRuns(l, q), FALSE))
<1>1. BoundsRuns(Part(Empty, EmptyRuns, FALSE)) /\ BoundsRuns(Part(Unreachable, UnreachableRuns, FALSE))
  BY DEF BoundsRuns, Part, Empty, EmptyRuns, Unreachable, UnreachableRuns, Usage, NoRows, NoUse, Interval, Zero
<1>2. ASSUME NEW l \in Levels, NEW q \in Quantities
      PROVE  BoundsRuns(Part(Occurrence(l, q), OccurrenceRuns(l, q), FALSE))
  <2> DEFINE use == [NoUse EXCEPT ![l] = q]
  <2>1. \A k \in Levels : /\ use[k] \in Quantities /\ NoUse[k] = Zero
                          /\ OccurrenceRows(l, q)[k].lo = use[k] /\ OccurrenceRows(l, q)[k].hi = use[k]
    BY Closed DEF OccurrenceRows, NoRows, NoUse, Interval
  <2>2. \A k \in Levels : use[k] <= use[k] /\ NoUse[k] <= use[k]
    BY <2>1, Order
  <2> HIDE DEF use
  <2>3. \A p \in Occurrence(l, q).paths, run \in OccurrenceRuns(l, q).ends, k \in Levels :
          p[k].lo <= run[k] /\ run[k] <= p[k].hi
    BY <2>1, <2>2 DEF Occurrence, OccurrenceRuns, Usage, use
  <2>4. \A run \in OccurrenceRuns(l, q).begins, k \in Levels : run[k] <= Occurrence(l, q).reads[k].hi
    BY <2>1, <2>2 DEF Occurrence, OccurrenceRuns, Usage, use
  <2>5. Occurrence(l, q).paths # {}
    BY DEF Occurrence, Usage
  <2> QED
    BY <2>3, <2>4, <2>5, BoundsOfPart
<1> QED
  BY <1>1, <1>2

\* A sequence bounds its runs.
LEMMA SequenceSound ==
  ASSUME NEW a, NEW b, PartOK(a), PartOK(b), BoundsRuns(a), BoundsRuns(b)
  PROVE  BoundsRuns(Part(Sequence(a.usage, b.usage), SequenceRuns(a.runs, b.runs), a.captured \/ b.captured))
<1> DEFINE paths == Sequence(a.usage, b.usage).paths
           runs == SequenceRuns(a.runs, b.runs)
           reads == SumRows(a.usage.reads, b.usage.reads)
<1>1. /\ a.usage.paths \subseteq Rows /\ a.usage.reads \in Rows
      /\ b.usage.paths \subseteq Rows /\ b.usage.reads \in Rows
      /\ a.runs.ends \subseteq Counts /\ a.runs.begins \subseteq Counts
      /\ b.runs.ends \subseteq Counts /\ b.runs.begins \subseteq Counts
  BY DEF PartOK, Usages, Runs
<1>2. \A r \in Counts, l \in Levels : r[l] \in Quantities
  BY DEF Counts
<1>3. paths = {} => runs.ends = {}
  BY DEF BoundsRuns, Sequence, SequenceRuns, Usage
<1>4. ASSUME NEW p \in paths, NEW run \in runs.ends, NEW l \in Levels
      PROVE  p[l].lo <= run[l] /\ run[l] <= p[l].hi
  <2>1. PICK pa \in a.usage.paths, pb \in b.usage.paths : p = SumRows(pa, pb)
    BY DEF Sequence, Usage
  <2>2. PICK ra \in a.runs.ends, rb \in b.runs.ends : run = AddCounts(ra, rb)
    BY DEF SequenceRuns
  <2>3. /\ pa[l].lo <= ra[l] /\ ra[l] <= pa[l].hi
        /\ pb[l].lo <= rb[l] /\ rb[l] <= pb[l].hi
    BY DEF BoundsRuns
  <2>4. /\ pa[l].lo \in Quantities /\ pa[l].hi \in Quantities /\ ra[l] \in Quantities
        /\ pb[l].lo \in Quantities /\ pb[l].hi \in Quantities /\ rb[l] \in Quantities
    BY <1>1, <1>2, RowsFacts
  <2>5. Add(pa[l].lo, pb[l].lo) <= Add(ra[l], rb[l]) /\ Add(ra[l], rb[l]) <= Add(pa[l].hi, pb[l].hi)
    BY <2>3, <2>4, AddMonotone
  <2> QED
    BY <2>1, <2>2, <2>5 DEF SumRows, AddCounts, Interval
<1>5. ASSUME NEW run \in runs.begins, NEW l \in Levels PROVE run[l] <= reads[l].hi
  <2>1. a.usage.reads[l].hi \in Quantities /\ b.usage.reads[l].hi \in Quantities
    BY <1>1, RowsFacts
  <2>2. reads[l].hi = Add(a.usage.reads[l].hi, b.usage.reads[l].hi)
    BY DEF SumRows, Interval
  <2>3. CASE run \in a.runs.begins
    <3>1. run[l] <= a.usage.reads[l].hi /\ run[l] \in Quantities
      BY <1>1, <1>2, <2>3 DEF BoundsRuns
    <3> QED
      <4>1. a.usage.reads[l].hi <= reads[l].hi /\ reads[l].hi \in Quantities
        <5>1. a.usage.reads[l].hi <= Add(a.usage.reads[l].hi, b.usage.reads[l].hi)
          BY <2>1, AddGrows
        <5> QED
          BY <2>1, <2>2, <5>1, Closed
      <4> QED
        BY <2>1, <3>1, <4>1, Transitive
  <2>4. ASSUME NEW ra \in a.runs.ends, NEW rb \in b.runs.begins, run = AddCounts(ra, rb)
        PROVE  run[l] <= reads[l].hi
    <3>1. ra[l] <= a.usage.reads[l].hi /\ rb[l] <= b.usage.reads[l].hi
      BY DEF BoundsRuns, PartOK
    <3>2. ra[l] \in Quantities /\ rb[l] \in Quantities
      BY <1>1, <1>2
    <3> QED
      BY <2>1, <2>2, <2>4, <3>1, <3>2, AddMonotone DEF AddCounts
  <2> QED
    BY <2>3, <2>4 DEF SequenceRuns
<1>6. Sequence(a.usage, b.usage).reads = reads
  BY DEF Sequence, Usage
<1> HIDE DEF paths, runs, reads
<1> QED
  <2>1. paths = Sequence(a.usage, b.usage).paths /\ runs = SequenceRuns(a.runs, b.runs)
    BY DEF paths, runs
  <2> QED
    BY <1>3, <1>4, <1>5, <1>6, <2>1, BoundsOfPart

\* Alternatives bound their runs.
LEMMA AlternativeSound ==
  ASSUME NEW a, NEW b, PartOK(a), PartOK(b), BoundsRuns(a), BoundsRuns(b)
  PROVE  BoundsRuns(Part(Alternative(a.usage, b.usage), AlternativeRuns(a.runs, b.runs),
                         a.captured \/ b.captured))
<1> DEFINE paths == Alternative(a.usage, b.usage).paths
           runs == AlternativeRuns(a.runs, b.runs)
           reads == Alternative(a.usage, b.usage).reads
<1>1. /\ a.usage.paths \subseteq Rows /\ a.usage.reads \in Rows
      /\ b.usage.paths \subseteq Rows /\ b.usage.reads \in Rows
      /\ runs.ends \subseteq Counts /\ runs.begins \subseteq Counts
  BY DEF PartOK, Usages, Runs, AlternativeRuns
<1>2. \A r \in Counts, l \in Levels : r[l] \in Quantities
  BY DEF Counts
<1>3. paths = {} => runs.ends = {}
  BY DEF BoundsRuns, Alternative, AlternativeRuns, Usage
<1>4. ASSUME NEW p \in paths, NEW run \in runs.ends, NEW l \in Levels
      PROVE  p[l].lo <= run[l] /\ run[l] <= p[l].hi
  <2>1. CASE a.usage.paths = {}
    BY <2>1 DEF BoundsRuns, Alternative, AlternativeRuns, Usage
  <2>2. CASE b.usage.paths = {}
    BY <2>2 DEF BoundsRuns, Alternative, AlternativeRuns, Usage
  <2>3. CASE a.usage.paths # {} /\ b.usage.paths # {}
    <3>1. PICK pa \in a.usage.paths, pb \in b.usage.paths : p = HullRows(pa, pb)
      BY <2>3 DEF Alternative, Usage
    <3>2. \/ pa[l].lo <= run[l] /\ run[l] <= pa[l].hi
          \/ pb[l].lo <= run[l] /\ run[l] <= pb[l].hi
      BY DEF BoundsRuns, AlternativeRuns
    <3>3. /\ pa[l].lo \in Quantities /\ pa[l].hi \in Quantities /\ run[l] \in Quantities
          /\ pb[l].lo \in Quantities /\ pb[l].hi \in Quantities
      BY <1>1, <1>2, RowsFacts
    <3>4. p[l].lo = Minimum(pa[l].lo, pb[l].lo) /\ p[l].hi = Maximum(pa[l].hi, pb[l].hi)
      BY <3>1 DEF HullRows, Interval
    <3>5. /\ p[l].lo <= pa[l].lo /\ p[l].lo <= pb[l].lo /\ p[l].lo \in Quantities
          /\ pa[l].hi <= p[l].hi /\ pb[l].hi <= p[l].hi /\ p[l].hi \in Quantities
      <4>1. /\ Minimum(pa[l].lo, pb[l].lo) <= pa[l].lo /\ Minimum(pa[l].lo, pb[l].lo) <= pb[l].lo
            /\ Minimum(pa[l].lo, pb[l].lo) \in Quantities
        BY <3>3, MinimumBelow, Closed
      <4>2. /\ pa[l].hi <= Maximum(pa[l].hi, pb[l].hi) /\ pb[l].hi <= Maximum(pa[l].hi, pb[l].hi)
            /\ Maximum(pa[l].hi, pb[l].hi) \in Quantities
        BY <3>3, MaximumAbove, Closed
      <4> QED
        BY <3>4, <4>1, <4>2
    <3> QED
      BY <3>2, <3>3, <3>5, Transitive
  <2> QED
    BY <2>1, <2>2, <2>3
<1>5. ASSUME NEW run \in runs.begins, NEW l \in Levels PROVE run[l] <= reads[l].hi
  <2>1. /\ a.usage.reads[l].hi \in Quantities /\ b.usage.reads[l].hi \in Quantities
        /\ run[l] \in Quantities
    BY <1>1, <1>2, RowsFacts
  <2>2. reads[l].hi = Maximum(a.usage.reads[l].hi, b.usage.reads[l].hi)
    BY DEF Alternative, Usage, MostRows, Interval
  <2>3. /\ a.usage.reads[l].hi <= reads[l].hi /\ b.usage.reads[l].hi <= reads[l].hi
        /\ reads[l].hi \in Quantities
    <3>1. LET most == Maximum(a.usage.reads[l].hi, b.usage.reads[l].hi)
          IN  a.usage.reads[l].hi <= most /\ b.usage.reads[l].hi <= most /\ most \in Quantities
      BY <2>1, MaximumAbove, Closed
    <3> QED
      BY <2>2, <3>1
  <2>4. run[l] <= a.usage.reads[l].hi \/ run[l] <= b.usage.reads[l].hi
    BY DEF AlternativeRuns, BoundsRuns
  <2> QED
    BY <2>1, <2>3, <2>4, Transitive
<1> QED
  BY <1>3, <1>4, <1>5, BoundsOfPart

\* A scaled part bounds its runs.
LEMMA ScaleSound ==
  ASSUME NEW a, PartOK(a), BoundsRuns(a), NEW q \in Quantities
  PROVE  BoundsRuns(Part(Scale(q, a.usage), ScaleRuns(q, a.runs), a.captured))
<1> DEFINE paths == Scale(q, a.usage).paths
           runs == ScaleRuns(q, a.runs)
           reads == Scale(q, a.usage).reads
<1>1. /\ a.usage.paths \subseteq Rows /\ a.usage.reads \in Rows
      /\ a.runs.ends \subseteq Counts /\ a.runs.begins \subseteq Counts
  BY DEF PartOK, Usages, Runs
<1>2. \A r \in Counts, l \in Levels : r[l] \in Quantities
  BY DEF Counts
<1>3. CASE q = Zero
  BY <1>3, LeavesSound DEF BoundsRuns, Part, Scale, ScaleRuns
<1>4. CASE q = One
  <2>1. \A r \in Counts : ScaleCounts(q, r) = r
    BY <1>4 DEF ScaleCounts, Counts, Quantities, Mul, Zero, One, Many
  <2>2. runs.ends = a.runs.ends /\ runs.begins = a.runs.begins
    BY <1>1, <1>4, <2>1 DEF ScaleRuns, Zero, One
  <2> QED
    BY <1>4, <2>2 DEF BoundsRuns, Part, Scale, Zero, One
<1>5. CASE q = Many
  <2>1. paths = {ScaleMap(Many, p) : p \in a.usage.paths} /\ reads = ScaleMap(Many, a.usage.reads)
    BY <1>5 DEF Scale, Usage, Zero, One, Many
  <2>2. /\ runs.ends = {ScaleCounts(Many, r) : r \in a.runs.ends}
        /\ runs.begins = {ScaleCounts(Many, r) : r \in a.runs.begins}
    BY <1>5 DEF ScaleRuns, Zero, Many
  <2>3. paths = {} => runs.ends = {}
    BY <2>1, <2>2 DEF BoundsRuns
  <2>4. ASSUME NEW p \in paths, NEW run \in runs.ends, NEW l \in Levels
        PROVE  p[l].lo <= run[l] /\ run[l] <= p[l].hi
    <3>1. PICK pa \in a.usage.paths : p = ScaleMap(Many, pa)
      BY <2>1
    <3>2. PICK ra \in a.runs.ends : run = ScaleCounts(Many, ra)
      BY <2>2
    <3>3. pa[l].lo <= ra[l] /\ ra[l] <= pa[l].hi
      BY DEF BoundsRuns
    <3>4. pa[l].lo \in Quantities /\ ra[l] \in Quantities /\ pa[l].hi \in Quantities
      BY <1>1, <1>2, RowsFacts
    <3>5. Mul(Many, pa[l].lo) <= Mul(Many, ra[l]) /\ Mul(Many, ra[l]) <= Mul(Many, pa[l].hi)
      BY <1>5, <3>3, <3>4, MulMonotone
    <3> QED
      BY <3>1, <3>2, <3>5 DEF ScaleMap, ScaleCounts, Interval
  <2>5. ASSUME NEW run \in runs.begins, NEW l \in Levels PROVE run[l] <= reads[l].hi
    <3>1. PICK ra \in a.runs.begins : run = ScaleCounts(Many, ra)
      BY <2>2
    <3>2. ra[l] <= a.usage.reads[l].hi
      BY DEF BoundsRuns
    <3>3. ra[l] \in Quantities /\ a.usage.reads[l].hi \in Quantities
      BY <1>1, <1>2, RowsFacts
    <3>4. Mul(Many, ra[l]) <= Mul(Many, a.usage.reads[l].hi)
      BY <1>5, <3>2, <3>3, MulMonotone
    <3> QED
      BY <2>1, <3>1, <3>4 DEF ScaleMap, ScaleCounts, Interval
  <2> QED
    BY <2>3, <2>4, <2>5, BoundsOfPart
<1> QED
  BY <1>3, <1>4, <1>5 DEF Quantities

\* A closure bounds the runs of its body.
LEMMA CapturesSound ==
  ASSUME NEW a, PartOK(a), BoundsRuns(a)
  PROVE  BoundsRuns(Part(Captures(a.usage), a.runs, TRUE))
<1> DEFINE paths == Captures(a.usage).paths
<1>1. /\ a.usage.paths \subseteq Rows /\ a.usage.reads \in Rows /\ a.runs.ends \subseteq Counts
  BY DEF PartOK, Usages, Runs
<1>2. \A r \in Counts, l \in Levels : r[l] \in Quantities
  BY DEF Counts
<1>3. paths = {} => a.runs.ends = {}
  BY DEF BoundsRuns, Captures, Usage
<1>4. ASSUME NEW p \in paths, NEW run \in a.runs.ends, NEW l \in Levels
      PROVE  p[l].lo <= run[l] /\ run[l] <= p[l].hi
  <2>1. PICK pa \in a.usage.paths : p = CaptureRows(pa, a.usage.reads)
    BY DEF BoundsRuns, Captures, Usage
  <2>2. pa[l].lo <= run[l] /\ run[l] <= pa[l].hi
    BY DEF BoundsRuns
  <2>3. /\ pa[l].hi \in Quantities /\ run[l] \in Quantities /\ a.usage.reads[l].hi \in Quantities
    BY <1>1, <1>2, RowsFacts
  <2>4. /\ pa[l].hi <= Maximum(pa[l].hi, a.usage.reads[l].hi)
        /\ Maximum(pa[l].hi, a.usage.reads[l].hi) \in Quantities
    BY <2>3, MaximumAbove, Closed
  <2>5. run[l] <= Maximum(pa[l].hi, a.usage.reads[l].hi)
    BY <2>2, <2>3, <2>4, Transitive
  <2> QED
    BY <2>1, <2>2, <2>5 DEF CaptureRows, Interval
<1>5. Captures(a.usage).reads = a.usage.reads
  BY DEF Captures, Usage
<1>6. \A run \in a.runs.begins, l \in Levels : run[l] <= Captures(a.usage).reads[l].hi
  BY <1>5 DEF BoundsRuns
<1> QED
  BY <1>3, <1>4, <1>6, BoundsOfPart

\* A part without a binder bounds its runs.
LEMMA RemoveSound ==
  ASSUME NEW a, PartOK(a), BoundsRuns(a), NEW l \in Levels
  PROVE  BoundsRuns(Part(Remove(a.usage, l), RemoveRuns(a.runs, l), a.captured))
<1>1. /\ a.usage.paths \subseteq Rows /\ a.usage.reads \in Rows
      /\ a.runs.ends \subseteq Counts /\ a.runs.begins \subseteq Counts
  BY DEF PartOK, Usages, Runs
<1>2. \A r \in Counts : \A k \in Levels : Forget(r, l)[k] = IF k = l THEN Zero ELSE r[k]
  BY DEF Counts, Forget
<1>3. \A r \in Rows : \A k \in Levels :
        /\ RemoveMap(l, r)[k].lo = IF k = l THEN Zero ELSE r[k].lo
        /\ RemoveMap(l, r)[k].hi = IF k = l THEN Zero ELSE r[k].hi
  BY DEF Rows, RemoveMap, Interval
<1>4. Zero <= Zero
  BY DEF Zero
<1>5. Remove(a.usage, l).paths = {} => RemoveRuns(a.runs, l).ends = {}
  BY DEF BoundsRuns, Remove, RemoveRuns, Usage
<1>6. ASSUME NEW p \in Remove(a.usage, l).paths, NEW run \in RemoveRuns(a.runs, l).ends, NEW k \in Levels
      PROVE  p[k].lo <= run[k] /\ run[k] <= p[k].hi
  <2>1. PICK pa \in a.usage.paths : p = RemoveMap(l, pa)
    BY DEF Remove, Usage
  <2>2. PICK ra \in a.runs.ends : run = Forget(ra, l)
    BY DEF RemoveRuns
  <2>3. pa[k].lo <= ra[k] /\ ra[k] <= pa[k].hi
    BY DEF BoundsRuns
  <2> QED
    BY <1>1, <1>2, <1>3, <1>4, <2>1, <2>2, <2>3
<1>7. ASSUME NEW run \in RemoveRuns(a.runs, l).begins, NEW k \in Levels
      PROVE  run[k] <= Remove(a.usage, l).reads[k].hi
  <2>1. PICK ra \in a.runs.begins : run = Forget(ra, l)
    BY DEF RemoveRuns
  <2>2. ra[k] <= a.usage.reads[k].hi
    BY DEF BoundsRuns
  <2>3. Remove(a.usage, l).reads = RemoveMap(l, a.usage.reads)
    BY DEF Remove, Usage
  <2> QED
    BY <1>1, <1>2, <1>3, <1>4, <2>1, <2>2, <2>3
<1> QED
  BY <1>5, <1>6, <1>7, BoundsOfPart

-----------------------------------------------------------------------------
(* The invariant.                                                          *)
IInv == TypeOK /\ Sound

\* The invariant holds at first.
LEMMA InitIInv == Init => IInv
<1> SUFFICES ASSUME Init PROVE IInv
  OBVIOUS
<1>1. PartOK(Part(Empty, EmptyRuns, FALSE))
  <2>1. \A p, q \in Empty.paths : p = q
    BY DEF Empty, Usage
  <2> QED
    BY <2>1, LeavesOK DEF PartOK, Part, EmptyRuns
<1> QED
  BY <1>1, LeavesSound DEF Init, IInv, TypeOK, Sound

\* A step that adds a part that keeps the invariant keeps the invariant.
LEMMA BuildKeeps ==
  ASSUME IInv, NEW part, Build(part), PartOK(part), BoundsRuns(part)
  PROVE  IInv'
  BY DEF IInv, TypeOK, Sound, Build

\* Every operation keeps the invariant.
LEMMA NextIInv == IInv /\ [Next]_built => IInv'
<1> SUFFICES ASSUME IInv, [Next]_built PROVE IInv'
  OBVIOUS
<1>1. ASSUME NEW a \in built PROVE PartOK(a) /\ BoundsRuns(a)
  BY DEF IInv, TypeOK, Sound
<1>2. CASE BuildOccurrence
  <2>1. PICK l \in Levels, q \in Quantities : Build(Part(Occurrence(l, q), OccurrenceRuns(l, q), FALSE))
    BY <1>2 DEF BuildOccurrence
  <2>2. \A p, r \in Occurrence(l, q).paths : p = r
    BY DEF Occurrence, Usage
  <2>3. PartOK(Part(Occurrence(l, q), OccurrenceRuns(l, q), FALSE))
    BY <2>2, LeavesOK DEF PartOK, Part, OccurrenceRuns
  <2> QED
    BY <2>1, <2>3, LeavesSound, BuildKeeps
<1>3. CASE BuildUnreachable
  <2>1. PartOK(Part(Unreachable, UnreachableRuns, FALSE))
    BY LeavesOK DEF PartOK, Part, Unreachable, Usage, UnreachableRuns
  <2> QED
    BY <1>3, <2>1, LeavesSound, BuildKeeps DEF BuildUnreachable
<1>4. CASE BuildSequence
  BY <1>1, <1>4, SequenceOK, SequenceSound, BuildKeeps DEF BuildSequence
<1>5. CASE BuildAlternative
  BY <1>1, <1>5, AlternativeOK, AlternativeSound, BuildKeeps DEF BuildAlternative
<1>6. CASE BuildScale
  BY <1>1, <1>6, ScaleOK, ScaleSound, BuildKeeps DEF BuildScale
<1>7. CASE BuildCaptures
  BY <1>1, <1>7, CapturesOK, CapturesSound, BuildKeeps DEF BuildCaptures
<1>8. CASE BuildRemove
  BY <1>1, <1>8, RemoveOK, RemoveSound, BuildKeeps DEF BuildRemove
<1>9. CASE UNCHANGED built
  BY <1>9 DEF IInv, TypeOK, Sound
<1> QED
  BY <1>2, <1>3, <1>4, <1>5, <1>6, <1>7, <1>8, <1>9 DEF Next

\* The usages of quantity.c have their types whatever terms they are built from.
THEOREM TypeCorrect == Spec => []TypeOK
<1>1. IInv => TypeOK
  BY DEF IInv
<1> QED
  BY InitIInv, NextIInv, <1>1, PTL DEF Spec

\* The intervals of quantity.c bound the uses on every path of every term.
THEOREM UsageBounds == Spec => []Sound
<1>1. IInv => Sound
  BY DEF IInv
<1> QED
  BY InitIInv, NextIInv, <1>1, PTL DEF Spec

\* What the checker asks of a usage, answered from the bounds.
LEMMA BoundsAccept ==
  ASSUME NEW part, PartOK(part), BoundsRuns(part)
  PROVE  AcceptsLinear(part)
<1> DEFINE usage == part.usage
<1> SUFFICES ASSUME NEW l \in Levels
    PROVE  /\ ExactlyOnce(l, usage) => \A run \in part.runs.ends : run[l] = One
           /\ AtMostOnce(l, usage) => \A run \in part.runs.ends : run[l] # Many
           /\ AtMostOnce(l, usage) /\ usage.paths = {} => \A run \in part.runs.begins : run[l] # Many
           /\ ~Used(l, usage) => \A run \in part.runs.begins : run[l] = Zero
  BY DEF AcceptsLinear
<1>1. /\ usage.paths \subseteq Rows /\ usage.reads \in Rows
      /\ part.runs.ends \subseteq Counts /\ part.runs.begins \subseteq Counts
  BY DEF PartOK, Usages, Runs
<1>2. \A run \in part.runs.ends : run[l] \in Quantities
  BY <1>1 DEF Counts
<1>3. \A run \in part.runs.begins : run[l] \in Quantities
  BY <1>1 DEF Counts
<1>4. usage.reads[l].hi \in Quantities
  BY <1>1, RowsFacts
<1>5. CASE usage.paths = {}
  <2>1. part.runs.ends = {}
    BY <1>5 DEF BoundsRuns
  <2>2. AtMostOnce(l, usage) => usage.reads[l].hi # Many
    BY <1>4, <1>5 DEF AtMostOnce, Get, Interval, Maximum, Quantities, Zero, One, Many
  <2>3. ASSUME NEW run \in part.runs.begins, AtMostOnce(l, usage) PROVE run[l] # Many
    <3>1. run[l] <= usage.reads[l].hi /\ run[l] \in Quantities
      BY <1>3 DEF BoundsRuns
    <3> QED
      BY <1>4, <2>2, <2>3, <3>1 DEF Quantities, Zero, One, Many
  <2>4. ASSUME NEW run \in part.runs.begins, ~Used(l, usage) PROVE run[l] = Zero
    <3>1. run[l] <= usage.reads[l].hi /\ run[l] \in Quantities
      BY <1>3 DEF BoundsRuns
    <3> QED
      BY <2>4, <3>1 DEF Used, Quantities, Zero, One, Many
  <2> QED
    BY <2>1, <2>3, <2>4
<1>6. CASE usage.paths # {}
  <2>1. PICK rows \in usage.paths : Get(usage, l) = rows[l]
    BY <1>6 DEF Get
  <2>2. rows[l].lo \in Quantities /\ rows[l].hi \in Quantities
    BY <1>1, RowsFacts
  <2>3. ASSUME NEW run \in part.runs.ends
        PROVE  /\ ExactlyOnce(l, usage) => run[l] = One
               /\ AtMostOnce(l, usage) => run[l] # Many
    <3>1. rows[l].lo <= run[l] /\ run[l] <= rows[l].hi /\ run[l] \in Quantities
      BY <1>2 DEF BoundsRuns
    <3>2. ExactlyOnce(l, usage) => rows[l].lo = One /\ rows[l].hi = One
      BY <2>1 DEF ExactlyOnce, Interval
    <3>3. AtMostOnce(l, usage) => rows[l].hi # Many
      BY <2>1 DEF AtMostOnce
    <3> QED
      BY <2>2, <3>1, <3>2, <3>3 DEF Quantities, Zero, One, Many
  <2>4. ASSUME NEW run \in part.runs.begins, ~Used(l, usage) PROVE run[l] = Zero
    <3>1. run[l] <= usage.reads[l].hi /\ run[l] \in Quantities
      BY <1>3 DEF BoundsRuns
    <3> QED
      BY <2>4, <3>1 DEF Used, Quantities, Zero, One, Many
  <2> QED
    BY <1>6, <2>3, <2>4
<1> QED
  BY <1>5, <1>6

\* A linear binder that check_engine_close_valid accepts is used exactly once on every run
\* of its scope that completes, for terms of any size with any number of binders.
THEOREM LinearBinders == Spec => []LinearOnEveryPath
<1>1. IInv => LinearOnEveryPath
  BY BoundsAccept DEF IInv, TypeOK, Sound, LinearOnEveryPath
<1> QED
  BY InitIInv, NextIInv, <1>1, PTL DEF Spec

-----------------------------------------------------------------------------
(* The bounds are met.                                                     *)

\* What it is to meet the bounds of a part, of its usage and its runs.
LEMMA MeetsOfPart ==
  ASSUME NEW usage, NEW runs, NEW captured,
         ~captured => \A p \in usage.paths, l \in Levels :
           /\ \E run \in runs.ends : run[l] = p[l].lo
           /\ \E run \in runs.ends : run[l] = p[l].hi
  PROVE  MeetsBounds(Part(usage, runs, captured))
  BY DEF MeetsBounds, Part

\* The leaves meet the bounds of their runs.
LEMMA LeavesMeet ==
  /\ MeetsBounds(Part(Empty, EmptyRuns, FALSE))
  /\ MeetsBounds(Part(Unreachable, UnreachableRuns, FALSE))
  /\ \A l \in Levels, q \in Quantities : MeetsBounds(Part(Occurrence(l, q), OccurrenceRuns(l, q), FALSE))
<1>1. MeetsBounds(Part(Empty, EmptyRuns, FALSE)) /\ MeetsBounds(Part(Unreachable, UnreachableRuns, FALSE))
  <2>1. \A k \in Levels : NoRows[k].lo = NoUse[k] /\ NoRows[k].hi = NoUse[k]
    BY DEF NoRows, NoUse, Interval
  <2>2. Empty.paths = {NoRows} /\ EmptyRuns.ends = {NoUse} /\ Unreachable.paths = {}
    BY DEF Empty, EmptyRuns, Unreachable, Usage
  <2>3. MeetsBounds(Part(Empty, EmptyRuns, FALSE))
    BY <2>1, <2>2, MeetsOfPart
  <2> QED
    BY <2>2, <2>3, MeetsOfPart
<1>2. ASSUME NEW l \in Levels, NEW q \in Quantities
      PROVE  MeetsBounds(Part(Occurrence(l, q), OccurrenceRuns(l, q), FALSE))
  <2> DEFINE use == [NoUse EXCEPT ![l] = q]
  <2>1. \A k \in Levels : OccurrenceRows(l, q)[k].lo = use[k] /\ OccurrenceRows(l, q)[k].hi = use[k]
    BY Closed DEF OccurrenceRows, NoRows, NoUse, Interval
  <2>2. use \in OccurrenceRuns(l, q).ends /\ Occurrence(l, q).paths = {OccurrenceRows(l, q)}
    BY DEF OccurrenceRuns, Occurrence, Usage
  <2> HIDE DEF use
  <2> QED
    BY <2>1, <2>2, MeetsOfPart
<1> QED
  BY <1>1, <1>2

\* A sequence: the run that uses a binder as seldom in either part does so in both.
LEMMA SequenceMeets ==
  ASSUME NEW a, NEW b, PartOK(a), PartOK(b), MeetsBounds(a), MeetsBounds(b)
  PROVE  MeetsBounds(Part(Sequence(a.usage, b.usage), SequenceRuns(a.runs, b.runs), a.captured \/ b.captured))
<1> DEFINE paths == Sequence(a.usage, b.usage).paths
           runs == SequenceRuns(a.runs, b.runs)
<1>1. \A ra \in a.runs.ends, rb \in b.runs.ends : AddCounts(ra, rb) \in runs.ends
  BY DEF SequenceRuns
<1>2. \A ra, rb : \A l \in Levels : AddCounts(ra, rb)[l] = Add(ra[l], rb[l])
  BY DEF AddCounts
<1>3. ASSUME ~(a.captured \/ b.captured), NEW p \in paths, NEW l \in Levels
      PROVE  /\ \E run \in runs.ends : run[l] = p[l].lo
             /\ \E run \in runs.ends : run[l] = p[l].hi
  <2>1. PICK pa \in a.usage.paths, pb \in b.usage.paths : p = SumRows(pa, pb)
    BY DEF Sequence, Usage
  <2>2. p[l].lo = Add(pa[l].lo, pb[l].lo) /\ p[l].hi = Add(pa[l].hi, pb[l].hi)
    BY <2>1 DEF SumRows, Interval
  <2> HIDE DEF paths, runs
  <2>3. \E run \in runs.ends : run[l] = p[l].lo
    <3>1. PICK ra \in a.runs.ends : ra[l] = pa[l].lo
      BY <1>3 DEF MeetsBounds
    <3>2. PICK rb \in b.runs.ends : rb[l] = pb[l].lo
      BY <1>3 DEF MeetsBounds
    <3> QED
      BY <1>1, <1>2, <2>2, <3>1, <3>2
  <2>4. \E run \in runs.ends : run[l] = p[l].hi
    <3>1. PICK ra \in a.runs.ends : ra[l] = pa[l].hi
      BY <1>3 DEF MeetsBounds
    <3>2. PICK rb \in b.runs.ends : rb[l] = pb[l].hi
      BY <1>3 DEF MeetsBounds
    <3> QED
      BY <1>1, <1>2, <2>2, <3>1, <3>2
  <2> QED
    BY <2>3, <2>4
<1> QED
  BY <1>3, MeetsOfPart

\* Alternatives: the least and the greatest of two bounds is one of them, and a branch that
\* does not complete has no run to be met.
LEMMA AlternativeMeets ==
  ASSUME NEW a, NEW b, PartOK(a), PartOK(b), BoundsRuns(a), BoundsRuns(b), MeetsBounds(a), MeetsBounds(b)
  PROVE  MeetsBounds(Part(Alternative(a.usage, b.usage), AlternativeRuns(a.runs, b.runs),
                          a.captured \/ b.captured))
<1> DEFINE paths == Alternative(a.usage, b.usage).paths
           runs == AlternativeRuns(a.runs, b.runs)
<1>1. a.usage.paths \subseteq Rows /\ b.usage.paths \subseteq Rows
  BY DEF PartOK, Usages
<1>2. runs.ends = a.runs.ends \cup b.runs.ends
  BY DEF AlternativeRuns
<1>3. ASSUME ~(a.captured \/ b.captured), NEW p \in paths, NEW l \in Levels
      PROVE  /\ \E run \in runs.ends : run[l] = p[l].lo
             /\ \E run \in runs.ends : run[l] = p[l].hi
  <2>1. CASE a.usage.paths = {}
    BY <1>2, <1>3, <2>1 DEF MeetsBounds, Alternative, Usage
  <2>2. CASE b.usage.paths = {}
    BY <1>2, <1>3, <2>2 DEF MeetsBounds, Alternative, Usage
  <2>3. CASE a.usage.paths # {} /\ b.usage.paths # {}
    <3>1. PICK pa \in a.usage.paths, pb \in b.usage.paths : p = HullRows(pa, pb)
      BY <2>3 DEF Alternative, Usage
    <3>2. /\ pa[l].lo \in Quantities /\ pa[l].hi \in Quantities
          /\ pb[l].lo \in Quantities /\ pb[l].hi \in Quantities
      BY <1>1, RowsFacts
    <3>3. p[l].lo \in {pa[l].lo, pb[l].lo} /\ p[l].hi \in {pa[l].hi, pb[l].hi}
      <4>1. p[l].lo = Minimum(pa[l].lo, pb[l].lo) /\ p[l].hi = Maximum(pa[l].hi, pb[l].hi)
        BY <3>1 DEF HullRows, Interval
      <4> QED
        BY <3>2, <4>1, MinimumBelow, MaximumAbove
    <3>4. /\ \E run \in a.runs.ends : run[l] = pa[l].lo
          /\ \E run \in a.runs.ends : run[l] = pa[l].hi
          /\ \E run \in b.runs.ends : run[l] = pb[l].lo
          /\ \E run \in b.runs.ends : run[l] = pb[l].hi
      BY <1>3 DEF MeetsBounds
    <3> QED
      BY <1>2, <3>3, <3>4
  <2> QED
    BY <2>1, <2>2, <2>3
<1> QED
  BY <1>3, MeetsOfPart

\* A scaled part: multiplication acts on a bound and on the run that meets it alike.
LEMMA ScaleMeets ==
  ASSUME NEW a, PartOK(a), MeetsBounds(a), NEW q \in Quantities
  PROVE  MeetsBounds(Part(Scale(q, a.usage), ScaleRuns(q, a.runs), a.captured))
<1>1. CASE q = Zero
  BY <1>1, LeavesMeet DEF MeetsBounds, Part, Scale, ScaleRuns
<1>2. CASE q = One
  <2>1. \A r \in Counts : ScaleCounts(q, r) = r
    BY <1>2 DEF ScaleCounts, Counts, Quantities, Mul, Zero, One, Many
  <2>2. a.runs.ends \subseteq Counts
    BY DEF PartOK, Runs
  <2>3. ScaleRuns(q, a.runs).ends = a.runs.ends
    BY <1>2, <2>1, <2>2 DEF ScaleRuns, Zero, One
  <2> QED
    BY <1>2, <2>3 DEF MeetsBounds, Part, Scale, Zero, One
<1>3. CASE q = Many
  <2> DEFINE paths == Scale(q, a.usage).paths
             runs == ScaleRuns(q, a.runs)
  <2>1. paths = {ScaleMap(Many, p) : p \in a.usage.paths}
    BY <1>3 DEF Scale, Usage, Zero, One, Many
  <2>2. runs.ends = {ScaleCounts(Many, r) : r \in a.runs.ends}
    BY <1>3 DEF ScaleRuns, Zero, Many
  <2>3. \A r : \A l \in Levels : ScaleCounts(Many, r)[l] = Mul(Many, r[l])
    BY DEF ScaleCounts
  <2>4. ASSUME ~a.captured, NEW p \in paths, NEW l \in Levels
        PROVE  /\ \E run \in runs.ends : run[l] = p[l].lo
               /\ \E run \in runs.ends : run[l] = p[l].hi
    <3>1. PICK pa \in a.usage.paths : p = ScaleMap(Many, pa)
      BY <2>1
    <3>2. p[l].lo = Mul(Many, pa[l].lo) /\ p[l].hi = Mul(Many, pa[l].hi)
      BY <3>1 DEF ScaleMap, Interval
    <3>3. PICK least \in a.runs.ends : least[l] = pa[l].lo
      BY <2>4 DEF MeetsBounds
    <3>4. PICK most \in a.runs.ends : most[l] = pa[l].hi
      BY <2>4 DEF MeetsBounds
    <3>5. ScaleCounts(Many, least) \in runs.ends /\ ScaleCounts(Many, most) \in runs.ends
      BY <2>2
    <3> HIDE DEF runs
    <3> QED
      BY <2>3, <3>2, <3>3, <3>4, <3>5
  <2> QED
    BY <2>4, MeetsOfPart
<1> QED
  BY <1>1, <1>2, <1>3 DEF Quantities

\* A part without a binder: no run uses it, and the others are met as before.
LEMMA RemoveMeets ==
  ASSUME NEW a, PartOK(a), MeetsBounds(a), NEW l \in Levels
  PROVE  MeetsBounds(Part(Remove(a.usage, l), RemoveRuns(a.runs, l), a.captured))
<1> DEFINE paths == Remove(a.usage, l).paths
           runs == RemoveRuns(a.runs, l)
<1>1. a.usage.paths \subseteq Rows /\ a.runs.ends \subseteq Counts
  BY DEF PartOK, Usages, Runs
<1>2. \A r \in Counts : \A k \in Levels : Forget(r, l)[k] = IF k = l THEN Zero ELSE r[k]
  BY DEF Counts, Forget
<1>3. \A r \in Rows : \A k \in Levels :
        /\ RemoveMap(l, r)[k].lo = IF k = l THEN Zero ELSE r[k].lo
        /\ RemoveMap(l, r)[k].hi = IF k = l THEN Zero ELSE r[k].hi
  BY DEF Rows, RemoveMap, Interval
<1>4. \A r \in a.runs.ends : Forget(r, l) \in runs.ends
  BY DEF RemoveRuns
<1>5. ASSUME ~a.captured, NEW p \in paths, NEW k \in Levels
      PROVE  /\ \E run \in runs.ends : run[k] = p[k].lo
             /\ \E run \in runs.ends : run[k] = p[k].hi
  <2>1. PICK pa \in a.usage.paths : p = RemoveMap(l, pa)
    BY DEF Remove, Usage
  <2>2. PICK least \in a.runs.ends : least[k] = pa[k].lo
    BY <1>5 DEF MeetsBounds
  <2>3. PICK most \in a.runs.ends : most[k] = pa[k].hi
    BY <1>5 DEF MeetsBounds
  <2> HIDE DEF runs
  <2>4. Forget(least, l)[k] = p[k].lo /\ Forget(most, l)[k] = p[k].hi
    BY <1>1, <1>2, <1>3, <2>1, <2>2, <2>3
  <2> QED
    BY <1>4, <2>4
<1> QED
  BY <1>5, MeetsOfPart

LEMMA NextExact == IInv /\ Exact /\ [Next]_built => Exact'
<1> SUFFICES ASSUME IInv, Exact, [Next]_built PROVE Exact'
  OBVIOUS
<1>1. ASSUME NEW a \in built PROVE PartOK(a) /\ BoundsRuns(a) /\ MeetsBounds(a)
  BY DEF IInv, TypeOK, Sound, Exact
<1>2. ASSUME NEW part, Build(part), MeetsBounds(part) PROVE Exact'
  BY <1>2 DEF Exact, Build
<1>3. CASE BuildOccurrence
  BY <1>2, <1>3, LeavesMeet DEF BuildOccurrence
<1>4. CASE BuildUnreachable
  BY <1>2, <1>4, LeavesMeet DEF BuildUnreachable
<1>5. CASE BuildSequence
  BY <1>1, <1>2, <1>5, SequenceMeets DEF BuildSequence
<1>6. CASE BuildAlternative
  BY <1>1, <1>2, <1>6, AlternativeMeets DEF BuildAlternative
<1>7. CASE BuildScale
  BY <1>1, <1>2, <1>7, ScaleMeets DEF BuildScale
<1>8. CASE BuildCaptures
  <2>1. \A usage, runs : MeetsBounds(Part(usage, runs, TRUE))
    BY DEF MeetsBounds, Part
  <2> QED
    BY <1>2, <1>8, <2>1 DEF BuildCaptures
<1>9. CASE BuildRemove
  BY <1>1, <1>2, <1>9, RemoveMeets DEF BuildRemove
<1>10. CASE UNCHANGED built
  BY <1>10 DEF Exact
<1> QED
  BY <1>3, <1>4, <1>5, <1>6, <1>7, <1>8, <1>9, <1>10 DEF Next

\* The intervals of quantity.c are no wider than they must be: where no closure is involved,
\* each bound is the number of uses of a run that completes.
THEOREM UsageExact == Spec => []Exact
<1>1. Init => Exact
  BY LeavesMeet DEF Init, Exact
<1> QED
  BY <1>1, InitIInv, NextIInv, NextExact, PTL DEF Spec
=============================================================================
