---------------------------- MODULE ContextProof ----------------------------
(***************************************************************************)
(* The locals of a context, for any names and any depth: an index and a    *)
(* name find the local that the nesting of the scopes says.  What a tree   *)
(* lists is not computed but found: the invariant says that there are      *)
(* contents for some trees that agree with one another, so that nothing    *)
(* is defined by recursion over trees.                                     *)
(***************************************************************************)
EXTENDS Context, FiniteSetTheorems, SequenceTheorems, WellFoundedInduction, TLAPS

-----------------------------------------------------------------------------
(* Induction and iteration.                                                *)

\* A set of numbers that is not empty has a least member.
LEMMA LeastMember ==
  ASSUME NEW S \in SUBSET Nat, S # {}
  PROVE  \E k \in S : \A j \in S : k <= j
<1>1. PICK n \in S : TRUE
  OBVIOUS
<1> DEFINE B == {0..k : k \in {k \in S : k <= n}}
           U == 0..n
<1>2. IsFiniteSet(U)
  BY FS_Interval
<1>3. B # {} /\ \A T \in B : T \subseteq U
  BY <1>1
<1>4. \E T \in B : \A V \in B : ~(<<V, T>> \in StrictSubsetOrdering(U))
  <2>1. IsWellFoundedOn(StrictSubsetOrdering(U), FiniteSubsetsOf(U))
    BY FS_StrictSubsetOrderingWellFounded
  <2>2. B \subseteq FiniteSubsetsOf(U)
    BY <1>2, <1>3, FS_Subset DEF FiniteSubsetsOf
  <2> HIDE DEF B, U
  <2> QED
    BY <1>3, <2>1, <2>2, WFMin
<1>5. PICK k \in S : k <= n /\ \A V \in B : ~(<<V, 0..k>> \in StrictSubsetOrdering(U))
  BY <1>4
<1>6. ASSUME NEW j \in S, j < k PROVE FALSE
  <2>1. 0..j \in B /\ 0..j \subseteq U /\ 0..k \subseteq U
    BY <1>1, <1>5, <1>6
  <2>2. 0..j \subseteq 0..k /\ k \in 0..k /\ k \notin 0..j
    BY <1>6
  <2> QED
    BY <1>5, <2>1, <2>2 DEF StrictSubsetOrdering
<1> QED
  BY <1>6

\* Induction, as a fact about the set of the numbers for which something holds.
LEMMA Induction ==
  ASSUME NEW Good, 0 \in Good, \A n \in Nat : n \in Good => n + 1 \in Good
  PROVE  \A n \in Nat : n \in Good
<1> DEFINE Bad == {n \in Nat : n \notin Good}
<1> SUFFICES ASSUME Bad # {} PROVE FALSE
  OBVIOUS
<1>1. PICK n \in Bad : \A m \in Bad : n <= m
  <2> HIDE DEF Bad
  <2>1. Bad \in SUBSET Nat
    BY DEF Bad
  <2> QED
    BY <2>1, LeastMember
<1>2. n # 0 /\ n \in Nat
  BY <1>1
<1>3. n - 1 \in Nat /\ n - 1 \notin Bad
  BY <1>1, <1>2
<1> QED
  BY <1>1, <1>2, <1>3

\* The first n steps from a start.
IsRun(step, start, n, g) == g[0] = start /\ \A k \in 1..n : g[k] = step[g[k - 1]]

\* Two runs agree as far as both go.
LEMMA SameRun ==
  ASSUME NEW step, NEW start, NEW n \in Nat, NEW m \in Nat, n <= m, NEW g, NEW h,
         IsRun(step, start, n, g), IsRun(step, start, m, h)
  PROVE  \A k \in 0..n : g[k] = h[k]
<1> DEFINE Good == {k \in Nat : k <= n => g[k] = h[k]}
<1>1. 0 \in Good
  BY DEF IsRun
<1>2. ASSUME NEW k \in Nat, k \in Good PROVE k + 1 \in Good
  <2> SUFFICES ASSUME k + 1 <= n PROVE g[k + 1] = h[k + 1]
    OBVIOUS
  <2>1. g[k] = h[k] /\ k + 1 \in 1..n /\ k + 1 \in 1..m /\ (k + 1) - 1 = k
    BY <1>2
  <2> QED
    BY <2>1 DEF IsRun
<1> HIDE DEF Good
<1>3. \A k \in Nat : k \in Good
  BY <1>1, <1>2, Induction
<1> QED
  BY <1>3 DEF Good

Iterated(S, start, step, at) ==
  at \in [Nat -> S] /\ at[0] = start /\ \A k \in Nat : at[k + 1] = step[at[k]]

\* A step can be taken again and again.
LEMMA Iterates ==
  ASSUME NEW S, NEW start \in S, NEW step \in [S -> S]
  PROVE  \E at : Iterated(S, start, step, at)
<1> DEFINE Run(n) == CHOOSE g \in [0..n -> S] : IsRun(step, start, n, g)
           Good == {n \in Nat : \E g \in [0..n -> S] : IsRun(step, start, n, g)}
<1>1. 0 \in Good
  <2> DEFINE g == [k \in 0..0 |-> start]
  <2>1. g \in [0..0 -> S] /\ IsRun(step, start, 0, g)
    BY DEF IsRun
  <2> QED
    BY <2>1
<1>2. ASSUME NEW n \in Nat, n \in Good PROVE n + 1 \in Good
  <2>1. PICK g \in [0..n -> S] : IsRun(step, start, n, g)
    BY <1>2
  <2> DEFINE h == [k \in 0..(n + 1) |-> IF k = n + 1 THEN step[g[n]] ELSE g[k]]
  <2>2. h \in [0..(n + 1) -> S]
    BY <2>1
  <2>3. h[0] = start /\ \A k \in 1..(n + 1) : h[k] = step[h[k - 1]]
    <3>1. h[0] = start
      BY <2>1 DEF IsRun
    <3>2. ASSUME NEW k \in 1..(n + 1) PROVE h[k] = step[h[k - 1]]
      <4>1. k - 1 \in 0..n /\ h[k - 1] = g[k - 1]
        OBVIOUS
      <4>2. CASE k = n + 1
        BY <4>1, <4>2
      <4>3. CASE k # n + 1
        <5>1. k \in 1..n /\ h[k] = g[k]
          BY <4>3
        <5> QED
          BY <2>1, <4>1, <5>1 DEF IsRun
      <4> QED
        BY <4>2, <4>3
    <3> QED
      BY <3>1, <3>2
  <2> HIDE DEF h
  <2>4. IsRun(step, start, n + 1, h)
    BY <2>3 DEF IsRun
  <2> QED
    BY <2>2, <2>4
<1> HIDE DEF Good
<1>3. \A n \in Nat : n \in Good
  BY <1>1, <1>2, Induction
<1>4. \A n \in Nat : Run(n) \in [0..n -> S] /\ IsRun(step, start, n, Run(n))
  BY <1>3 DEF Good
<1> HIDE DEF Run
<1> DEFINE at == [n \in Nat |-> Run(n)[n]]
<1>5. at \in [Nat -> S]
  BY <1>4
<1>6. at[0] = start
  BY <1>4 DEF IsRun
<1>7. ASSUME NEW k \in Nat PROVE at[k + 1] = step[at[k]]
  <2>1. Run(k)[k] = Run(k + 1)[k]
    <3>1. IsRun(step, start, k, Run(k)) /\ IsRun(step, start, k + 1, Run(k + 1)) /\ k <= k + 1 /\ k + 1 \in Nat
      BY <1>4
    <3>2. \A j \in 0..k : Run(k)[j] = Run(k + 1)[j]
      BY <3>1, SameRun
    <3> QED
      BY <3>2
  <2>2. Run(k + 1)[k + 1] = step[Run(k + 1)[(k + 1) - 1]]
    BY <1>4 DEF IsRun
  <2> QED
    BY <2>1, <2>2
<1> HIDE DEF at
<1>8. Iterated(S, start, step, at)
  BY <1>5, <1>6, <1>7 DEF Iterated
<1> QED
  BY <1>8

-----------------------------------------------------------------------------
(* What the trees list.                                                    *)

\* The list of a tree is its local, then the lists of its sides, which are equally long.
Joins(list, x, left, right) ==
  /\ Len(list) = 1 + Len(left) + Len(right) /\ Len(left) = Len(right) /\ list[1] = x
  /\ \A i \in 1..Len(left) : list[1 + i] = left[i]
  /\ \A i \in 1..Len(right) : list[1 + Len(left) + i] = right[i]
Lists(c, t) ==
  \/ IsLeaf(t) /\ Len(c[t]) = 1 /\ c[t][1] = t[1]
  \/ ~IsLeaf(t) /\ t[2] \in DOMAIN c /\ t[3] \in DOMAIN c /\ Joins(c[t], t[1], c[t[2]], c[t[3]])
Contents(c) == \A t \in DOMAIN c : c[t] \in Seq(Locals) /\ Lists(c, t)

\* The trees of ts list s, one after the other; the list of the j-th starts behind b[j].
Covers(c, ts, s, b) ==
  /\ ts \in Seq(DOMAIN c) /\ s \in Seq(Locals)
  /\ b \in [1..(Len(ts) + 1) -> Nat] /\ b[1] = 0 /\ b[Len(ts) + 1] = Len(s)
  /\ \A j \in 1..Len(ts) : /\ b[j + 1] = b[j] + Len(c[ts[j]])
                           /\ \A i \in 1..Len(c[ts[j]]) : s[b[j] + i] = c[ts[j]][i]
Listed(c, ts, s) == \E b : Covers(c, ts, s, b)

\* The trees when the first local is taken away.
Uncovered(ts) == IF IsLeaf(ts[1]) THEN Tail(ts) ELSE <<ts[1][2], ts[1][3]>> \o Tail(ts)

\* Facts about one tree with contents.
LEMMA TreeFacts ==
  ASSUME NEW c, Contents(c), NEW t \in DOMAIN c
  PROVE  /\ c[t] \in Seq(Locals) /\ Len(c[t]) \in Nat /\ Len(c[t]) >= 1 /\ c[t][1] = t[1] /\ t[1] \in Locals
         /\ ~IsLeaf(t) => t[2] \in DOMAIN c /\ t[3] \in DOMAIN c /\ Joins(c[t], t[1], c[t[2]], c[t[3]])
<1>1. c[t] \in Seq(Locals) /\ Lists(c, t)
  BY DEF Contents
<1>2. Len(c[t]) \in Nat
  BY <1>1
<1>3. CASE IsLeaf(t)
  <2>1. Len(c[t]) = 1 /\ c[t][1] = t[1]
    BY <1>1, <1>3 DEF Lists
  <2> QED
    BY <1>1, <1>3, <2>1
<1>4. CASE ~IsLeaf(t)
  <2>1. t[2] \in DOMAIN c /\ t[3] \in DOMAIN c /\ Joins(c[t], t[1], c[t[2]], c[t[3]])
    BY <1>1, <1>4 DEF Lists
  <2>2. Len(c[t[2]]) \in Nat /\ Len(c[t[3]]) \in Nat
    BY <2>1 DEF Contents
  <2>3. Len(c[t]) >= 1 /\ c[t][1] = t[1]
    BY <2>1, <2>2 DEF Joins
  <2> QED
    BY <1>1, <1>2, <2>1, <2>3
<1> QED
  BY <1>3, <1>4

\* No trees list no locals.
LEMMA NoTrees ==
  ASSUME NEW c, NEW ts, ts = <<>>, NEW s, Listed(c, ts, s)
  PROVE  s = <<>>
  BY DEF Listed, Covers

\* The starts of the lists only grow.
LEMMA StartsGrow ==
  ASSUME NEW c, NEW ts, NEW s, NEW b, Covers(c, ts, s, b), Contents(c),
         NEW j \in 1..(Len(ts) + 1), NEW k \in 1..(Len(ts) + 1), j <= k
  PROVE  b[j] <= b[k]
<1>1. Len(ts) \in Nat /\ \A i \in 1..Len(ts) : b[i] \in Nat /\ b[i + 1] >= b[i]
  <2>1. ts \in Seq(DOMAIN c) /\ b \in [1..(Len(ts) + 1) -> Nat]
    BY DEF Covers
  <2> SUFFICES ASSUME NEW i \in 1..Len(ts) PROVE b[i] \in Nat /\ b[i + 1] >= b[i]
    BY <2>1
  <2>2. b[i + 1] = b[i] + Len(c[ts[i]]) /\ b[i] \in Nat /\ ts[i] \in DOMAIN c
    BY <2>1 DEF Covers
  <2>3. Len(c[ts[i]]) \in Nat
    BY <2>2 DEF Contents
  <2> QED
    BY <2>2, <2>3
<1>2. \A i \in 1..(Len(ts) + 1) : b[i] \in Nat
  BY DEF Covers
<1> DEFINE Good == {n \in Nat : j + n <= Len(ts) + 1 => b[j] <= b[j + n]}
<1>3. 0 \in Good
  BY <1>2
<1>4. ASSUME NEW n \in Nat, n \in Good PROVE n + 1 \in Good
  <2> SUFFICES ASSUME j + (n + 1) <= Len(ts) + 1 PROVE b[j] <= b[j + (n + 1)]
    OBVIOUS
  <2>1. j + n \in 1..Len(ts) /\ j + (n + 1) = (j + n) + 1
    BY <1>1
  <2>2. b[j] <= b[j + n] /\ b[j + n] <= b[(j + n) + 1]
    BY <1>1, <1>4, <2>1
  <2>3. b[j] \in Nat /\ b[j + n] \in Nat /\ b[(j + n) + 1] \in Nat
    BY <1>1, <1>2, <2>1
  <2> QED
    BY <2>1, <2>2, <2>3
<1> HIDE DEF Good
<1>5. \A n \in Nat : n \in Good
  BY <1>3, <1>4, Induction
<1>6. k - j \in Nat /\ j + (k - j) = k
  BY <1>1
<1>7. k - j \in Good
  BY <1>5, <1>6
<1> QED
  BY <1>6, <1>7 DEF Good

\* The first local is the one of the first tree.
Begins(c, ts, s) == \E t \in DOMAIN c : t = ts[1] /\ s[1] = t[1]

\* With the first local taken away the trees list the rest.
LEMMA Uncover ==
  ASSUME NEW c, Contents(c), NEW ts, NEW s, Listed(c, ts, s), ts # <<>>
  PROVE  /\ s # <<>> /\ Begins(c, ts, s)
         /\ Listed(c, Uncovered(ts), Tail(s))
<1>1. PICK b : Covers(c, ts, s, b)
  BY DEF Listed
<1> DEFINE n == Len(ts)
           t == ts[1]
<1>2. /\ ts \in Seq(DOMAIN c) /\ s \in Seq(Locals) /\ n \in Nat /\ n >= 1 /\ t \in DOMAIN c
      /\ b \in [1..(n + 1) -> Nat] /\ b[1] = 0 /\ b[n + 1] = Len(s)
  BY <1>1 DEF Covers
<1>3. \A j \in 1..n : b[j + 1] = b[j] + Len(c[ts[j]]) /\ \A i \in 1..Len(c[ts[j]]) : s[b[j] + i] = c[ts[j]][i]
  BY <1>1 DEF Covers
<1>4. c[t] \in Seq(Locals) /\ Len(c[t]) \in Nat /\ Len(c[t]) >= 1 /\ c[t][1] = t[1]
  BY <1>2, TreeFacts
<1>5. b[2] = Len(c[t]) /\ \A i \in 1..Len(c[t]) : s[i] = c[t][i]
  <2>1. 1 \in 1..n /\ 1 + 1 = 2
    BY <1>2
  <2>2. b[2] = 0 + Len(c[t]) /\ \A i \in 1..Len(c[t]) : s[0 + i] = c[t][i]
    BY <1>2, <1>3, <2>1
  <2> QED
    BY <1>4, <2>2
<1>6. b[2] <= Len(s) /\ \A j \in 2..(n + 1) : b[2] <= b[j]
  <2>1. \A j \in 2..(n + 1) : b[2] <= b[j]
    <3> TAKE j \in 2..(n + 1)
    <3>1. 2 \in 1..(Len(ts) + 1) /\ j \in 1..(Len(ts) + 1) /\ 2 <= j
      BY <1>2
    <3> QED
      BY <1>1, <3>1, StartsGrow
  <2>2. n + 1 \in 2..(n + 1)
    BY <1>2
  <2> QED
    BY <1>2, <2>1, <2>2
<1>7. Len(s) \in Nat /\ Len(s) >= 1 /\ s # <<>> /\ s[1] = t[1]
  BY <1>2, <1>4, <1>5, <1>6
<1>8. Tail(s) \in Seq(Locals) /\ Len(Tail(s)) = Len(s) - 1 /\ \A i \in 1..(Len(s) - 1) : Tail(s)[i] = s[i + 1]
  BY <1>2, <1>7
<1>9. Tail(ts) \in Seq(DOMAIN c) /\ Len(Tail(ts)) = n - 1 /\ \A j \in 1..(n - 1) : Tail(ts)[j] = ts[j + 1]
  BY <1>2
<1> HIDE DEF n, t
<1>10. \A j \in 2..n : b[j] >= 1 /\ \A i \in 1..Len(c[ts[j]]) :
         b[j] - 1 + i \in 1..(Len(s) - 1) /\ Tail(s)[b[j] - 1 + i] = c[ts[j]][i]
  <2> SUFFICES ASSUME NEW j \in 2..n
               PROVE  b[j] >= 1 /\ \A i \in 1..Len(c[ts[j]]) :
                        b[j] - 1 + i \in 1..(Len(s) - 1) /\ Tail(s)[b[j] - 1 + i] = c[ts[j]][i]
    OBVIOUS
  <2>1. j \in 1..n /\ j \in 2..(n + 1) /\ j + 1 \in 1..(n + 1) /\ n + 1 \in 1..(n + 1) /\ j + 1 <= n + 1
    BY <1>2
  <2>2. b[j + 1] <= Len(s)
    BY <1>1, <1>2, <2>1, StartsGrow DEF n
  <2>3. b[j + 1] = b[j] + Len(c[ts[j]]) /\ b[j] >= 1 /\ b[j] \in Nat /\ b[j + 1] \in Nat
    BY <1>2, <1>3, <1>4, <1>5, <1>6, <2>1
  <2>4. ASSUME NEW i \in 1..Len(c[ts[j]])
        PROVE  b[j] - 1 + i \in 1..(Len(s) - 1) /\ Tail(s)[b[j] - 1 + i] = c[ts[j]][i]
    <3>1. ts[j] \in DOMAIN c
      BY <1>2, <2>1 DEF n
    <3>2. Len(c[ts[j]]) \in Nat
      BY <3>1, TreeFacts
    <3>3. b[j] - 1 + i \in 1..(Len(s) - 1) /\ (b[j] - 1 + i) + 1 = b[j] + i
      <4> DEFINE w == Len(c[ts[j]])   here == b[j]   next == b[j + 1]   all == Len(s)
      <4>1. /\ i \in 1..w /\ w \in Nat /\ here \in Nat /\ here >= 1 /\ next = here + w
            /\ next <= all /\ all \in Nat
        BY <1>7, <2>2, <2>3, <3>2
      <4> HIDE DEF w, here, next, all
      <4>2. here - 1 + i \in 1..(all - 1) /\ (here - 1 + i) + 1 = here + i
        BY <4>1
      <4> QED
        BY <4>2 DEF here, all
    <3>4. s[b[j] + i] = c[ts[j]][i]
      BY <1>3, <2>1
    <3> QED
      BY <1>8, <3>3, <3>4
  <2> QED
    BY <2>3, <2>4
<1>11. CASE IsLeaf(t)
  <2> DEFINE d == [j \in 1..n |-> b[j + 1] - 1]
  <2>1. Len(c[t]) = 1
    BY <1>2, <1>11 DEF Contents, Lists, t
  <2>2. d \in [1..n -> Nat] /\ d[1] = 0 /\ d[n] = Len(s) - 1
    BY <1>2, <1>5, <1>6, <2>1
  <2>3. \A j \in 1..(n - 1) : /\ d[j + 1] = d[j] + Len(c[Tail(ts)[j]])
                              /\ \A i \in 1..Len(c[Tail(ts)[j]]) : Tail(s)[d[j] + i] = c[Tail(ts)[j]][i]
    <3> SUFFICES ASSUME NEW j \in 1..(n - 1)
                 PROVE  /\ d[j + 1] = d[j] + Len(c[Tail(ts)[j]])
                        /\ \A i \in 1..Len(c[Tail(ts)[j]]) : Tail(s)[d[j] + i] = c[Tail(ts)[j]][i]
      OBVIOUS
    <3>1. Tail(ts)[j] = ts[j + 1] /\ j + 1 \in 2..n /\ j + 1 \in 1..n
      BY <1>2, <1>9
    <3>2. d[j] = b[j + 1] - 1 /\ d[j + 1] = b[(j + 1) + 1] - 1
      BY <1>2
    <3>3. b[(j + 1) + 1] = b[j + 1] + Len(c[ts[j + 1]]) /\ b[j + 1] \in Nat /\ Len(c[ts[j + 1]]) \in Nat
      <4>1. ts[j + 1] \in DOMAIN c
        BY <1>2, <3>1 DEF n
      <4> QED
        BY <1>2, <1>3, <3>1, <4>1, TreeFacts
    <3> HIDE DEF d
    <3>4. Tail(ts)[j] = ts[j + 1] /\ d[j] = b[j + 1] - 1 /\ d[j + 1] = d[j] + Len(c[ts[j + 1]])
      <4> DEFINE w == Len(c[ts[j + 1]])   bj == b[j + 1]   next == b[(j + 1) + 1]
      <4>1. next = bj + w /\ bj \in Nat /\ w \in Nat /\ d[j] = bj - 1 /\ d[j + 1] = next - 1
        BY <3>2, <3>3
      <4> HIDE DEF w, bj, next
      <4>2. d[j + 1] = d[j] + w
        BY <4>1
      <4> QED
        BY <3>1, <4>1, <4>2 DEF w, bj
    <3>5. \A i \in 1..Len(c[ts[j + 1]]) : Tail(s)[b[j + 1] - 1 + i] = c[ts[j + 1]][i]
      BY <1>10, <3>1
    <3> QED
      BY <3>4, <3>5
  <2>4. Covers(c, Tail(ts), Tail(s), d)
    <3>1. Len(Tail(ts)) + 1 = n
      BY <1>2, <1>9
    <3> QED
      BY <1>8, <1>9, <2>2, <2>3, <3>1 DEF Covers
  <2> QED
    BY <1>2, <1>7, <1>11, <2>4 DEF Uncovered, Listed, Begins, t
<1>12. CASE ~IsLeaf(t)
  <2> DEFINE l == t[2]   r == t[3]   m == Len(c[l])
             us == <<l, r>> \o Tail(ts)
             d == [j \in 1..(n + 2) |-> IF j = 1 THEN 0 ELSE IF j = 2 THEN m ELSE b[j - 1] - 1]
  <2>1. l \in DOMAIN c /\ r \in DOMAIN c /\ Joins(c[t], t[1], c[l], c[r])
    BY <1>2, <1>12, TreeFacts
  <2>2. m \in Nat /\ Len(c[r]) = m /\ Len(c[t]) = 1 + m + m
    BY <2>1, TreeFacts DEF Joins
  <2>3. /\ us \in Seq(DOMAIN c) /\ Len(us) = n + 1 /\ us[1] = l /\ us[2] = r
        /\ \A j \in 3..(n + 1) : us[j] = ts[j - 1]
    <3>1. <<l, r>> \in Seq(DOMAIN c) /\ Len(<<l, r>>) = 2
      BY <2>1
    <3>2. us \in Seq(DOMAIN c) /\ Len(us) = n + 1
      BY <1>2, <1>9, <3>1
    <3>3. \A j \in 1..(n + 1) : us[j] = IF j <= 2 THEN <<l, r>>[j] ELSE Tail(ts)[j - 2]
      BY <1>2, <1>9, <3>1
    <3>4. \A j \in 3..(n + 1) : us[j] = ts[j - 1]
      BY <1>2, <1>9, <3>3
    <3> QED
      BY <1>2, <3>2, <3>3, <3>4
  <2> HIDE DEF us, l, r, m
  <2>4. d \in [1..(n + 2) -> Nat] /\ d[1] = 0 /\ d[n + 2] = Len(s) - 1
    BY <1>2, <1>4, <1>5, <1>6, <2>2
  <2>5. \A i \in 1..m : Tail(s)[i] = c[l][i] /\ Tail(s)[m + i] = c[r][i]
    <3> TAKE i \in 1..m
    <3>1. i \in 1..(Len(s) - 1) /\ m + i \in 1..(Len(s) - 1) /\ 1 + i \in 1..Len(c[t]) /\ 1 + m + i \in 1..Len(c[t])
      BY <1>2, <1>5, <1>6, <1>7, <2>2
    <3>2. Tail(s)[i] = s[i + 1] /\ Tail(s)[m + i] = s[(m + i) + 1]
      BY <1>8, <3>1
    <3>3. i + 1 = 1 + i /\ (m + i) + 1 = 1 + m + i
      BY <2>2
    <3>4. c[t][1 + i] = c[l][i] /\ c[t][1 + m + i] = c[r][i]
      BY <2>1, <2>2 DEF Joins, m
    <3> QED
      BY <1>5, <3>1, <3>2, <3>3, <3>4
  <2>6. \A j \in 1..(n + 1) : /\ d[j + 1] = d[j] + Len(c[us[j]])
                              /\ \A i \in 1..Len(c[us[j]]) : Tail(s)[d[j] + i] = c[us[j]][i]
    <3> SUFFICES ASSUME NEW j \in 1..(n + 1)
                 PROVE  /\ d[j + 1] = d[j] + Len(c[us[j]])
                        /\ \A i \in 1..Len(c[us[j]]) : Tail(s)[d[j] + i] = c[us[j]][i]
      OBVIOUS
    <3>1. CASE j = 1
      <4>1. d[j] = 0 /\ d[j + 1] = m /\ us[j] = l
        BY <1>2, <2>3, <3>1
      <4> HIDE DEF d
      <4>2. d[j + 1] = d[j] + Len(c[us[j]])
        BY <2>2, <4>1 DEF m
      <4>3. \A i \in 1..m : 0 + i = i
        OBVIOUS
      <4>4. \A i \in 1..m : Tail(s)[0 + i] = c[l][i]
        BY <2>5, <4>3
      <4> QED
        BY <4>1, <4>2, <4>4 DEF m
    <3>2. CASE j = 2
      <4>1. d[j] = m /\ d[j + 1] = b[2] - 1
        BY <1>2, <3>2
      <4>2. d[j + 1] = m + m /\ us[j] = r
        BY <1>5, <2>2, <2>3, <3>2, <4>1
      <4> HIDE DEF d
      <4>3. d[j + 1] = d[j] + Len(c[us[j]])
        BY <2>2, <4>1, <4>2
      <4>4. \A i \in 1..Len(c[us[j]]) : Tail(s)[d[j] + i] = c[us[j]][i]
        BY <2>2, <2>5, <4>1, <4>2
      <4> QED
        BY <4>3, <4>4
    <3>3. CASE j \in 3..(n + 1)
      <4>1. us[j] = ts[j - 1] /\ j - 1 \in 2..n /\ j - 1 \in 1..n /\ (j - 1) + 1 = j
        BY <1>2, <2>3, <3>3
      <4>2. d[j] = b[j - 1] - 1 /\ d[j + 1] = b[j] - 1
        BY <1>2, <3>3
      <4>3. b[j] = b[j - 1] + Len(c[ts[j - 1]]) /\ b[j - 1] \in Nat /\ Len(c[ts[j - 1]]) \in Nat
        <5>1. ts[j - 1] \in DOMAIN c
          BY <1>2, <4>1 DEF n
        <5>2. Len(c[ts[j - 1]]) \in Nat
          BY <5>1, TreeFacts
        <5>3. b[(j - 1) + 1] = b[j - 1] + Len(c[ts[j - 1]]) /\ b[j - 1] \in Nat
          BY <1>2, <1>3, <4>1
        <5> QED
          BY <4>1, <5>2, <5>3
      <4>4. us[j] = ts[j - 1] /\ d[j] = b[j - 1] - 1 /\ d[j + 1] = d[j] + Len(c[ts[j - 1]])
        <5> HIDE DEF d
        <5> DEFINE w == Len(c[ts[j - 1]])   here == b[j - 1]   next == b[j]
        <5>1. next = here + w /\ here \in Nat /\ w \in Nat /\ d[j] = here - 1 /\ d[j + 1] = next - 1
          BY <4>2, <4>3
        <5> HIDE DEF w, here, next
        <5>2. d[j + 1] = d[j] + w
          BY <5>1
        <5> QED
          BY <4>1, <5>1, <5>2 DEF w, here
      <4>5. \A i \in 1..Len(c[ts[j - 1]]) : Tail(s)[b[j - 1] - 1 + i] = c[ts[j - 1]][i]
        BY <1>10, <4>1
      <4> HIDE DEF d
      <4> QED
        BY <4>4, <4>5
    <3>4. j = 1 \/ j = 2 \/ j \in 3..(n + 1)
      BY <1>2
    <3> HIDE DEF d
    <3> QED
      BY <3>1, <3>2, <3>3, <3>4
  <2> HIDE DEF d
  <2>7. Covers(c, us, Tail(s), d)
    <3>1. Len(us) + 1 = n + 2
      BY <1>2, <2>3
    <3> QED
      BY <1>8, <2>3, <2>4, <2>6, <3>1 DEF Covers
  <2>8. Uncovered(ts) = us
    BY <1>12 DEF Uncovered, us, l, r, t
  <2> QED
    BY <1>2, <1>7, <2>7, <2>8 DEF Listed, Begins, t
<1> QED
  BY <1>11, <1>12

\* More trees have contents; the others list what they did.
More(c, d) == DOMAIN c \subseteq DOMAIN d /\ \A u \in DOMAIN c : d[u] = c[u]

\* What is listed stays listed when more trees have contents.
LEMMA ListedMore ==
  ASSUME NEW c, NEW d, More(c, d), NEW ts, NEW s, Listed(c, ts, s)
  PROVE  Listed(d, ts, s)
<1>1. PICK b : Covers(c, ts, s, b)
  BY DEF Listed
<1>2. ts \in Seq(DOMAIN c) /\ ts \in Seq(DOMAIN d) /\ Len(ts) \in Nat
  BY <1>1 DEF Covers, More
<1>3. \A j \in 1..Len(ts) : d[ts[j]] = c[ts[j]]
  BY <1>2 DEF More
<1>4. Covers(d, ts, s, b)
  BY <1>1, <1>2, <1>3 DEF Covers
<1> QED
  BY <1>4 DEF Listed

\* A tree that could be built.
Fits(c, t) ==
  \/ \E x \in Locals : t = LLeaf(x)
  \/ \E x \in Locals, l \in DOMAIN c, r \in DOMAIN c : t = LNode(x, l, r) /\ Len(c[l]) = Len(c[r])

\* A tree more gets contents.
LEMMA AddTree ==
  ASSUME NEW c, Contents(c), NEW t, Fits(c, t)
  PROVE  \E d : Contents(d) /\ More(c, d) /\ t \in DOMAIN d
<1>1. CASE t \in DOMAIN c
  BY <1>1 DEF More
<1>2. CASE t \notin DOMAIN c
  <2> DEFINE D == DOMAIN c \cup {t}
             with(list) == [u \in D |-> IF u = t THEN list ELSE c[u]]
  <2>1. ASSUME NEW list \in Seq(Locals),
               \/ IsLeaf(t) /\ Len(list) = 1 /\ list[1] = t[1]
               \/ ~IsLeaf(t) /\ t[2] \in DOMAIN c /\ t[3] \in DOMAIN c /\ Joins(list, t[1], c[t[2]], c[t[3]])
        PROVE  \E d : Contents(d) /\ More(c, d) /\ t \in DOMAIN d
    <3> DEFINE d == with(list)
    <3>1. /\ DOMAIN d = D /\ d[t] = list /\ \A u \in DOMAIN c : d[u] = c[u]
          /\ \A u \in D : u = t \/ u \in DOMAIN c
      BY <1>2
    <3> HIDE DEF d
    <3>2. \A u \in DOMAIN c : u \in DOMAIN d
      BY <3>1
    <3>3. d[t] \in Seq(Locals) /\ Lists(d, t)
      BY <2>1, <3>1, <3>2 DEF Lists
    <3>4. ASSUME NEW u \in DOMAIN c PROVE d[u] \in Seq(Locals) /\ Lists(d, u)
      <4>1. c[u] \in Seq(Locals) /\ Lists(c, u) /\ d[u] = c[u]
        BY <3>1 DEF Contents
      <4> QED
        BY <3>1, <3>2, <4>1 DEF Lists
    <3>5. Contents(d) /\ More(c, d) /\ t \in DOMAIN d
      BY <3>1, <3>3, <3>4 DEF Contents, More
    <3> QED
      BY <3>5
  <2> HIDE DEF with, D
  <2>2. CASE \E x \in Locals : t = LLeaf(x)
    <3>1. PICK x \in Locals : t = LLeaf(x)
      BY <2>2
    <3>2. <<x>> \in Seq(Locals) /\ Len(<<x>>) = 1 /\ <<x>>[1] = x
      OBVIOUS
    <3>3. IsLeaf(t) /\ t[1] = x
      BY <3>1 DEF LLeaf, IsLeaf
    <3> QED
      BY <2>1, <3>2, <3>3
  <2>3. CASE \E x \in Locals, l \in DOMAIN c, r \in DOMAIN c : t = LNode(x, l, r) /\ Len(c[l]) = Len(c[r])
    <3>1. PICK x \in Locals, l \in DOMAIN c, r \in DOMAIN c : t = LNode(x, l, r) /\ Len(c[l]) = Len(c[r])
      BY <2>3
    <3>2. ~IsLeaf(t) /\ t[1] = x /\ t[2] = l /\ t[3] = r
      BY <3>1 DEF LNode, IsLeaf
    <3> DEFINE left == c[l]   right == c[r]   list == (<<x>> \o left) \o right
    <3>3. left \in Seq(Locals) /\ right \in Seq(Locals) /\ Len(left) \in Nat /\ Len(right) = Len(left)
      BY <3>1 DEF Contents
    <3> HIDE DEF left, right
    <3>4. /\ <<x>> \o left \in Seq(Locals) /\ Len(<<x>> \o left) = 1 + Len(left)
          /\ (<<x>> \o left)[1] = x /\ \A i \in 1..Len(left) : (<<x>> \o left)[1 + i] = left[i]
      BY <3>3
    <3>5. /\ list \in Seq(Locals) /\ Len(list) = 1 + Len(left) + Len(right)
          /\ \A i \in 1..(1 + Len(left)) : list[i] = (<<x>> \o left)[i]
          /\ \A i \in 1..Len(right) : list[1 + Len(left) + i] = right[i]
      BY <3>3, <3>4
    <3>6. list[1] = x /\ \A i \in 1..Len(left) : list[1 + i] = left[i]
      BY <3>3, <3>4, <3>5
    <3>7. Joins(list, x, left, right)
      BY <3>3, <3>5, <3>6 DEF Joins
    <3> HIDE DEF list
    <3> QED
      BY <2>1, <3>2, <3>5, <3>7 DEF left, right
  <2> QED
    BY <2>2, <2>3 DEF Fits
<1> QED
  BY <1>1, <1>2

\* A local in front, as a leaf.
LEMMA ConsLeaf ==
  ASSUME NEW c, Contents(c), NEW x \in Locals, LLeaf(x) \in DOMAIN c, NEW ts, NEW s, Listed(c, ts, s)
  PROVE  Listed(c, <<LLeaf(x)>> \o ts, <<x>> \o s)
<1>1. PICK b : Covers(c, ts, s, b)
  BY DEF Listed
<1> DEFINE n == Len(ts)
           us == <<LLeaf(x)>> \o ts
           list == <<x>> \o s
           d == [j \in 1..(n + 2) |-> IF j = 1 THEN 0 ELSE b[j - 1] + 1]
<1>2. /\ ts \in Seq(DOMAIN c) /\ s \in Seq(Locals) /\ n \in Nat /\ Len(s) \in Nat
      /\ b \in [1..(n + 1) -> Nat] /\ b[1] = 0 /\ b[n + 1] = Len(s)
      /\ \A j \in 1..n : b[j + 1] = b[j] + Len(c[ts[j]]) /\ \A i \in 1..Len(c[ts[j]]) : s[b[j] + i] = c[ts[j]][i]
  BY <1>1 DEF Covers
<1>3. c[LLeaf(x)] \in Seq(Locals) /\ Len(c[LLeaf(x)]) = 1 /\ c[LLeaf(x)][1] = x
  <2>1. IsLeaf(LLeaf(x)) /\ LLeaf(x)[1] = x
    BY DEF IsLeaf, LLeaf
  <2> QED
    BY <2>1 DEF Contents, Lists
<1>4. us \in Seq(DOMAIN c) /\ Len(us) = n + 1 /\ us[1] = LLeaf(x) /\ \A j \in 2..(n + 1) : us[j] = ts[j - 1]
  BY <1>2
<1>5. list \in Seq(Locals) /\ Len(list) = Len(s) + 1 /\ list[1] = x /\ \A i \in 2..(Len(s) + 1) : list[i] = s[i - 1]
  BY <1>2
<1>6. d \in [1..(n + 2) -> Nat] /\ d[1] = 0 /\ d[n + 2] = Len(s) + 1 /\ d[2] = 1
  BY <1>2
<1>7. \A j \in 2..(n + 1) : d[j] = b[j - 1] + 1 /\ d[j + 1] = b[j] + 1
  BY <1>2
<1> HIDE DEF us, list, d, n
<1>8. ASSUME NEW j \in 1..(n + 1)
      PROVE  d[j + 1] = d[j] + Len(c[us[j]]) /\ \A i \in 1..Len(c[us[j]]) : list[d[j] + i] = c[us[j]][i]
  <2>1. CASE j = 1
    <3>1. us[j] = LLeaf(x) /\ d[j] = 0 /\ d[j + 1] = 1
      BY <1>2, <1>4, <1>6, <2>1
    <3>2. Len(c[us[j]]) = 1 /\ c[us[j]][1] = x
      BY <1>3, <3>1
    <3>3. d[j + 1] = d[j] + Len(c[us[j]])
      BY <3>1, <3>2
    <3>4. ASSUME NEW i \in 1..Len(c[us[j]]) PROVE list[d[j] + i] = c[us[j]][i]
      <4>1. i = 1 /\ d[j] + i = 1
        BY <3>1, <3>2
      <4> QED
        BY <1>5, <3>2, <4>1
    <3> QED
      BY <3>3, <3>4
  <2>2. CASE j # 1
    <3>1. j \in 2..(n + 1) /\ j - 1 \in 1..n /\ (j - 1) + 1 = j
      BY <1>2, <2>2
    <3> DEFINE u == ts[j - 1]   w == Len(c[u])   bj == b[j - 1]   next == b[j]
    <3>2. us[j] = u /\ d[j] = bj + 1 /\ d[j + 1] = next + 1 /\ next = bj + w /\ bj \in Nat
      <4>1. us[j] = u /\ d[j] = bj + 1 /\ d[j + 1] = next + 1
        BY <1>4, <1>7, <3>1
      <4>2. b[(j - 1) + 1] = bj + w /\ bj \in Nat
        BY <1>2, <3>1
      <4> QED
        BY <3>1, <4>1, <4>2
    <3>3. \A i \in 1..w : s[bj + i] = c[u][i]
      BY <1>2, <3>1
    <3>4. next <= Len(s)
      <4>1. j \in 1..(Len(ts) + 1) /\ n + 1 \in 1..(Len(ts) + 1) /\ j <= n + 1
        BY <1>2 DEF n
      <4>2. b[j] <= b[n + 1]
        BY <1>1, <4>1, StartsGrow
      <4> QED
        BY <1>2, <4>2
    <3>5. w \in Nat
      <4>1. u \in DOMAIN c
        BY <1>2, <3>1 DEF n
      <4> QED
        BY <4>1, TreeFacts
    <3> HIDE DEF u, w, bj, next
    <3>6. \A i \in 1..w : list[bj + 1 + i] = c[u][i]
      <4> TAKE i \in 1..w
      <4>1. bj + 1 + i \in 2..(Len(s) + 1) /\ (bj + 1 + i) - 1 = bj + i
        BY <1>2, <3>2, <3>4, <3>5
      <4> QED
        BY <1>5, <3>3, <4>1
    <3>7. d[j + 1] = d[j] + w
      BY <3>2, <3>5
    <3> QED
      BY <3>2, <3>6, <3>7 DEF w
  <2> QED
    BY <2>1, <2>2
<1>9. Len(us) + 1 = n + 2
  BY <1>2, <1>4
<1>10. Covers(c, us, list, d)
  BY <1>4, <1>5, <1>6, <1>8, <1>9 DEF Covers
<1> QED
  BY <1>10 DEF Listed, us, list

\* A local in front, as the root of the first two trees.
LEMMA ConsNode ==
  ASSUME NEW c, Contents(c), NEW x \in Locals, NEW ts, NEW s, Listed(c, ts, s), Len(ts) >= 2,
         LNode(x, ts[1], ts[2]) \in DOMAIN c
  PROVE  Listed(c, <<LNode(x, ts[1], ts[2])>> \o SubSeq(ts, 3, Len(ts)), <<x>> \o s)
<1>1. PICK b : Covers(c, ts, s, b)
  BY DEF Listed
<1> DEFINE n == Len(ts)
           l == ts[1]
           r == ts[2]
           t == LNode(x, l, r)
           us == <<t>> \o SubSeq(ts, 3, n)
           list == <<x>> \o s
           d == [j \in 1..n |-> IF j = 1 THEN 0 ELSE b[j + 1] + 1]
<1>2. /\ ts \in Seq(DOMAIN c) /\ s \in Seq(Locals) /\ n \in Nat /\ n >= 2 /\ Len(s) \in Nat
      /\ b \in [1..(n + 1) -> Nat] /\ b[1] = 0 /\ b[n + 1] = Len(s)
      /\ \A j \in 1..n : b[j + 1] = b[j] + Len(c[ts[j]]) /\ \A i \in 1..Len(c[ts[j]]) : s[b[j] + i] = c[ts[j]][i]
  BY <1>1 DEF Covers
<1>3. l \in DOMAIN c /\ r \in DOMAIN c /\ \A k \in 1..n : ts[k] \in DOMAIN c
  BY <1>2
<1>4. ~IsLeaf(t) /\ t[1] = x /\ t[2] = l /\ t[3] = r
  BY DEF LNode, IsLeaf
<1> HIDE DEF t
<1>5. t \in DOMAIN c
  BY DEF t
<1>6. Joins(c[t], x, c[l], c[r]) /\ c[t] \in Seq(Locals)
  BY <1>4, <1>5, TreeFacts
<1>7. SubSeq(ts, 3, n) \in Seq(DOMAIN c) /\ Len(SubSeq(ts, 3, n)) = n - 2
      /\ \A j \in 1..(n - 2) : SubSeq(ts, 3, n)[j] = ts[j + 2]
  <2>1. 3 \in 1..(n + 1) /\ n \in 0..n /\ n - 3 + 1 = n - 2 /\ \A j \in 1..(n - 2) : 3 + j - 1 = j + 2
    BY <1>2
  <2> QED
    BY <1>2, <2>1
<1>8. us \in Seq(DOMAIN c) /\ Len(us) = n - 1 /\ us[1] = t /\ \A j \in 2..(n - 1) : us[j] = ts[j + 1]
  <2> DEFINE rest == SubSeq(ts, 3, n)
  <2> HIDE DEF rest
  <2>1. rest \in Seq(DOMAIN c) /\ Len(rest) = n - 2 /\ \A j \in 1..(n - 2) : rest[j] = ts[j + 2]
    BY <1>7 DEF rest
  <2>2. us = <<t>> \o rest
    BY DEF rest
  <2> HIDE DEF us, n
  <2>3. us \in Seq(DOMAIN c) /\ Len(us) = n - 1 /\ us[1] = t /\ \A j \in 2..(n - 1) : us[j] = rest[j - 1]
    BY <1>2, <1>5, <2>1, <2>2
  <2>4. \A j \in 2..(n - 1) : j - 1 \in 1..(n - 2) /\ (j - 1) + 2 = j + 1
    BY <1>2
  <2> QED
    BY <2>1, <2>3, <2>4
<1>9. list \in Seq(Locals) /\ Len(list) = Len(s) + 1 /\ list[1] = x /\ \A i \in 2..(Len(s) + 1) : list[i] = s[i - 1]
  BY <1>2
<1>10. d \in [1..n -> Nat] /\ d[1] = 0 /\ d[n] = Len(s) + 1 /\ d[2] = b[3] + 1
  BY <1>2
<1>11. \A j \in 2..(n - 1) : d[j] = b[j + 1] + 1 /\ d[j + 1] = b[(j + 1) + 1] + 1
  BY <1>2
<1> DEFINE m == Len(c[l])
<1>12. m \in Nat /\ Len(c[r]) = m /\ Len(c[t]) = 1 + m + m
  BY <1>3, <1>6, TreeFacts DEF Joins
<1>13. b[2] = m /\ b[3] = m + m
  <2>1. 1 \in 1..n /\ 2 \in 1..n /\ 1 + 1 = 2 /\ 2 + 1 = 3
    BY <1>2
  <2> QED
    BY <1>2, <1>12, <2>1
<1>14. \A i \in 1..m : s[i] = c[l][i] /\ s[m + i] = c[r][i]
  <2> TAKE i \in 1..m
  <2>1. 1 \in 1..n /\ 2 \in 1..n /\ 0 + i = i
    BY <1>2
  <2>2. s[b[1] + i] = c[l][i] /\ s[b[2] + i] = c[r][i]
    BY <1>2, <1>12, <2>1
  <2> QED
    BY <1>2, <1>13, <2>1, <2>2
<1>15. \A j \in 1..(n + 1) : b[j] <= Len(s)
  <2> TAKE j \in 1..(n + 1)
  <2>1. j \in 1..(Len(ts) + 1) /\ n + 1 \in 1..(Len(ts) + 1) /\ j <= n + 1
    BY <1>2
  <2>2. b[j] <= b[n + 1]
    BY <1>1, <2>1, StartsGrow
  <2> QED
    BY <1>2, <2>2
<1> HIDE DEF us, list, d, n, l, r, m
<1>16. ASSUME NEW j \in 1..(n - 1)
       PROVE  d[j + 1] = d[j] + Len(c[us[j]]) /\ \A i \in 1..Len(c[us[j]]) : list[d[j] + i] = c[us[j]][i]
  <2>1. CASE j = 1
    <3>1. us[j] = t /\ d[j] = 0 /\ d[j + 1] = 1 + m + m
      BY <1>2, <1>8, <1>10, <1>12, <1>13, <2>1
    <3>2. ASSUME NEW i \in 1..(1 + m + m) PROVE list[0 + i] = c[t][i]
      <4>0. m + m <= Len(s) /\ 0 + i = i
        <5>1. 3 \in 1..(n + 1)
          BY <1>2
        <5> QED
          BY <1>13, <1>15, <5>1
      <4>1. CASE i = 1
        BY <1>6, <1>9, <4>0, <4>1 DEF Joins
      <4>2. CASE i \in 2..(1 + m)
        <5>1. i - 1 \in 1..m /\ 1 + (i - 1) = i /\ i \in 2..(Len(s) + 1)
          BY <1>2, <1>12, <4>0, <4>2
        <5>2. c[t][1 + (i - 1)] = c[l][i - 1]
          BY <1>6, <5>1 DEF Joins, m
        <5> QED
          BY <1>9, <1>14, <4>0, <5>1, <5>2
      <4>3. CASE i \in (2 + m)..(1 + m + m)
        <5>1. i - 1 - m \in 1..m /\ 1 + m + (i - 1 - m) = i /\ i \in 2..(Len(s) + 1) /\ m + (i - 1 - m) = i - 1
          BY <1>2, <1>12, <4>0, <4>3
        <5>2. c[t][1 + m + (i - 1 - m)] = c[r][i - 1 - m]
          BY <1>6, <1>12, <5>1 DEF Joins, m
        <5>3. s[m + (i - 1 - m)] = c[r][i - 1 - m]
          BY <1>14, <5>1
        <5> QED
          BY <1>9, <4>0, <5>1, <5>2, <5>3
      <4> QED
        BY <1>12, <4>1, <4>2, <4>3
    <3>3. d[j + 1] = d[j] + Len(c[us[j]])
      BY <1>12, <3>1
    <3> QED
      BY <1>12, <3>1, <3>2, <3>3
  <2>2. CASE j # 1
    <3>1. j \in 2..(n - 1) /\ j + 1 \in 1..n /\ j + 1 \in 1..(n + 1) /\ (j + 1) + 1 \in 1..(n + 1)
      BY <1>2, <2>2
    <3> DEFINE u == ts[j + 1]   w == Len(c[u])   bj == b[j + 1]   next == b[(j + 1) + 1]
    <3>2. us[j] = u /\ d[j] = bj + 1 /\ d[j + 1] = next + 1 /\ next = bj + w /\ bj \in Nat
      BY <1>2, <1>8, <1>11, <3>1
    <3>3. \A i \in 1..w : s[bj + i] = c[u][i]
      BY <1>2, <3>1
    <3>4. next <= Len(s)
      BY <1>15, <3>1
    <3>5. w \in Nat
      <4>1. u \in DOMAIN c
        BY <1>3, <3>1
      <4> QED
        BY <4>1, TreeFacts
    <3> HIDE DEF u, w, bj, next
    <3>6. \A i \in 1..w : list[bj + 1 + i] = c[u][i]
      <4> TAKE i \in 1..w
      <4>1. bj + 1 + i \in 2..(Len(s) + 1) /\ (bj + 1 + i) - 1 = bj + i
        BY <1>2, <3>2, <3>4, <3>5
      <4> QED
        BY <1>9, <3>3, <4>1
    <3>7. d[j + 1] = d[j] + w
      BY <3>2, <3>5
    <3> QED
      BY <3>2, <3>6, <3>7 DEF w
  <2> QED
    BY <2>1, <2>2
<1>17. Len(us) + 1 = n /\ Len(us) = n - 1
  BY <1>2, <1>8
<1>18. Covers(c, us, list, d)
  BY <1>8, <1>9, <1>10, <1>16, <1>17 DEF Covers
<1> QED
  BY <1>18 DEF Listed, us, list, t, l, r, n

-----------------------------------------------------------------------------
(* Cells: trees with their weights.                                        *)

Cells(c) == [weight : Nat, tree : DOMAIN c]
Weighs(c, xs) == xs \in Seq(Cells(c)) /\ \A j \in 1..Len(xs) : xs[j].weight = Len(c[xs[j].tree])
CellsListed(c, xs, s) == Weighs(c, xs) /\ Listed(c, Trees(xs), s)

\* A sequence behind two values.
LEMMA TwoAhead ==
  ASSUME NEW S, NEW x \in S, NEW y \in S, NEW q \in Seq(S)
  PROVE  /\ <<x, y>> \o q \in Seq(S) /\ Len(<<x, y>> \o q) = Len(q) + 2
         /\ (<<x, y>> \o q)[1] = x /\ (<<x, y>> \o q)[2] = y
         /\ \A j \in 3..(Len(q) + 2) : (<<x, y>> \o q)[j] = q[j - 2]
<1> DEFINE both == <<x, y>>
<1>1. both \in Seq(S) /\ Len(both) = 2 /\ both[1] = x /\ both[2] = y /\ Len(q) \in Nat
  OBVIOUS
<1> HIDE DEF both
<1>2. /\ both \o q \in Seq(S) /\ Len(both \o q) = Len(both) + Len(q)
      /\ \A i \in 1..(Len(both) + Len(q)) : (both \o q)[i] = IF i <= Len(both) THEN both[i] ELSE q[i - Len(both)]
  BY <1>1, ConcatProperties
<1> DEFINE us == both \o q
<1> HIDE DEF us
<1>3. us \in Seq(S) /\ Len(us) = Len(q) + 2 /\ \A i \in 1..(Len(q) + 2) : us[i] = IF i <= 2 THEN both[i] ELSE q[i - 2]
  BY <1>1, <1>2 DEF us
<1>4. 1 \in 1..(Len(q) + 2) /\ 2 \in 1..(Len(q) + 2) /\ \A j \in 3..(Len(q) + 2) : j \in 1..(Len(q) + 2) /\ ~(j <= 2)
  BY <1>1
<1>5. us[1] = x /\ us[2] = y /\ \A j \in 3..(Len(q) + 2) : us[j] = q[j - 2]
  BY <1>1, <1>3, <1>4
<1> QED
  BY <1>3, <1>5 DEF us, both

\* The trees of cells, one by one.
LEMMA TreesAre ==
  ASSUME NEW c, NEW xs \in Seq(Cells(c))
  PROVE  /\ Trees(xs) \in Seq(DOMAIN c) /\ Len(Trees(xs)) = Len(xs) /\ Len(xs) \in Nat
         /\ \A j \in 1..Len(xs) : Trees(xs)[j] = xs[j].tree /\ xs[j].tree \in DOMAIN c /\ xs[j].weight \in Nat
<1>1. Len(xs) \in Nat /\ DOMAIN xs = 1..Len(xs) /\ \A j \in 1..Len(xs) : xs[j] \in Cells(c)
  BY LenProperties, ElementOfSeq
<1>2. \A j \in 1..Len(xs) : xs[j].tree \in DOMAIN c /\ xs[j].weight \in Nat
  BY <1>1 DEF Cells
<1>3. Trees(xs) = [j \in 1..Len(xs) |-> xs[j].tree]
  BY <1>1 DEF Trees
<1>4. Trees(xs) \in Seq(DOMAIN c) /\ Len(Trees(xs)) = Len(xs)
  BY <1>1, <1>2, <1>3
<1> QED
  BY <1>1, <1>2, <1>3, <1>4

\* A view shows the first local, and its tail lists the rest.
Views(c, xs, s) ==
  /\ xs = <<>> => s = <<>> /\ LViewTail(xs) = <<>>
  /\ xs # <<>> => s # <<>> /\ LViewHead(xs) = s[1] /\ CellsListed(c, LViewTail(xs), Tail(s))

LEMMA View ==
  ASSUME NEW c, Contents(c), NEW xs, NEW s, CellsListed(c, xs, s)
  PROVE  Views(c, xs, s)
<1> DEFINE ts == Trees(xs)
           n == Len(xs)
           w == xs[1].weight
           t == xs[1].tree
<1>1. xs \in Seq(Cells(c)) /\ \A j \in 1..n : xs[j].weight = Len(c[xs[j].tree])
  BY DEF CellsListed, Weighs
<1>2. /\ ts \in Seq(DOMAIN c) /\ Len(ts) = n /\ n \in Nat
      /\ \A j \in 1..n : ts[j] = xs[j].tree /\ xs[j].tree \in DOMAIN c /\ xs[j].weight \in Nat
  BY <1>1, TreesAre
<1>3. Listed(c, ts, s)
  BY DEF CellsListed
<1>4. CASE xs = <<>>
  <2>1. ts = <<>>
    BY <1>2, <1>4
  <2> QED
    BY <1>3, <1>4, <2>1, NoTrees DEF Views, LViewTail
<1>5. CASE xs # <<>>
  <2>1. n >= 1 /\ Head(xs) = xs[1] /\ ts # <<>> /\ ts[1] = t /\ t \in DOMAIN c /\ w = Len(c[t]) /\ w \in Nat
    BY <1>1, <1>2, <1>5
  <2>2. s # <<>> /\ s[1] = t[1] /\ Listed(c, Uncovered(ts), Tail(s))
    <3> HIDE DEF ts, t
    <3>1. ts # <<>> /\ ts[1] = t
      BY <2>1
    <3>2. s # <<>> /\ Begins(c, ts, s) /\ Listed(c, Uncovered(ts), Tail(s))
      BY <1>3, <3>1, Uncover
    <3> QED
      BY <3>1, <3>2 DEF Begins
  <2>3. LViewHead(xs) = s[1]
    BY <2>1, <2>2 DEF LViewHead
  <2>4. Tail(xs) \in Seq(Cells(c)) /\ Len(Tail(xs)) = n - 1 /\ \A j \in 1..(n - 1) : Tail(xs)[j] = xs[j + 1]
    BY <1>1, <1>5
  <2>5. Tail(ts) \in Seq(DOMAIN c) /\ Len(Tail(ts)) = n - 1 /\ \A j \in 1..(n - 1) : Tail(ts)[j] = ts[j + 1]
    BY <1>2, <2>1
  <2> HIDE DEF ts, n, t, w
  <2>6. Weighs(c, Tail(xs)) /\ Trees(Tail(xs)) = Tail(ts)
    <3>1. Weighs(c, Tail(xs))
      <4>1. \A j \in 1..(n - 1) : j + 1 \in 1..n
        BY <1>2
      <4> QED
        BY <1>1, <2>4, <4>1 DEF Weighs
    <3>2. /\ Trees(Tail(xs)) \in Seq(DOMAIN c) /\ Len(Trees(Tail(xs))) = n - 1
          /\ \A j \in 1..(n - 1) : Trees(Tail(xs))[j] = Tail(xs)[j].tree
      BY <2>4, TreesAre
    <3>3. \A j \in 1..(n - 1) : Trees(Tail(xs))[j] = Tail(ts)[j]
      <4> TAKE j \in 1..(n - 1)
      <4>1. j + 1 \in 1..n
        BY <1>2
      <4> QED
        BY <1>2, <2>4, <2>5, <3>2, <4>1
    <3>4. Trees(Tail(xs)) = Tail(ts)
      BY <2>5, <3>2, <3>3, SeqEqual
    <3> QED
      BY <3>1, <3>4
  <2>7. CASE IsLeaf(t)
    <3>1. LViewTail(xs) = Tail(xs)
      BY <1>5, <2>1, <2>7 DEF LViewTail, t
    <3>2. Uncovered(ts) = Tail(ts)
      BY <2>1, <2>7 DEF Uncovered
    <3> QED
      BY <1>5, <2>2, <2>3, <2>6, <3>1, <3>2 DEF Views, CellsListed
  <2>8. CASE ~IsLeaf(t)
    <3> DEFINE l == t[2]   r == t[3]   half == w \div 2
               both == <<Cell(half, l), Cell(half, r)>>
    <3>1. l \in DOMAIN c /\ r \in DOMAIN c /\ Joins(c[t], t[1], c[l], c[r])
      BY <2>1, <2>8, TreeFacts
    <3>2. Len(c[l]) \in Nat /\ Len(c[r]) = Len(c[l]) /\ w = 1 + Len(c[l]) + Len(c[r])
      BY <2>1, <3>1, TreeFacts DEF Joins
    <3>3. half \in Nat /\ half = Len(c[l]) /\ half = Len(c[r])
      <4> DEFINE m == Len(c[l])
      <4>1. m \in Nat /\ w = 1 + m + m
        BY <3>2
      <4> HIDE DEF m
      <4>2. half = m
        BY <4>1
      <4> QED
        BY <3>2, <4>1, <4>2 DEF m
    <3> HIDE DEF half, l, r
    <3>4. both \in Seq(Cells(c)) /\ Len(both) = 2 /\ both[1] = Cell(half, l) /\ both[2] = Cell(half, r)
      BY <3>1, <3>3 DEF Cells, Cell
    <3>5. LViewTail(xs) = both \o Tail(xs)
      BY <1>5, <2>1, <2>8 DEF LViewTail, t, w, half, l, r
    <3> HIDE DEF both
    <3> DEFINE us == both \o Tail(xs)
    <3>6. /\ us \in Seq(Cells(c)) /\ Len(us) = n + 1 /\ us[1] = Cell(half, l) /\ us[2] = Cell(half, r)
          /\ \A j \in 3..(n + 1) : us[j] = Tail(xs)[j - 2]
      <4> DEFINE rest == Tail(xs)
      <4> HIDE DEF rest
      <4>1. rest \in Seq(Cells(c)) /\ Len(rest) + 2 = n + 1
        BY <1>2, <2>4 DEF rest
      <4>2. Cell(half, l) \in Cells(c) /\ Cell(half, r) \in Cells(c)
        BY <3>1, <3>3 DEF Cells, Cell
      <4>3. us = <<Cell(half, l), Cell(half, r)>> \o rest
        BY DEF both, rest
      <4> HIDE DEF us
      <4>4. /\ us \in Seq(Cells(c)) /\ Len(us) = n + 1 /\ us[1] = Cell(half, l) /\ us[2] = Cell(half, r)
            /\ \A j \in 3..(n + 1) : us[j] = rest[j - 2]
        BY <4>1, <4>2, <4>3, TwoAhead
      <4> QED
        BY <4>4 DEF rest
    <3> HIDE DEF us
    <3>7. Cell(half, l).weight = half /\ Cell(half, l).tree = l /\ Cell(half, r).weight = half /\ Cell(half, r).tree = r
      BY DEF Cell
    <3>8. Weighs(c, us)
      <4>1. ASSUME NEW j \in 1..(n + 1) PROVE us[j].weight = Len(c[us[j].tree])
        <5>1. CASE j = 1
          BY <3>3, <3>6, <3>7, <5>1
        <5>2. CASE j = 2
          BY <3>3, <3>6, <3>7, <5>2
        <5>3. CASE j \in 3..(n + 1)
          <6>0. j - 2 \in 1..(n - 1)
            BY <1>2, <2>1, <5>3
          <6>1. us[j] = Tail(xs)[j - 2] /\ j - 2 \in 1..(n - 1)
            BY <3>6, <5>3, <6>0
          <6> QED
            BY <2>4, <2>6, <6>1 DEF Weighs
        <5> QED
          BY <1>2, <5>1, <5>2, <5>3
      <4> QED
        BY <3>6, <4>1 DEF Weighs
    <3>9. Trees(us) = <<l, r>> \o Tail(ts)
      <4> DEFINE vs == <<l, r>> \o Tail(ts)
             rest == Tail(ts)
      <4> HIDE DEF rest
      <4>1. rest \in Seq(DOMAIN c) /\ Len(rest) + 2 = n + 1
        BY <1>2, <2>5 DEF rest
      <4>2. vs = <<l, r>> \o rest
        BY DEF rest
      <4> HIDE DEF vs
      <4>3. /\ vs \in Seq(DOMAIN c) /\ Len(vs) = n + 1 /\ vs[1] = l /\ vs[2] = r
            /\ \A j \in 3..(n + 1) : vs[j] = rest[j - 2]
        BY <3>1, <4>1, <4>2, TwoAhead
      <4>4. Trees(us) \in Seq(DOMAIN c) /\ Len(Trees(us)) = n + 1 /\ \A j \in 1..(n + 1) : Trees(us)[j] = us[j].tree
        BY <3>6, TreesAre
      <4>5. /\ Tail(ts) = Trees(Tail(xs))
            /\ \A j \in 1..(n - 1) : Trees(Tail(xs))[j] = Tail(xs)[j].tree
        BY <2>4, <2>6, TreesAre
      <4>6. ASSUME NEW j \in 1..(n + 1) PROVE Trees(us)[j] = vs[j]
        <5>1. CASE j = 1
          BY <3>6, <3>7, <4>3, <4>4, <5>1
        <5>2. CASE j = 2
          BY <3>6, <3>7, <4>3, <4>4, <5>2
        <5>3. CASE j \in 3..(n + 1)
          <6>0. j - 2 \in 1..(n - 1)
            BY <1>2, <2>1, <5>3
          <6>1. us[j] = Tail(xs)[j - 2] /\ j - 2 \in 1..(n - 1)
            BY <3>6, <5>3, <6>0
          <6>2. vs[j] = Tail(ts)[j - 2] /\ Trees(us)[j] = us[j].tree
            BY <4>3, <4>4, <5>3 DEF rest
          <6> QED
            BY <4>5, <6>1, <6>2
        <5> QED
          BY <1>2, <5>1, <5>2, <5>3
      <4>7. Trees(us) = vs
        BY <4>3, <4>4, <4>6, SeqEqual
      <4> QED
        BY <4>7 DEF vs, rest
    <3>10. Uncovered(ts) = <<l, r>> \o Tail(ts)
      BY <2>1, <2>8 DEF Uncovered, l, r
    <3>11. LViewTail(xs) = us
      BY <3>5 DEF us
    <3> QED
      BY <1>5, <2>2, <2>3, <3>8, <3>9, <3>10, <3>11 DEF Views, CellsListed
  <2> QED
    BY <2>7, <2>8
<1> QED
  BY <1>4, <1>5

\* More trees have contents; cells list what they did.
LEMMA CellsMore ==
  ASSUME NEW c, NEW d, More(c, d), NEW xs, NEW s, CellsListed(c, xs, s)
  PROVE  CellsListed(d, xs, s)
<1>1. xs \in Seq(Cells(c)) /\ \A j \in 1..Len(xs) : xs[j].weight = Len(c[xs[j].tree])
  BY DEF CellsListed, Weighs
<1>2. Cells(c) \subseteq Cells(d)
  BY DEF Cells, More
<1>3. xs \in Seq(Cells(d))
  BY <1>1, <1>2, SeqMonotonic
<1>4. \A j \in 1..Len(xs) : d[xs[j].tree] = c[xs[j].tree]
  BY <1>1, TreesAre DEF More
<1>5. Weighs(d, xs)
  BY <1>1, <1>3, <1>4 DEF Weighs
<1>6. Listed(d, Trees(xs), s)
  BY ListedMore DEF CellsListed
<1> QED
  BY <1>5, <1>6 DEF CellsListed

\* With a local more there are contents again, and the cells list it in front.
LEMMA Cons ==
  ASSUME NEW c, Contents(c), NEW xs, NEW s, CellsListed(c, xs, s), NEW x \in Locals
  PROVE  \E d : Contents(d) /\ CellsListed(d, LCons(x, xs), Before(x, s))
<1> DEFINE n == Len(xs)
<1>1. xs \in Seq(Cells(c)) /\ \A j \in 1..n : xs[j].weight = Len(c[xs[j].tree])
  BY DEF CellsListed, Weighs
<1>2. /\ n \in Nat
      /\ \A j \in 1..n : xs[j].tree \in DOMAIN c /\ xs[j].weight \in Nat
  BY <1>1, TreesAre
<1>3. CASE n >= 2 /\ xs[1].weight = xs[2].weight
  <2> DEFINE l == xs[1].tree   r == xs[2].tree   t == LNode(x, l, r)
             weight == 1 + xs[1].weight + xs[2].weight
             rest == SubSeq(xs, 3, n)
             us == <<Cell(weight, t)>> \o rest
  <2>1. /\ l \in DOMAIN c /\ r \in DOMAIN c /\ Len(c[l]) = xs[1].weight /\ Len(c[r]) = xs[2].weight
        /\ Len(c[l]) \in Nat
    BY <1>1, <1>2, <1>3
  <2>2. Fits(c, t)
    BY <1>3, <2>1 DEF Fits
  <2>3. PICK d : Contents(d) /\ More(c, d) /\ t \in DOMAIN d
    BY <2>2, AddTree
  <2>4. CellsListed(d, xs, s)
    BY <2>3, CellsMore
  <2>5. xs \in Seq(Cells(d)) /\ \A j \in 1..n : xs[j].weight = Len(d[xs[j].tree])
    BY <2>4 DEF CellsListed, Weighs
  <2>6. /\ Trees(xs) \in Seq(DOMAIN d) /\ Len(Trees(xs)) = n
        /\ \A j \in 1..n : Trees(xs)[j] = xs[j].tree
    BY <2>5, TreesAre
  <2>7. Listed(d, <<t>> \o SubSeq(Trees(xs), 3, n), <<x>> \o s)
    <3>1. Trees(xs)[1] = l /\ Trees(xs)[2] = r
      BY <1>3, <1>2, <2>6
    <3> QED
      BY <1>3, <2>3, <2>4, <2>6, <3>1, ConsNode DEF CellsListed
  <2>8. weight = Len(d[t]) /\ weight \in Nat
    <3>1. ~IsLeaf(t) /\ t[1] = x /\ t[2] = l /\ t[3] = r
      BY DEF LNode, IsLeaf
    <3> HIDE DEF t
    <3>2. Joins(d[t], x, d[l], d[r])
      BY <2>3, <3>1, TreeFacts
    <3>3. d[l] = c[l] /\ d[r] = c[r]
      BY <2>1, <2>3 DEF More
    <3> QED
      BY <1>3, <2>1, <3>2, <3>3 DEF Joins
  <2> HIDE DEF t, weight, n, l, r
  <2>9. rest \in Seq(Cells(d)) /\ Len(rest) = n - 2 /\ \A j \in 1..(n - 2) : rest[j] = xs[j + 2]
    <3>1. n \in Nat /\ n >= 2
      BY <1>2, <1>3
    <3>2. 3 \in 1..(n + 1) /\ n \in 0..n /\ n - 3 + 1 = n - 2
      BY ONLY <3>1
    <3>3. \A j \in 1..(n - 2) : 3 + j - 1 = j + 2
      BY ONLY <3>1
    <3> QED
      BY <2>5, <3>2, <3>3 DEF n
  <2> DEFINE ts == SubSeq(Trees(xs), 3, n)
  <2>10. ts \in Seq(DOMAIN d) /\ Len(ts) = n - 2 /\ \A j \in 1..(n - 2) : ts[j] = Trees(xs)[j + 2]
    <3>1. 3 \in 1..(n + 1) /\ n \in 0..n /\ n - 3 + 1 = n - 2 /\ \A j \in 1..(n - 2) : 3 + j - 1 = j + 2
      BY <1>2, <1>3
    <3> QED
      BY <2>6, <3>1
  <2> HIDE DEF rest, ts
  <2>11. Cell(weight, t) \in Cells(d) /\ Cell(weight, t).weight = weight /\ Cell(weight, t).tree = t
    BY <2>3, <2>8 DEF Cell, Cells
  <2>12. us \in Seq(Cells(d)) /\ Len(us) = n - 1 /\ us[1] = Cell(weight, t) /\ \A j \in 2..(n - 1) : us[j] = rest[j - 1]
    BY <1>2, <1>3, <2>9, <2>11
  <2> DEFINE vs == <<t>> \o ts
  <2>13. vs \in Seq(DOMAIN d) /\ Len(vs) = n - 1 /\ vs[1] = t /\ \A j \in 2..(n - 1) : vs[j] = ts[j - 1]
    BY <1>2, <1>3, <2>3, <2>10
  <2> HIDE DEF us, vs
  <2>14. \A j \in 2..(n - 1) : /\ j - 1 \in 1..(n - 2) /\ (j - 1) + 2 = j + 1 /\ j + 1 \in 1..n
    BY <1>2
  <2>15. \A j \in 2..(n - 1) : us[j] = xs[j + 1] /\ vs[j] = xs[j + 1].tree
    BY <2>6, <2>9, <2>10, <2>12, <2>13, <2>14
  <2>16. Weighs(d, us)
    <3>1. ASSUME NEW j \in 1..(n - 1) PROVE us[j].weight = Len(d[us[j].tree])
      <4>1. CASE j = 1
        BY <2>8, <2>11, <2>12, <4>1
      <4>2. CASE j \in 2..(n - 1)
        BY <2>5, <2>14, <2>15, <4>2
      <4> QED
        BY <1>2, <4>1, <4>2
    <3> QED
      BY <2>12, <3>1 DEF Weighs
  <2>17. Trees(us) = vs
    <3>1. Trees(us) \in Seq(DOMAIN d) /\ Len(Trees(us)) = n - 1 /\ \A j \in 1..(n - 1) : Trees(us)[j] = us[j].tree
      BY <2>12, TreesAre
    <3>2. ASSUME NEW j \in 1..(n - 1) PROVE Trees(us)[j] = vs[j]
      <4>1. CASE j = 1
        BY <2>11, <2>12, <2>13, <3>1, <4>1
      <4>2. CASE j \in 2..(n - 1)
        BY <2>15, <3>1, <4>2
      <4> QED
        BY <1>2, <4>1, <4>2
    <3> QED
      BY <2>13, <3>1, <3>2, SeqEqual
  <2>18. LCons(x, xs) = us
    BY <1>3 DEF LCons, us, rest, weight, t, l, r, n, Before
  <2>19. CellsListed(d, us, Before(x, s))
    BY <2>7, <2>16, <2>17 DEF CellsListed, vs, ts, Before
  <2> QED
    BY <2>3, <2>18, <2>19
<1>4. CASE ~(n >= 2 /\ xs[1].weight = xs[2].weight)
  <2> DEFINE t == LLeaf(x)
             us == <<Cell(1, t)>> \o xs
             vs == <<t>> \o Trees(xs)
  <2>1. Fits(c, t)
    BY DEF Fits
  <2>2. PICK d : Contents(d) /\ More(c, d) /\ t \in DOMAIN d
    BY <2>1, AddTree
  <2>3. CellsListed(d, xs, s)
    BY <2>2, CellsMore
  <2>4. xs \in Seq(Cells(d)) /\ \A j \in 1..n : xs[j].weight = Len(d[xs[j].tree])
    BY <2>3 DEF CellsListed, Weighs
  <2>5. /\ Trees(xs) \in Seq(DOMAIN d) /\ Len(Trees(xs)) = n
        /\ \A j \in 1..n : Trees(xs)[j] = xs[j].tree
    BY <2>4, TreesAre
  <2>6. Listed(d, vs, <<x>> \o s)
    BY <2>2, <2>3, ConsLeaf DEF CellsListed
  <2>7. Len(d[t]) = 1
    <3>1. IsLeaf(t)
      BY DEF IsLeaf, LLeaf
    <3> QED
      BY <2>2, <3>1 DEF Contents, Lists
  <2> HIDE DEF t, n
  <2>8. Cell(1, t) \in Cells(d) /\ Cell(1, t).weight = 1 /\ Cell(1, t).tree = t
    BY <2>2 DEF Cell, Cells
  <2>9. us \in Seq(Cells(d)) /\ Len(us) = n + 1 /\ us[1] = Cell(1, t) /\ \A j \in 2..(n + 1) : us[j] = xs[j - 1]
    BY <1>2, <2>4, <2>8 DEF n
  <2>10. vs \in Seq(DOMAIN d) /\ Len(vs) = n + 1 /\ vs[1] = t /\ \A j \in 2..(n + 1) : vs[j] = Trees(xs)[j - 1]
    BY <1>2, <2>2, <2>5
  <2> HIDE DEF us, vs
  <2>11. \A j \in 2..(n + 1) : j - 1 \in 1..n
    BY <1>2
  <2>12. Weighs(d, us)
    <3>1. ASSUME NEW j \in 1..(n + 1) PROVE us[j].weight = Len(d[us[j].tree])
      <4>1. CASE j = 1
        BY <2>7, <2>8, <2>9, <4>1
      <4>2. CASE j \in 2..(n + 1)
        BY <2>4, <2>9, <2>11, <4>2
      <4> QED
        BY <1>2, <4>1, <4>2
    <3> QED
      BY <2>9, <3>1 DEF Weighs
  <2>13. Trees(us) = vs
    <3>1. Trees(us) \in Seq(DOMAIN d) /\ Len(Trees(us)) = n + 1 /\ \A j \in 1..(n + 1) : Trees(us)[j] = us[j].tree
      BY <2>9, TreesAre
    <3>2. ASSUME NEW j \in 1..(n + 1) PROVE Trees(us)[j] = vs[j]
      <4>1. CASE j = 1
        BY <2>8, <2>9, <2>10, <3>1, <4>1
      <4>2. CASE j \in 2..(n + 1)
        BY <2>5, <2>9, <2>10, <2>11, <3>1, <4>2
      <4> QED
        BY <1>2, <4>1, <4>2
    <3> QED
      BY <2>10, <3>1, <3>2, SeqEqual
  <2>14. LCons(x, xs) = us
    BY <1>4 DEF LCons, us, t, n, Before
  <2>15. CellsListed(d, us, Before(x, s))
    BY <2>6, <2>12, <2>13 DEF CellsListed, Before
  <2> QED
    BY <2>2, <2>14, <2>15
<1> QED
  BY <1>3, <1>4

-----------------------------------------------------------------------------
(* The rest of a sequence.                                                 *)

After(s, m) == SubSeq(s, m + 1, Len(s))

\* What is behind the first m.
LEMMA AfterIs ==
  ASSUME NEW S, NEW s \in Seq(S), NEW m \in Nat, m <= Len(s)
  PROVE  /\ After(s, m) \in Seq(S) /\ (After(s, m) = <<>> => m = Len(s))
         /\ After(s, m) # <<>> => m + 1 \in 1..Len(s) /\ After(s, m)[1] = s[m + 1] /\ Tail(After(s, m)) = After(s, m + 1)
<1>1. Len(s) \in Nat
  OBVIOUS
<1>2. CASE m = Len(s)
  <2>1. After(s, m) = <<>>
    BY <1>1, <1>2, SubSeqEmpty DEF After
  <2> QED
    BY <1>2, <2>1, EmptySeq
<1>3. CASE m < Len(s)
  <2>1. m + 1 \in 1..Len(s) /\ Len(s) \in (m + 1)..Len(s)
    BY <1>1, <1>3
  <2>2. After(s, m) \in Seq(S) /\ Len(After(s, m)) = Len(s) - m
    <3>1. m + 1 \in Int /\ Len(s) \in Int /\ m + 1 <= Len(s) /\ Len(s) - (m + 1) + 1 = Len(s) - m
      BY <1>1, <2>1
    <3>2. \A i \in (m + 1)..Len(s) : s[i] \in S
      BY <1>1
    <3> QED
      BY <3>1, <3>2, SubSeqProperties DEF After
  <2>3. After(s, m) # <<>>
    BY <1>1, <1>3, <2>2
  <2>4. Head(After(s, m)) = s[m + 1] /\ Tail(After(s, m)) = SubSeq(s, (m + 1) + 1, Len(s))
    BY <2>1, HeadTailOfSubSeq DEF After
  <2>5. Head(After(s, m)) = After(s, m)[1]
    BY <2>2, <2>3
  <2> QED
    BY <2>1, <2>2, <2>3, <2>4, <2>5 DEF After
<1> QED
  BY <1>1, <1>2, <1>3

\* All of it is behind nothing.
LEMMA AfterNone ==
  ASSUME NEW S, NEW s \in Seq(S)
  PROVE  After(s, 0) = s
<1>1. SubSeq(s, 1, Len(s)) = s
  BY SubSeqFull
<1>2. 0 + 1 = 1
  OBVIOUS
<1> QED
  BY <1>1, <1>2 DEF After

-----------------------------------------------------------------------------
(* The search for a name.                                                  *)

\* Where a search for x can be: so many locals were passed, and none of them is x.
Passed(c, s, x) ==
  {v \in [view : Seq(Cells(c)), index : Nat] :
     /\ v.index <= Len(s) /\ CellsListed(c, v.view, After(s, v.index))
     /\ \A i \in 1..v.index : s[i] # x}
Found(v, x) == v.view = <<>> \/ LViewHead(v.view) = x

\* A step of the search passes one local, or stays where the search has ended.
LEMMA LookPasses ==
  ASSUME NEW c, Contents(c), NEW s \in Seq(Locals), NEW x, NEW v \in Passed(c, s, x)
  PROVE  /\ Look(x, v) \in Passed(c, s, x)
         /\ Found(v, x) => Look(x, v) = v
         /\ ~Found(v, x) => Look(x, v).index = v.index + 1
<1>1. /\ v.index \in Nat /\ v.index <= Len(s) /\ CellsListed(c, v.view, After(s, v.index))
      /\ v.view \in Seq(Cells(c)) /\ \A i \in 1..v.index : s[i] # x
  BY DEF Passed
<1>2. CASE Found(v, x)
  <2>1. Look(x, v) = v
    BY <1>2 DEF Look, Found
  <2> QED
    BY <1>2, <2>1
<1>3. CASE ~Found(v, x)
  <2> DEFINE m == v.index   rest == After(s, m)   u == [view |-> LViewTail(v.view), index |-> m + 1]
  <2>1. v.view # <<>> /\ LViewHead(v.view) # x
    BY <1>3 DEF Found
  <2>2. Look(x, v) = u
    BY <2>1 DEF Look
  <2>3. rest # <<>> /\ LViewHead(v.view) = rest[1] /\ CellsListed(c, LViewTail(v.view), Tail(rest))
    <3> HIDE DEF rest
    <3>1. CellsListed(c, v.view, rest)
      BY <1>1 DEF rest
    <3> QED
      BY <2>1, <3>1, View DEF Views
  <2>4. m + 1 \in 1..Len(s) /\ rest[1] = s[m + 1] /\ Tail(rest) = After(s, m + 1)
    BY <1>1, <2>3, AfterIs
  <2>5. LViewTail(v.view) \in Seq(Cells(c))
    BY <2>3 DEF CellsListed, Weighs
  <2> HIDE DEF rest, m
  <2>6. u \in [view : Seq(Cells(c)), index : Nat] /\ u.index = m + 1 /\ u.view = LViewTail(v.view)
    BY <2>4, <2>5
  <2>7. \A i \in 1..(m + 1) : s[i] # x
    <3> SUFFICES ASSUME NEW i \in 1..(m + 1) PROVE s[i] # x
      OBVIOUS
    <3>1. CASE i = m + 1
      BY <2>1, <2>3, <2>4, <3>1
    <3>2. CASE i # m + 1
      <4>1. i \in 1..m
        BY <1>1, <3>2 DEF m
      <4> QED
        BY <1>1, <4>1 DEF m
    <3> QED
      BY <3>1, <3>2
  <2> HIDE DEF u
  <2>8. u \in Passed(c, s, x)
    <3>1. u.index <= Len(s)
      BY <2>4, <2>6
    <3>2. CellsListed(c, u.view, After(s, u.index))
      BY <2>3, <2>4, <2>6
    <3> QED
      BY <2>6, <2>7, <3>1, <3>2 DEF Passed
  <2> QED
    BY <1>3, <2>2, <2>6, <2>8 DEF m
<1> QED
  BY <1>2, <1>3

IsLooks(xs, x, at) == at = [k \in Nat |-> IF k = 0 THEN [view |-> xs, index |-> 0] ELSE Look(x, at[k - 1])]

\* A search is a recursive function, chosen by its equation.
LEMMA LooksIsChosen ==
  ASSUME NEW xs, NEW x
  PROVE  Looks(xs, x) = CHOOSE at : IsLooks(xs, x, at)
  BY DEF Looks, IsLooks

\* A search stays among the views, and ends when no local is left to pass.
LEMMA LooksAre ==
  ASSUME NEW c, Contents(c), NEW xs, NEW s \in Seq(Locals), CellsListed(c, xs, s), NEW x
  PROVE  \A k \in Nat : /\ Looks(xs, x)[k] \in Passed(c, s, x)
                        /\ Found(Looks(xs, x)[k], x) \/ Looks(xs, x)[k].index = k
<1> DEFINE S == Passed(c, s, x)
           start == [view |-> xs, index |-> 0]
           step == [v \in S |-> Look(x, v)]
<1>1. start \in S
  <2>1. xs \in Seq(Cells(c))
    BY DEF CellsListed, Weighs
  <2>2. start.view = xs /\ start.index = 0 /\ start \in [view : Seq(Cells(c)), index : Nat]
    BY <2>1
  <2>3. CellsListed(c, start.view, After(s, start.index)) /\ start.index <= Len(s)
    BY <2>2, AfterNone
  <2>4. \A i \in 1..start.index : s[i] # x
    BY <2>2
  <2> HIDE DEF start
  <2> QED
    BY <2>2, <2>3, <2>4 DEF Passed
<1>2. step \in [S -> S]
  BY LookPasses
<1> HIDE DEF S
<1>3. PICK at : at \in [Nat -> S] /\ at[0] = start /\ \A k \in Nat : at[k + 1] = step[at[k]]
  <2> HIDE DEF start, step
  <2>1. \E at : Iterated(S, start, step, at)
    BY <1>1, <1>2, Iterates
  <2> QED
    BY <2>1 DEF Iterated
<1>4. IsLooks(xs, x, at)
  <2>1. ASSUME NEW k \in Nat PROVE at[k] = IF k = 0 THEN start ELSE Look(x, at[k - 1])
    <3>1. CASE k = 0
      BY <1>3, <3>1
    <3>2. CASE k # 0
      <4>1. k - 1 \in Nat /\ (k - 1) + 1 = k
        BY <3>2
      <4>2. at[(k - 1) + 1] = step[at[k - 1]] /\ at[k - 1] \in S
        BY <1>3, <4>1
      <4> QED
        BY <3>2, <4>1, <4>2
    <3> QED
      BY <3>1, <3>2
  <2> HIDE DEF start
  <2>2. at = [k \in Nat |-> IF k = 0 THEN start ELSE Look(x, at[k - 1])]
    BY <1>3, <2>1
  <2> QED
    BY <2>2 DEF IsLooks, start
<1> DEFINE f == Looks(xs, x)
<1>5. IsLooks(xs, x, f)
  BY <1>4, LooksIsChosen
<1>6. f[0] = start /\ \A k \in Nat : f[k + 1] = Look(x, f[k])
  <2>1. \A k \in Nat : f[k] = IF k = 0 THEN start ELSE Look(x, f[k - 1])
    BY <1>5 DEF IsLooks
  <2> HIDE DEF f, start
  <2>2. \A k \in Nat : k + 1 \in Nat /\ k + 1 # 0 /\ (k + 1) - 1 = k
    OBVIOUS
  <2> QED
    BY <2>1, <2>2
<1> HIDE DEF f
<1> DEFINE Good == {k \in Nat : f[k] \in S /\ (Found(f[k], x) \/ f[k].index = k)}
<1>7. 0 \in Good
  BY <1>1, <1>6
<1>8. ASSUME NEW k \in Nat, k \in Good PROVE k + 1 \in Good
  <2>1. f[k] \in Passed(c, s, x) /\ (Found(f[k], x) \/ f[k].index = k) /\ f[k + 1] = Look(x, f[k])
    BY <1>6, <1>8 DEF S
  <2>2. f[k + 1] \in Passed(c, s, x) /\ (Found(f[k], x) => f[k + 1] = f[k]) /\ (~Found(f[k], x) => f[k + 1].index = f[k].index + 1)
    BY <2>1, LookPasses
  <2>3. Found(f[k + 1], x) \/ f[k + 1].index = k + 1
    BY <2>1, <2>2
  <2> QED
    BY <2>2, <2>3 DEF S
<1> HIDE DEF Good
<1>9. \A k \in Nat : k \in Good
  BY <1>7, <1>8, Induction
<1> QED
  BY <1>9 DEF Good, S, f

\* A name means the innermost local that has it.
LEMMA NameIndexIs ==
  ASSUME NEW c, Contents(c), NEW xs, NEW s \in Seq(Locals), Len(s) <= MaxLocals, CellsListed(c, xs, s), NEW x
  PROVE  \/ NameIndex(xs, x) = <<>> /\ \A i \in 1..Len(s) : s[i] # x
         \/ \E m \in 1..Len(s) : NameIndex(xs, x) = <<m - 1>> /\ s[m] = x /\ \A i \in 1..(m - 1) : s[i] # x
<1> DEFINE v == Looks(xs, x)[Steps]   m == v.index   view == v.view   rest == After(s, m)
<1>1. Steps \in Nat /\ Len(s) \in Nat /\ Len(s) < Steps
  BY ContextAssumption DEF Steps
<1>2. v \in Passed(c, s, x) /\ (Found(v, x) \/ m = Steps)
  BY <1>1, LooksAre
<1>3. m \in Nat /\ m <= Len(s) /\ CellsListed(c, v.view, After(s, m)) /\ \A i \in 1..m : s[i] # x
  BY <1>2 DEF Passed
<1>4. Found(v, x)
  BY <1>1, <1>2, <1>3
<1>5. NameIndex(xs, x) = IF view = <<>> THEN <<>> ELSE <<m>>
  BY DEF NameIndex
<1>6. CellsListed(c, view, rest)
  BY <1>3
<1>7. view = <<>> \/ LViewHead(view) = x
  BY <1>4 DEF Found
<1>8. /\ rest = <<>> => m = Len(s)
      /\ rest # <<>> => m + 1 \in 1..Len(s) /\ rest[1] = s[m + 1]
  BY <1>3, AfterIs
<1> HIDE DEF m, v, view, rest
<1>9. Views(c, view, rest)
  BY <1>6, View
<1>10. CASE view = <<>>
  <2>1. rest = <<>>
    BY <1>10, <1>9 DEF Views
  <2> QED
    BY <1>3, <1>5, <1>8, <1>10, <2>1
<1>11. CASE view # <<>>
  <2>1. LViewHead(view) = x
    BY <1>11, <1>7
  <2>2. rest # <<>> /\ LViewHead(view) = rest[1]
    BY <1>11, <1>9 DEF Views
  <2>3. m + 1 \in 1..Len(s) /\ s[m + 1] = x
    BY <1>8, <2>1, <2>2
  <2>4. NameIndex(xs, x) = <<(m + 1) - 1>> /\ (m + 1) - 1 = m
    BY <1>3, <1>5, <1>11
  <2> QED
    BY <1>3, <2>3, <2>4
<1> QED
  BY <1>10, <1>11

-----------------------------------------------------------------------------
(* All of the locals.                                                      *)

\* Where a traversal can be: it has put out so many locals, and the others are to do.
Output(c, s) ==
  {p \in [out : Seq(Locals), todo : Seq(DOMAIN c)] :
     /\ Len(p.out) <= Len(s) /\ Listed(c, p.todo, After(s, Len(p.out)))
     /\ \A i \in 1..Len(p.out) : p.out[i] = s[i]}

\* A step of the traversal puts out one local, or stays when nothing is to do.
LEMMA PushPutsOut ==
  ASSUME NEW c, Contents(c), NEW s \in Seq(Locals), NEW p \in Output(c, s)
  PROVE  /\ Push(p) \in Output(c, s)
         /\ p.todo = <<>> => Push(p) = p
         /\ p.todo # <<>> => Len(Push(p).out) = Len(p.out) + 1
<1> DEFINE out == p.out   todo == p.todo   m == Len(out)   rest == After(s, m)
<1>1. /\ out \in Seq(Locals) /\ todo \in Seq(DOMAIN c) /\ m \in Nat /\ m <= Len(s)
      /\ Listed(c, todo, rest) /\ \A i \in 1..m : out[i] = s[i]
  BY DEF Output
<1>2. CASE todo = <<>>
  <2>1. Push(p) = p
    BY <1>2 DEF Push
  <2> QED
    BY <1>2, <2>1
<1>3. CASE todo # <<>>
  <2> DEFINE t == todo[1]   next == Uncovered(todo)   more == Append(out, t[1])
             q == [out |-> more, todo |-> next]
  <2>1. Head(todo) = t /\ t \in DOMAIN c
    BY <1>1, <1>3
  <2>2. rest # <<>> /\ Begins(c, todo, rest) /\ Listed(c, next, Tail(rest))
    <3> HIDE DEF todo, rest
    <3> QED
      BY <1>1, <1>3, Uncover
  <2>3. rest[1] = t[1]
    BY <2>2 DEF Begins
  <2>4. m + 1 \in 1..Len(s) /\ rest[1] = s[m + 1] /\ Tail(rest) = After(s, m + 1)
    BY <1>1, <2>2, AfterIs
  <2>5. t[1] \in Locals
    BY <2>1, TreeFacts
  <2>6. Push(p) = q
    BY <1>3, <2>1 DEF Push, Uncovered
  <2>7. next \in Seq(DOMAIN c)
    BY <2>2 DEF Listed, Covers
  <2> HIDE DEF next, t, todo, out, rest
  <2>8. more \in Seq(Locals) /\ Len(more) = m + 1 /\ more[m + 1] = t[1] /\ \A i \in 1..m : more[i] = out[i]
    BY <1>1, <2>5
  <2> HIDE DEF more, m
  <2>9. \A i \in 1..(m + 1) : more[i] = s[i]
    <3> SUFFICES ASSUME NEW i \in 1..(m + 1) PROVE more[i] = s[i]
      OBVIOUS
    <3>1. CASE i = m + 1
      BY <2>3, <2>4, <2>8, <3>1
    <3>2. CASE i # m + 1
      <4>1. i \in 1..m
        BY <1>1, <3>2
      <4> QED
        BY <1>1, <2>8, <4>1
    <3> QED
      BY <3>1, <3>2
  <2>10. q \in [out : Seq(Locals), todo : Seq(DOMAIN c)] /\ q.out = more /\ q.todo = next
    BY <2>7, <2>8
  <2> HIDE DEF q
  <2>11. q \in Output(c, s)
    <3>1. Len(q.out) <= Len(s)
      BY <2>4, <2>8, <2>10
    <3>2. Listed(c, q.todo, After(s, Len(q.out)))
      BY <2>2, <2>4, <2>8, <2>10
    <3>3. \A i \in 1..Len(q.out) : q.out[i] = s[i]
      BY <2>8, <2>9, <2>10
    <3> QED
      BY <2>10, <3>1, <3>2, <3>3 DEF Output
  <2> QED
    BY <1>3, <2>6, <2>8, <2>10, <2>11 DEF todo, m, out
<1> QED
  BY <1>2, <1>3

IsPushes(xs, at) ==
  at = [k \in Nat |-> IF k = 0 THEN [out |-> <<>>, todo |-> Trees(xs)] ELSE Push(at[k - 1])]

\* A traversal is a recursive function, chosen by its equation.
LEMMA PushesIsChosen ==
  ASSUME NEW xs
  PROVE  Pushes(xs) = CHOOSE at : IsPushes(xs, at)
  BY DEF Pushes, IsPushes

\* A traversal puts out a local at every step, and ends when nothing is to do.
LEMMA PushesAre ==
  ASSUME NEW c, Contents(c), NEW xs, NEW s \in Seq(Locals), CellsListed(c, xs, s)
  PROVE  \A k \in Nat : /\ Pushes(xs)[k] \in Output(c, s)
                        /\ Pushes(xs)[k].todo = <<>> \/ Len(Pushes(xs)[k].out) = k
<1> DEFINE S == Output(c, s)
           start == [out |-> <<>>, todo |-> Trees(xs)]
           step == [p \in S |-> Push(p)]
<1>1. start \in S
  <2>1. Listed(c, Trees(xs), s) /\ Trees(xs) \in Seq(DOMAIN c)
    BY TreesAre DEF CellsListed, Weighs
  <2>2. start.out = <<>> /\ start.todo = Trees(xs) /\ start \in [out : Seq(Locals), todo : Seq(DOMAIN c)]
    BY <2>1
  <2>3. Len(start.out) = 0 /\ Len(start.out) <= Len(s)
    BY <2>2
  <2>4. Listed(c, start.todo, After(s, Len(start.out)))
    BY <2>1, <2>2, <2>3, AfterNone
  <2>5. \A i \in 1..Len(start.out) : start.out[i] = s[i]
    BY <2>3
  <2> HIDE DEF start
  <2> QED
    BY <2>2, <2>3, <2>4, <2>5 DEF Output
<1>2. step \in [S -> S]
  BY PushPutsOut
<1> HIDE DEF S
<1>3. PICK at : at \in [Nat -> S] /\ at[0] = start /\ \A k \in Nat : at[k + 1] = step[at[k]]
  <2> HIDE DEF start, step
  <2>1. \E at : Iterated(S, start, step, at)
    BY <1>1, <1>2, Iterates
  <2> QED
    BY <2>1 DEF Iterated
<1>4. IsPushes(xs, at)
  <2>1. ASSUME NEW k \in Nat PROVE at[k] = IF k = 0 THEN start ELSE Push(at[k - 1])
    <3>1. CASE k = 0
      BY <1>3, <3>1
    <3>2. CASE k # 0
      <4>1. k - 1 \in Nat /\ (k - 1) + 1 = k
        BY <3>2
      <4>2. at[(k - 1) + 1] = step[at[k - 1]] /\ at[k - 1] \in S
        BY <1>3, <4>1
      <4> QED
        BY <3>2, <4>1, <4>2
    <3> QED
      BY <3>1, <3>2
  <2> HIDE DEF start
  <2>2. at = [k \in Nat |-> IF k = 0 THEN start ELSE Push(at[k - 1])]
    BY <1>3, <2>1
  <2> QED
    BY <2>2 DEF IsPushes, start
<1> DEFINE f == Pushes(xs)
<1>5. IsPushes(xs, f)
  BY <1>4, PushesIsChosen
<1>6. f[0] = start /\ \A k \in Nat : f[k + 1] = Push(f[k])
  <2>1. \A k \in Nat : f[k] = IF k = 0 THEN start ELSE Push(f[k - 1])
    BY <1>5 DEF IsPushes
  <2> HIDE DEF f, start
  <2>2. \A k \in Nat : k + 1 \in Nat /\ k + 1 # 0 /\ (k + 1) - 1 = k
    OBVIOUS
  <2> QED
    BY <2>1, <2>2
<1> HIDE DEF f
<1> DEFINE Good == {k \in Nat : f[k] \in S /\ (f[k].todo = <<>> \/ Len(f[k].out) = k)}
<1>7. 0 \in Good
  BY <1>1, <1>6
<1>8. ASSUME NEW k \in Nat, k \in Good PROVE k + 1 \in Good
  <2>1. f[k] \in Output(c, s) /\ f[k + 1] = Push(f[k])
    BY <1>6, <1>8 DEF S
  <2>2. f[k].todo = <<>> \/ Len(f[k].out) = k
    BY <1>8
  <2>3. f[k + 1] \in Output(c, s)
    BY <2>1, PushPutsOut
  <2>4. f[k].todo = <<>> => f[k + 1] = f[k]
    BY <2>1, PushPutsOut
  <2>5. f[k].todo # <<>> => Len(f[k + 1].out) = Len(f[k].out) + 1
    BY <2>1, PushPutsOut
  <2>6. f[k + 1].todo = <<>> \/ Len(f[k + 1].out) = k + 1
    BY <2>2, <2>4, <2>5
  <2> QED
    BY <2>3, <2>6 DEF S
<1> HIDE DEF Good
<1>9. \A k \in Nat : k \in Good
  BY <1>7, <1>8, Induction
<1> QED
  BY <1>9 DEF Good, S, f

\* The list of a context is the sequence of its locals.
LEMMA ToListIs ==
  ASSUME NEW c, Contents(c), NEW xs, NEW s \in Seq(Locals), Len(s) <= MaxLocals, CellsListed(c, xs, s)
  PROVE  ToList(xs) = s
<1> DEFINE p == Pushes(xs)[Steps]   m == Len(p.out)
<1>1. Steps \in Nat /\ Len(s) \in Nat /\ Len(s) < Steps
  BY ContextAssumption DEF Steps
<1>2. p \in Output(c, s) /\ (p.todo = <<>> \/ m = Steps)
  BY <1>1, PushesAre
<1>3. /\ p.out \in Seq(Locals) /\ m \in Nat /\ m <= Len(s) /\ Listed(c, p.todo, After(s, m))
      /\ \A i \in 1..m : p.out[i] = s[i]
  BY <1>2 DEF Output
<1>4. p.todo = <<>>
  BY <1>1, <1>2, <1>3
<1>5. After(s, m) = <<>>
  BY <1>3, <1>4, NoTrees
<1>6. m = Len(s)
  BY <1>3, <1>5, AfterIs
<1>7. p.out = s
  BY <1>3, <1>6, SeqEqual
<1> QED
  BY <1>7 DEF ToList

-----------------------------------------------------------------------------
(* The local at an index.                                                  *)

\* What can be asked of a tree when x is the answer.
Asks(c, x) ==
  {q \in [weight : Nat, tree : DOMAIN c, i : Nat] :
     q.weight = Len(c[q.tree]) /\ q.i < q.weight /\ c[q.tree][q.i + 1] = x}
Reached(q) == IsLeaf(q.tree) \/ q.i = 0

\* A step down asks a lighter tree for the same local, or stays where it is reached.
LEMMA DownAsks ==
  ASSUME NEW c, Contents(c), NEW x, NEW q \in Asks(c, x)
  PROVE  /\ Down(q) \in Asks(c, x)
         /\ Reached(q) => Down(q) = q
         /\ ~Reached(q) => Down(q).weight < q.weight
<1> DEFINE t == q.tree   w == q.weight   i == q.i   half == w \div 2
<1>1. t \in DOMAIN c /\ w \in Nat /\ i \in Nat /\ w = Len(c[t]) /\ i < w /\ c[t][i + 1] = x
  BY DEF Asks
<1>2. CASE Reached(q)
  <2>1. Down(q) = q
    BY <1>2 DEF Down, Reached
  <2> QED
    BY <1>2, <2>1
<1>3. CASE ~Reached(q)
  <2> DEFINE l == t[2]   r == t[3]   left == Asked(half, l, i - 1)   right == Asked(half, r, i - 1 - half)
  <2>1. ~IsLeaf(t) /\ i # 0
    BY <1>3 DEF Reached
  <2>2. Down(q) = IF i - 1 < half THEN left ELSE right
    <3> HIDE DEF i, t, half
    <3>1. i > 0
      BY <1>1, <2>1
    <3>2. Down(q) = CASE IsLeaf(t) \/ i = 0 -> q
                      [] ~IsLeaf(t) /\ i > 0 /\ i - 1 < half -> left
                      [] OTHER -> right
      BY DEF Down, i, t, half
    <3> HIDE DEF left, right
    <3> QED
      BY <2>1, <3>1, <3>2
  <2>3. l \in DOMAIN c /\ r \in DOMAIN c /\ Joins(c[t], t[1], c[l], c[r])
    BY <1>1, <2>1, TreeFacts
  <2> DEFINE m == Len(c[l])
  <2>4. m \in Nat /\ Len(c[r]) = m /\ w = 1 + m + m
    BY <1>1, <2>3, TreeFacts DEF Joins
  <2>5. /\ \A j \in 1..m : c[t][1 + j] = c[l][j]
        /\ \A j \in 1..m : c[t][1 + m + j] = c[r][j]
    BY <2>3, <2>4 DEF Joins
  <2> HIDE DEF m, t, w, i, l, r
  <2>6. half = m /\ m < w
    BY <2>4
  <2> HIDE DEF half
  <2>7. CASE i - 1 < half
    <3>1. i - 1 \in Nat /\ i \in 1..m /\ (i - 1) + 1 = i /\ i + 1 = 1 + i
      BY <1>1, <2>1, <2>4, <2>6, <2>7
    <3>2. c[l][(i - 1) + 1] = x
      BY <1>1, <2>5, <3>1
    <3>3. left.weight = half /\ left.tree = l /\ left.i = i - 1 /\ left \in [weight : Nat, tree : DOMAIN c, i : Nat]
      BY <2>3, <2>4, <2>6, <3>1 DEF Asked
    <3> HIDE DEF left
    <3>4. left \in Asks(c, x)
      BY <2>6, <2>7, <3>2, <3>3 DEF Asks, m
    <3> QED
      BY <1>3, <2>2, <2>6, <2>7, <3>3, <3>4 DEF w
  <2>8. CASE ~(i - 1 < half)
    <3> DEFINE j == i - 1 - half
    <3>1. j \in Nat /\ j < m /\ j + 1 \in 1..m /\ 1 + m + (j + 1) = i + 1
      BY <1>1, <2>1, <2>4, <2>6, <2>8
    <3> HIDE DEF j
    <3>2. c[r][j + 1] = x
      BY <1>1, <2>5, <3>1
    <3>3. right.weight = half /\ right.tree = r /\ right.i = j /\ right \in [weight : Nat, tree : DOMAIN c, i : Nat]
      BY <2>3, <2>4, <2>6, <3>1 DEF Asked, j
    <3> HIDE DEF right
    <3>4. right \in Asks(c, x)
      BY <2>4, <2>6, <3>1, <3>2, <3>3 DEF Asks
    <3> QED
      BY <1>3, <2>2, <2>6, <2>8, <3>3, <3>4 DEF w
  <2> QED
    BY <2>7, <2>8
<1> QED
  BY <1>2, <1>3

IsDescent(weight, tree, i, at) ==
  at = [k \in Nat |-> IF k = 0 THEN Asked(weight, tree, i) ELSE Down(at[k - 1])]

\* A way down is a recursive function, chosen by its equation.
LEMMA DescentIsChosen ==
  ASSUME NEW weight, NEW tree, NEW i
  PROVE  Descent(weight, tree, i) = CHOOSE at : IsDescent(weight, tree, i, at)
  BY DEF Descent, IsDescent

\* The way down asks for the same local, of a lighter tree at every step until it is reached.
LEMMA DescentAsks ==
  ASSUME NEW c, Contents(c), NEW w, NEW t, NEW i, NEW x, Asked(w, t, i) \in Asks(c, x)
  PROVE  \A k \in Nat : /\ Descent(w, t, i)[k] \in Asks(c, x)
                        /\ Reached(Descent(w, t, i)[k]) \/ Descent(w, t, i)[k].weight + k <= w
<1> DEFINE S == Asks(c, x)
           start == Asked(w, t, i)
           step == [q \in S |-> Down(q)]
<1>1. start \in S /\ start.weight = w /\ w \in Nat
  <2>1. start.weight = w
    BY DEF Asked
  <2> HIDE DEF start
  <2>2. start.weight \in Nat
    BY DEF start, Asks
  <2> QED
    BY <2>1, <2>2 DEF start
<1>2. step \in [S -> S]
  BY DownAsks
<1> HIDE DEF S
<1>3. PICK at : at \in [Nat -> S] /\ at[0] = start /\ \A k \in Nat : at[k + 1] = step[at[k]]
  <2> HIDE DEF start, step
  <2>1. \E at : Iterated(S, start, step, at)
    BY <1>1, <1>2, Iterates
  <2> QED
    BY <2>1 DEF Iterated
<1>4. IsDescent(w, t, i, at)
  <2>1. ASSUME NEW k \in Nat PROVE at[k] = IF k = 0 THEN start ELSE Down(at[k - 1])
    <3>1. CASE k = 0
      BY <1>3, <3>1
    <3>2. CASE k # 0
      <4>1. k - 1 \in Nat /\ (k - 1) + 1 = k
        BY <3>2
      <4>2. at[(k - 1) + 1] = step[at[k - 1]] /\ at[k - 1] \in S
        BY <1>3, <4>1
      <4> QED
        BY <3>2, <4>1, <4>2
    <3> QED
      BY <3>1, <3>2
  <2> HIDE DEF start
  <2>2. at = [k \in Nat |-> IF k = 0 THEN start ELSE Down(at[k - 1])]
    BY <1>3, <2>1
  <2> QED
    BY <2>2 DEF IsDescent, start
<1> DEFINE f == Descent(w, t, i)
<1>5. IsDescent(w, t, i, f)
  BY <1>4, DescentIsChosen
<1>6. f[0] = start /\ \A k \in Nat : f[k + 1] = Down(f[k])
  <2>1. \A k \in Nat : f[k] = IF k = 0 THEN start ELSE Down(f[k - 1])
    BY <1>5 DEF IsDescent
  <2> HIDE DEF f, start
  <2>2. \A k \in Nat : k + 1 \in Nat /\ k + 1 # 0 /\ (k + 1) - 1 = k
    OBVIOUS
  <2> QED
    BY <2>1, <2>2
<1> HIDE DEF f, start
<1> DEFINE Good == {k \in Nat : f[k] \in S /\ (Reached(f[k]) \/ f[k].weight + k <= w)}
<1>7. 0 \in Good
  BY <1>1, <1>6
<1>8. ASSUME NEW k \in Nat, k \in Good PROVE k + 1 \in Good
  <2>1. f[k] \in Asks(c, x) /\ f[k + 1] = Down(f[k])
    BY <1>6, <1>8 DEF S
  <2>2. Reached(f[k]) \/ f[k].weight + k <= w
    BY <1>8
  <2>3. f[k + 1] \in Asks(c, x)
    BY <2>1, DownAsks
  <2>4. Reached(f[k]) => f[k + 1] = f[k]
    BY <2>1, DownAsks
  <2>5. ~Reached(f[k]) => f[k + 1].weight < f[k].weight
    BY <2>1, DownAsks
  <2>6. f[k].weight \in Nat /\ f[k + 1].weight \in Nat
    BY <2>1, <2>3 DEF Asks
  <2>7. Reached(f[k + 1]) \/ f[k + 1].weight + (k + 1) <= w
    <3>1. CASE Reached(f[k])
      BY <2>4, <3>1
    <3>2. CASE ~Reached(f[k])
      <4> DEFINE before == f[k].weight   behind == f[k + 1].weight
      <4>1. before \in Nat /\ behind \in Nat /\ behind < before /\ before + k <= w
        BY <2>2, <2>5, <2>6, <3>2
      <4> HIDE DEF before, behind
      <4>2. behind + (k + 1) <= w
        BY <1>1, <4>1
      <4> QED
        BY <4>2 DEF behind
    <3> QED
      BY <3>1, <3>2
  <2> QED
    BY <2>3, <2>7 DEF S
<1> HIDE DEF Good
<1>9. \A k \in Nat : k \in Good
  BY <1>7, <1>8, Induction
<1> QED
  BY <1>9 DEF Good, S, f

\* The way down in a tree ends at the local that the index means in its list.
LEMMA LTreeGetIs ==
  ASSUME NEW c, Contents(c), NEW t \in DOMAIN c, NEW w, w = Len(c[t]), w <= MaxLocals, NEW i \in Nat, i < w
  PROVE  LTreeGet(w, t, i) = c[t][i + 1]
<1> DEFINE x == c[t][i + 1]
           q == Descent(w, t, i)[Steps]
<1>1. w \in Nat
  BY TreeFacts
<1>2. Asked(w, t, i) \in Asks(c, x)
  BY <1>1 DEF Asked, Asks
<1>3. Steps \in Nat /\ w < Steps
  BY <1>1, ContextAssumption DEF Steps
<1> HIDE DEF x
<1>4. q \in Asks(c, x) /\ (Reached(q) \/ q.weight + Steps <= w)
  BY <1>2, <1>3, DescentAsks
<1> HIDE DEF q
<1>5. q.tree \in DOMAIN c /\ q.weight \in Nat /\ q.i \in Nat /\ q.weight = Len(c[q.tree]) /\ q.i < q.weight /\ c[q.tree][q.i + 1] = x
  BY <1>4 DEF Asks
<1>6. Reached(q)
  BY <1>1, <1>3, <1>4, <1>5
<1>7. q.i = 0
  <2>1. CASE IsLeaf(q.tree)
    <3>1. Len(c[q.tree]) = 1
      BY <1>5, <2>1 DEF Contents, Lists
    <3> QED
      BY <1>5, <3>1
  <2> QED
    BY <1>6, <2>1 DEF Reached
<1>8. c[q.tree][1] = x
  BY <1>5, <1>7
<1>9. q.tree[1] = x
  BY <1>5, <1>8, TreeFacts
<1> QED
  BY <1>9 DEF LTreeGet, q, x

\* What is left of the index behind each cell: the index, less where the next list starts.
IsRests(xs, i, rest) == rest = [k \in 0..Len(xs) |-> IF k = 0 THEN i ELSE rest[k - 1] - xs[k].weight]

\* What is left of an index is a recursive function, chosen by its equation.
LEMMA RestsIsChosen ==
  ASSUME NEW xs, NEW i
  PROVE  Rests(xs, i) = CHOOSE rest : IsRests(xs, i, rest)
  BY DEF Rests, IsRests

\* The starts of the lists of cells.
Starts(c, xs, s, b) ==
  /\ Weighs(c, xs) /\ b \in [1..(Len(xs) + 1) -> Nat] /\ b[1] = 0 /\ b[Len(xs) + 1] = Len(s)
  /\ \A k \in 1..Len(xs) : /\ b[k + 1] = b[k] + xs[k].weight /\ b[k + 1] <= Len(s)
                           /\ \A j \in 1..xs[k].weight : s[b[k] + j] = c[xs[k].tree][j]

\* Cells that list something have starts.
LEMMA HasStarts ==
  ASSUME NEW c, Contents(c), NEW xs, NEW s, CellsListed(c, xs, s)
  PROVE  \E b : Starts(c, xs, s, b)
<1> DEFINE n == Len(xs)   ts == Trees(xs)
<1>1. xs \in Seq(Cells(c)) /\ \A k \in 1..n : xs[k].weight = Len(c[xs[k].tree])
  BY DEF CellsListed, Weighs
<1>2. n \in Nat /\ Len(ts) = n /\ \A k \in 1..n : ts[k] = xs[k].tree
  BY <1>1, TreesAre
<1>3. PICK b : Covers(c, ts, s, b)
  BY DEF CellsListed, Listed
<1>4. /\ b \in [1..(n + 1) -> Nat] /\ b[1] = 0 /\ b[n + 1] = Len(s)
      /\ \A k \in 1..n : b[k + 1] = b[k] + Len(c[ts[k]]) /\ \A j \in 1..Len(c[ts[k]]) : s[b[k] + j] = c[ts[k]][j]
  BY <1>2, <1>3 DEF Covers
<1> HIDE DEF ts
<1>5. ASSUME NEW k \in 1..n
      PROVE  /\ b[k + 1] = b[k] + xs[k].weight /\ b[k + 1] <= Len(s)
             /\ \A j \in 1..xs[k].weight : s[b[k] + j] = c[xs[k].tree][j]
  <2>1. ts[k] = xs[k].tree /\ xs[k].weight = Len(c[xs[k].tree])
    BY <1>1, <1>2
  <2>2. k + 1 \in 1..(Len(ts) + 1) /\ n + 1 \in 1..(Len(ts) + 1) /\ k + 1 <= n + 1
    BY <1>2
  <2>3. b[k + 1] <= b[n + 1]
    BY <1>3, <2>2, StartsGrow
  <2> QED
    BY <1>4, <2>1, <2>3
<1>6. Weighs(c, xs)
  BY DEF CellsListed
<1>7. Starts(c, xs, s, b)
  BY <1>4, <1>5, <1>6 DEF Starts
<1> QED
  BY <1>7

\* Behind so many cells the index is less by what they list.
LEMMA RestsAre ==
  ASSUME NEW c, NEW xs, NEW s, NEW b, Starts(c, xs, s, b), NEW i \in Nat
  PROVE  \A k \in 0..Len(xs) : Rests(xs, i)[k] = i - b[k + 1]
<1> DEFINE n == Len(xs)
           h == [k \in 0..n |-> i - b[k + 1]]
           f == Rests(xs, i)
<1>1. xs \in Seq(Cells(c)) /\ n \in Nat /\ \A k \in 1..n : xs[k].weight \in Nat
  BY TreesAre DEF Starts, Weighs
<1>2. b \in [1..(n + 1) -> Nat] /\ b[1] = 0 /\ \A k \in 1..n : b[k + 1] = b[k] + xs[k].weight
  BY DEF Starts
<1> HIDE DEF n
<1>3. \A k \in 1..n : i - b[k + 1] = (i - b[k]) - xs[k].weight
  <2> TAKE k \in 1..n
  <2> DEFINE here == b[k]   next == b[k + 1]   w == xs[k].weight
  <2>1. here \in Nat /\ w \in Nat /\ next = here + w
    BY <1>1, <1>2
  <2> HIDE DEF here, next, w
  <2>2. i - next = (i - here) - w
    BY <2>1
  <2> QED
    BY <2>2 DEF here, next, w
<1>4. IsRests(xs, i, h)
  <2>1. ASSUME NEW k \in 0..n PROVE h[k] = IF k = 0 THEN i ELSE h[k - 1] - xs[k].weight
    <3>1. CASE k = 0
      <4>1. h[k] = i - 0
        BY <1>1, <1>2, <3>1
      <4> QED
        BY <3>1, <4>1
    <3>2. CASE k # 0
      <4>1. k - 1 \in 0..n /\ (k - 1) + 1 = k /\ k \in 1..n
        BY <1>1, <3>2
      <4>2. h[k - 1] = i - b[k] /\ h[k] = i - b[k + 1]
        BY <4>1
      <4> HIDE DEF h
      <4> QED
        BY <1>3, <3>2, <4>1, <4>2
    <3> QED
      BY <3>1, <3>2
  <2>2. h = [k \in 0..n |-> IF k = 0 THEN i ELSE h[k - 1] - xs[k].weight]
    <3> DEFINE g == [k \in 0..n |-> IF k = 0 THEN i ELSE h[k - 1] - xs[k].weight]
    <3>1. DOMAIN h = DOMAIN g /\ h = [k \in 0..n |-> h[k]] /\ \A k \in 0..n : g[k] = h[k]
      BY <2>1
    <3> QED
      BY <2>1
  <2> HIDE DEF h
  <2> QED
    BY <2>2 DEF IsRests, n
<1>5. IsRests(xs, i, f)
  BY <1>4, RestsIsChosen
<1>6. \A k \in 0..n : f[k] = IF k = 0 THEN i ELSE f[k - 1] - xs[k].weight
  BY <1>5 DEF IsRests, n
<1> HIDE DEF f
<1> DEFINE Good == {k \in Nat : k <= n => f[k] = i - b[k + 1]}
<1>7. 0 \in Good
  <2>1. f[0] = i /\ i - b[0 + 1] = i
    BY <1>1, <1>2, <1>6
  <2> QED
    BY <2>1
<1>8. ASSUME NEW k \in Nat, k \in Good PROVE k + 1 \in Good
  <2> SUFFICES ASSUME k + 1 <= n PROVE f[k + 1] = i - b[(k + 1) + 1]
    OBVIOUS
  <2>1. k + 1 \in 1..n /\ k + 1 \in 0..n /\ (k + 1) - 1 = k /\ k + 1 # 0 /\ k <= n
    BY <1>1
  <2>2. f[k] = i - b[k + 1]
    BY <1>8, <2>1
  <2>3. f[k + 1] = f[k] - xs[k + 1].weight
    BY <1>6, <2>1
  <2> QED
    BY <1>3, <2>1, <2>2, <2>3
<1> HIDE DEF Good
<1>9. \A k \in Nat : k \in Good
  BY <1>7, <1>8, Induction
<1> QED
  BY <1>9 DEF Good, f, n

\* An index finds the local that was entered so many before the last, and no other.
LEMMA LGetIs ==
  ASSUME NEW c, Contents(c), NEW xs, NEW s \in Seq(Locals), Len(s) <= MaxLocals, CellsListed(c, xs, s),
         NEW i \in 0..Len(s)
  PROVE  LGet(xs, i) = IF i < Len(s) THEN <<s[i + 1]>> ELSE <<>>
<1> DEFINE n == Len(xs)
           rest == Rests(xs, i)
           Inside(k) == rest[k - 1] < xs[k].weight
           First(k) == Inside(k) /\ \A j \in 1..(k - 1) : ~Inside(j)
           cell == CHOOSE k \in 1..n : First(k)
<1>1. PICK b : Starts(c, xs, s, b)
  BY HasStarts
<1>2. /\ n \in Nat /\ xs \in Seq(Cells(c))
      /\ \A k \in 1..n : xs[k].weight \in Nat /\ xs[k].tree \in DOMAIN c /\ xs[k].weight = Len(c[xs[k].tree])
  BY <1>1, TreesAre DEF Starts, Weighs
<1>3. /\ b \in [1..(n + 1) -> Nat] /\ b[1] = 0 /\ b[n + 1] = Len(s)
      /\ \A k \in 1..n : /\ b[k + 1] = b[k] + xs[k].weight /\ b[k + 1] <= Len(s)
                         /\ \A j \in 1..xs[k].weight : s[b[k] + j] = c[xs[k].tree][j]
  BY <1>1 DEF Starts
<1>4. i \in Nat /\ Len(s) \in Nat
  OBVIOUS
<1>5. LGet(xs, i) = IF \E k \in 1..n : Inside(k) THEN <<LTreeGet(xs[cell].weight, xs[cell].tree, rest[cell - 1])>> ELSE <<>>
  BY DEF LGet
<1>6. \A k \in 0..n : rest[k] = i - b[k + 1]
  BY <1>1, <1>4, RestsAre
<1> HIDE DEF n, rest, cell
<1>7. \A k \in 1..n : /\ rest[k - 1] = i - b[k] /\ b[k] \in Nat /\ b[k + 1] \in Nat
                      /\ Inside(k) <=> i < b[k + 1]
  <2> TAKE k \in 1..n
  <2>1. k - 1 \in 0..n /\ (k - 1) + 1 = k /\ k \in 1..(n + 1) /\ k + 1 \in 1..(n + 1)
    BY <1>2
  <2>2. rest[k - 1] = i - b[k]
    BY <1>6, <2>1
  <2> DEFINE here == b[k]   next == b[k + 1]   w == xs[k].weight
  <2>3. here \in Nat /\ next \in Nat /\ w \in Nat /\ next = here + w /\ rest[k - 1] = i - here
    BY <1>2, <1>3, <2>1, <2>2
  <2> HIDE DEF here, next, w
  <2>4. i - here < w <=> i < next
    BY <1>4, <2>3
  <2> QED
    BY <2>2, <2>3, <2>4 DEF here, next, w
<1>8. CASE i < Len(s)
  <2> DEFINE K == {k \in 1..n : Inside(k)}
  <2>1. n \in K
    <3>1. n # 0
      BY <1>3, <1>4, <1>8
    <3>2. n \in 1..n
      BY <1>2, <3>1
    <3> QED
      BY <1>3, <1>7, <1>8, <3>2
  <2>2. \E k \in 1..n : First(k)
    <3>1. K \in SUBSET Nat /\ K # {}
      BY <2>1
    <3>2. PICK k \in K : \A j \in K : k <= j
      <4> HIDE DEF K
      <4> QED
        BY <3>1, LeastMember
    <3>3. \A j \in 1..(k - 1) : ~Inside(j)
      <4> SUFFICES ASSUME NEW j \in 1..(k - 1), Inside(j) PROVE FALSE
        OBVIOUS
      <4>1. j \in K /\ j < k
        BY <1>2, <3>2
      <4> QED
        BY <3>2, <4>1
    <3> QED
      BY <3>2, <3>3
  <2>3. cell \in 1..n /\ First(cell)
    BY <2>2 DEF cell
  <2> DEFINE w == xs[cell].weight   t == xs[cell].tree   here == b[cell]   j == i - here
  <2>4. w \in Nat /\ t \in DOMAIN c /\ w = Len(c[t]) /\ here \in Nat /\ i < here + w /\ here + w <= Len(s) /\ rest[cell - 1] = j
    BY <1>2, <1>3, <1>7, <2>3
  <2>5. here <= i
    <3>1. CASE cell = 1
      BY <1>3, <1>4, <3>1
    <3>2. CASE cell # 1
      <4>1. cell - 1 \in 1..n /\ cell - 1 \in 1..(cell - 1) /\ (cell - 1) + 1 = cell
        BY <1>2, <2>3, <3>2
      <4>2. ~Inside(cell - 1)
        BY <2>3, <4>1
      <4>3. ~(i < b[cell])
        BY <1>7, <4>1, <4>2
      <4> QED
        BY <1>4, <2>4, <4>3
    <3> QED
      BY <3>1, <3>2
  <2>6. \A k \in 1..w : s[here + k] = c[t][k]
    BY <1>3, <2>3
  <2> HIDE DEF w, t, here
  <2>7. j \in Nat /\ j < w /\ w <= MaxLocals /\ j + 1 \in 1..w /\ here + (j + 1) = i + 1
    BY <1>4, <2>4, <2>5, ContextAssumption
  <2> HIDE DEF j
  <2>8. LTreeGet(w, t, j) = c[t][j + 1]
    BY <2>4, <2>7, LTreeGetIs
  <2>9. c[t][j + 1] = s[i + 1]
    BY <2>6, <2>7
  <2>10. LGet(xs, i) = <<LTreeGet(w, t, j)>>
    BY <1>5, <2>1, <2>4 DEF w, t
  <2> QED
    BY <1>8, <2>8, <2>9, <2>10
<1>9. CASE ~(i < Len(s))
  <2>1. \A k \in 1..n : ~Inside(k)
    BY <1>3, <1>4, <1>7, <1>9
  <2> QED
    BY <1>5, <1>9, <2>1
<1> QED
  BY <1>8, <1>9

-----------------------------------------------------------------------------
(* The specification.                                                      *)

\* The trees that are kept list the locals in scope.
IInv ==
  /\ nested \in Seq(Locals) /\ Len(nested) <= MaxLocals
  /\ \E c : Contents(c) /\ CellsListed(c, trees, nested)

\* No cells list no locals.
LEMMA InitHolds == ContextInit => IInv
<1> SUFFICES ASSUME ContextInit PROVE IInv
  OBVIOUS
<1> DEFINE c == [t \in {} |-> <<>>]   b == [j \in 1..1 |-> 0]
<1>1. trees = <<>> /\ nested = <<>>
  BY DEF ContextInit
<1>2. DOMAIN c = {}
  OBVIOUS
<1> HIDE DEF c
<1>3. Contents(c)
  BY <1>2 DEF Contents
<1>4. <<>> \in Seq(Cells(c)) /\ Len(<<>>) = 0 /\ <<>> \in Seq(Locals)
  BY EmptySeq
<1>5. Weighs(c, <<>>)
  BY <1>4 DEF Weighs
<1>6. Trees(<<>>) = <<>>
  <2>1. Trees(<<>>) \in Seq(DOMAIN c) /\ Len(Trees(<<>>)) = 0
    BY <1>4, TreesAre
  <2> QED
    BY <2>1
<1>7. Covers(c, <<>>, <<>>, b)
  <2>1. <<>> \in Seq(DOMAIN c)
    BY EmptySeq
  <2>2. b \in [1..(0 + 1) -> Nat] /\ b[1] = 0 /\ b[0 + 1] = 0
    OBVIOUS
  <2> HIDE DEF b
  <2> QED
    BY <1>4, <2>1, <2>2 DEF Covers
<1>8. CellsListed(c, <<>>, <<>>)
  BY <1>5, <1>6, <1>7 DEF CellsListed, Listed
<1> QED
  BY <1>1, <1>3, <1>4, <1>8, ContextAssumption DEF IInv

\* Entries and views keep the trees in agreement with the nesting.
LEMMA NextHolds == IInv /\ [ContextNext]_contextVars => IInv'
<1> SUFFICES ASSUME IInv, [ContextNext]_contextVars PROVE IInv'
  OBVIOUS
<1>1. nested \in Seq(Locals) /\ Len(nested) <= MaxLocals
  BY DEF IInv
<1>2. PICK c : Contents(c) /\ CellsListed(c, trees, nested)
  BY DEF IInv
<1>3. ASSUME NEW x \in Locals, Enter(x) PROVE IInv'
  <2>1. Len(nested) < MaxLocals /\ trees' = LCons(x, trees) /\ nested' = Before(x, nested)
    BY <1>3 DEF Enter
  <2>2. PICK d : Contents(d) /\ CellsListed(d, LCons(x, trees), Before(x, nested))
    BY <1>2, Cons
  <2>3. nested' \in Seq(Locals) /\ Len(nested') = Len(nested) + 1
    BY <1>1, <2>1 DEF Before
  <2>4. Contents(d) /\ CellsListed(d, trees', nested')
    BY <2>1, <2>2
  <2> QED
    BY <1>1, <2>1, <2>3, <2>4, ContextAssumption DEF IInv
<1>4. ASSUME Leave PROVE IInv'
  <2>1. nested # <<>> /\ trees' = LViewTail(trees) /\ nested' = Tail(nested)
    BY <1>4 DEF Leave
  <2>2. Views(c, trees, nested)
    BY <1>2, View
  <2>3. CellsListed(c, LViewTail(trees), Tail(nested))
    BY <2>1, <2>2 DEF Views
  <2>4. nested' \in Seq(Locals) /\ Len(nested') = Len(nested) - 1
    BY <1>1, <2>1
  <2>5. Contents(c) /\ CellsListed(c, trees', nested')
    BY <1>2, <2>1, <2>3
  <2> QED
    BY <1>1, <2>4, <2>5, ContextAssumption DEF IInv
<1>5. CASE UNCHANGED contextVars
  BY <1>1, <1>2, <1>5 DEF IInv, contextVars
<1> QED
  BY <1>3, <1>4, <1>5 DEF ContextNext

\* Trees that list the nesting answer for it.
LEMMA InOrder == IInv => LocalsInOrder
<1> SUFFICES ASSUME IInv PROVE LocalsInOrder
  OBVIOUS
<1> DEFINE s == nested
<1>1. s \in Seq(Locals) /\ Len(s) <= MaxLocals /\ Len(s) \in Nat /\ DOMAIN s = 1..Len(s)
  BY DEF IInv
<1>2. PICK c : Contents(c) /\ CellsListed(c, trees, s)
  BY DEF IInv
<1> HIDE DEF s
<1>3. ToList(trees) = s
  BY <1>1, <1>2, ToListIs
<1>4. \A i \in 0..Len(s) : LGet(trees, i) = IF i < Len(s) THEN <<s[i + 1]>> ELSE <<>>
  BY <1>1, <1>2, LGetIs
<1>5. ASSUME NEW x \in Locals
      PROVE  LET at == {i \in DOMAIN s : s[i] = x}
             IN NameIndex(trees, x) = IF at = {} THEN <<>> ELSE <<(CHOOSE i \in at : \A j \in at : i <= j) - 1>>
  <2> DEFINE at == {i \in DOMAIN s : s[i] = x}
             first == CHOOSE i \in at : \A j \in at : i <= j
  <2>1. \/ NameIndex(trees, x) = <<>> /\ \A i \in 1..Len(s) : s[i] # x
        \/ \E m \in 1..Len(s) : NameIndex(trees, x) = <<m - 1>> /\ s[m] = x /\ \A i \in 1..(m - 1) : s[i] # x
    BY <1>1, <1>2, NameIndexIs
  <2>2. CASE NameIndex(trees, x) = <<>> /\ \A i \in 1..Len(s) : s[i] # x
    BY <1>1, <2>2
  <2>3. ASSUME NEW m \in 1..Len(s), NameIndex(trees, x) = <<m - 1>>, s[m] = x, \A i \in 1..(m - 1) : s[i] # x
        PROVE  at # {} /\ NameIndex(trees, x) = <<first - 1>>
    <3>1. m \in at /\ \A j \in at : m <= j
      <4>1. m \in at
        BY <1>1, <2>3
      <4>2. \A j \in at : j \in 1..Len(s) /\ s[j] = x
        BY <1>1
      <4>3. ASSUME NEW j \in at PROVE m <= j
        <5> HIDE DEF at
        <5>1. j \in 1..Len(s) /\ s[j] = x
          BY <4>2
        <5>2. j \notin 1..(m - 1)
          BY <2>3, <5>1
        <5> QED
          BY <1>1, <5>1, <5>2
      <4> QED
        BY <4>1, <4>3
    <3>2. at \subseteq Nat
      BY <1>1
    <3> HIDE DEF at
    <3>3. first \in at /\ \A j \in at : first <= j
      BY <3>1
    <3> HIDE DEF first
    <3>4. first = m
      BY <3>1, <3>2, <3>3
    <3> QED
      BY <2>3, <3>1, <3>4
  <2> QED
    BY <2>1, <2>2, <2>3
<1> QED
  BY <1>3, <1>4, <1>5 DEF LocalsInOrder, s

\* After any entries and views, an index and a name find the local that the nesting of the scopes
\* says, for any names and any depth.
THEOREM InnermostLocal == ContextSpec => []LocalsInOrder
<1>1. ContextInit => IInv
  BY InitHolds
<1>2. IInv /\ [ContextNext]_contextVars => IInv'
  BY NextHolds
<1>3. IInv => LocalsInOrder
  BY InOrder
<1> QED
  BY <1>1, <1>2, <1>3, PTL DEF ContextSpec

=============================================================================
