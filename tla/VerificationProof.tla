------------------------- MODULE VerificationProof -------------------------
(***************************************************************************)
(* The operators of Auction for every auction that parse_auction lets      *)
(* through: sums over finite sets, sorting, the order of masks, the exact  *)
(* optimum, and the meaning of the capacity rows.  Induction over finite   *)
(* sets goes through a smallest counterexample, whose existence is the     *)
(* well-foundedness of the strict subset ordering.  Then the payment rule  *)
(* and the settlement, for any amounts and any set of outcomes; the        *)
(* invariant of the branch and bound, by which the search finds the        *)
(* optimum; and from it that the verification implements the settlement.   *)
(***************************************************************************)
EXTENDS Verification, FiniteSetTheorems, WellFoundedInduction, TLAPS

\* A set of finite subsets that is not empty has a smallest member: induction over finite
\* sets, as a fact about a set of counterexamples.
LEMMA SmallestSubset ==
  ASSUME NEW S, IsFiniteSet(S), NEW B, B \subseteq SUBSET S, B # {}
  PROVE  \E T \in B : \A U \in B : U \subseteq T => U = T
<1>1. IsWellFoundedOn(StrictSubsetOrdering(S), FiniteSubsetsOf(S))
  BY FS_StrictSubsetOrderingWellFounded
<1>2. B \subseteq FiniteSubsetsOf(S)
  BY FS_Subset DEF FiniteSubsetsOf
<1>3. \E T \in B : \A U \in B : ~(<<U, T>> \in StrictSubsetOrdering(S))
  BY <1>1, <1>2, WFMin
<1> QED
  BY <1>3 DEF StrictSubsetOrdering

\* Induction over the subsets of a finite set: a set of subsets that has {} and is closed
\* under adding an element has the whole.
LEMMA SubsetInduction ==
  ASSUME NEW S, IsFiniteSet(S), NEW Good,
         {} \in Good,
         \A T \in SUBSET S, x \in S : T \in Good /\ x \notin T => T \cup {x} \in Good
  PROVE  S \in Good
<1> DEFINE Bad == {T \in SUBSET S : T \notin Good}
<1> SUFFICES ASSUME Bad # {} PROVE FALSE
  OBVIOUS
<1>1. PICK T \in Bad : \A U \in Bad : U \subseteq T => U = T
  <2>1. Bad \subseteq SUBSET S
    OBVIOUS
  <2> HIDE DEF Bad
  <2> QED
    BY <2>1, SmallestSubset
<1>2. PICK x \in T : TRUE
  BY <1>1
<1>3. T \ {x} \in Good
  BY <1>1, <1>2
<1>4. (T \ {x}) \cup {x} \in Good
  BY <1>1, <1>2, <1>3
<1>5. (T \ {x}) \cup {x} = T
  BY <1>2
<1> QED
  BY <1>1, <1>4, <1>5

-----------------------------------------------------------------------------
(* Sums.  SumFunctionOnSet folds its function over a set in an order that  *)
(* CHOOSE fixes; Iter is that fold.                                        *)
Pick(s) == CHOOSE x \in s : TRUE
IsIter(f, S, g) == g = [s \in SUBSET S |-> IF s = {} THEN 0 ELSE f[Pick(s)] + g[s \ {Pick(s)}]]
Iter(f, S) == CHOOSE g : IsIter(f, S, g)

LEMMA SumIter ==
  ASSUME NEW f, NEW S
  PROVE  SumFunctionOnSet(f, S) = Iter(f, S)[S]
  BY Zenon DEF SumFunctionOnSet, FoldFunctionOnSet, MapThenFoldSet, Iter, IsIter, Pick

LEMMA PickIn == \A s : s # {} => Pick(s) \in s
  BY DEF Pick

LEMMA IterStep ==
  ASSUME NEW f, NEW S, NEW g, IsIter(f, S, g), NEW s \in SUBSET S
  PROVE  g[s] = IF s = {} THEN 0 ELSE f[Pick(s)] + g[s \ {Pick(s)}]
  BY Zenon DEF IsIter

\* Two folds agree on the sets both are defined on.
LEMMA IterUnique ==
  ASSUME NEW f, NEW S, IsFiniteSet(S), NEW T \in SUBSET S, NEW U \in SUBSET S,
         NEW g, NEW h, IsIter(f, T, g), IsIter(f, U, h), NEW s \in SUBSET T, s \in SUBSET U
  PROVE  g[s] = h[s]
<1> DEFINE Bad == {r \in SUBSET S : r \subseteq T /\ r \subseteq U /\ g[r] # h[r]}
<1> SUFFICES ASSUME Bad # {} PROVE FALSE
  OBVIOUS
<1>1. PICK r \in Bad : \A q \in Bad : q \subseteq r => q = r
  <2>1. Bad \subseteq SUBSET S
    OBVIOUS
  <2> HIDE DEF Bad
  <2> QED
    BY <2>1, SmallestSubset
<1>2. r # {}
  BY <1>1, IterStep
<1> DEFINE q == r \ {Pick(r)}
<1>3. q \subseteq r /\ q # r
  BY <1>2, PickIn
<1>4. g[q] = h[q]
  BY <1>1, <1>3
<1>5. g[r] = f[Pick(r)] + g[q] /\ h[r] = f[Pick(r)] + h[q]
  BY <1>1, <1>2, IterStep
<1> QED
  BY <1>1, <1>4, <1>5

\* The fold exists.
LEMMA IterExists ==
  ASSUME NEW f, NEW S, IsFiniteSet(S)
  PROVE  \A T \in SUBSET S : IsIter(f, T, Iter(f, T))
<1> DEFINE Bad == {T \in SUBSET S : ~ \E g : IsIter(f, T, g)}
<1>1. ASSUME Bad # {} PROVE FALSE
  <2>1. PICK T \in Bad : \A U \in Bad : U \subseteq T => U = T
    <3>1. Bad \subseteq SUBSET S
      OBVIOUS
    <3> HIDE DEF Bad
    <3> QED
      BY <1>1, <3>1, SmallestSubset
  <2> DEFINE g == [s \in SUBSET T |->
                     IF s = {} THEN 0 ELSE f[Pick(s)] + Iter(f, s \ {Pick(s)})[s \ {Pick(s)}]]
  <2>2. ASSUME NEW s \in SUBSET T, s # T PROVE IsIter(f, s, Iter(f, s))
    <3>1. \E h : IsIter(f, s, h)
      BY <2>1, <2>2
    <3> QED
      BY <3>1 DEF Iter
  <2>3. ASSUME NEW s \in SUBSET T, s # T PROVE g[s] = Iter(f, s)[s]
    <3>1. CASE s = {}
      <4>1. IsIter(f, s, Iter(f, s)) /\ s \in SUBSET s
        BY <2>2, <2>3
      <4>2. Iter(f, s)[s] = 0
        BY <3>1, <4>1, IterStep
      <4> QED
        BY <3>1, <4>2
    <3>2. CASE s # {}
      <4> DEFINE q == s \ {Pick(s)}
      <4>1. q \in SUBSET T /\ q # T /\ q \in SUBSET s
        BY <3>2, <2>3, PickIn
      <4>2. IsIter(f, s, Iter(f, s)) /\ IsIter(f, q, Iter(f, q))
        BY <2>2, <2>3, <4>1
      <4>3. Iter(f, s)[s] = f[Pick(s)] + Iter(f, s)[q]
        BY <3>2, <4>2, IterStep
      <4>4. Iter(f, s)[q] = Iter(f, q)[q]
        <5>1. s \in SUBSET S /\ q \in SUBSET S /\ q \in SUBSET q
          BY <4>1, <2>1
        <5> HIDE DEF q, g
        <5> QED
          BY <4>1, <4>2, <5>1, IterUnique
      <4> QED
        BY <3>2, <4>3, <4>4
    <3> QED
      BY <3>1, <3>2
  <2>4. IsIter(f, T, g)
    <3>1. ASSUME NEW s \in SUBSET T, s # {} PROVE Iter(f, s \ {Pick(s)})[s \ {Pick(s)}] = g[s \ {Pick(s)}]
      <4>1. s \ {Pick(s)} \in SUBSET T /\ s \ {Pick(s)} # T
        BY <3>1, PickIn
      <4> QED
        BY <2>3, <4>1
    <3> HIDE DEF g
    <3>2. g = [s \in SUBSET T |-> IF s = {} THEN 0 ELSE f[Pick(s)] + g[s \ {Pick(s)}]]
      BY <3>1 DEF g
    <3> QED
      BY <3>2, Zenon DEF IsIter
  <2> QED
    BY <2>1, <2>4
<1>2. ASSUME NEW T \in SUBSET S PROVE IsIter(f, T, Iter(f, T))
  <2>1. \E g : IsIter(f, T, g)
    BY <1>1
  <2> QED
    BY <2>1 DEF Iter
<1> QED
  BY <1>2

LEMMA SumEmpty ==
  ASSUME NEW f
  PROVE  SumFunctionOnSet(f, {}) = 0
<1>1. IsIter(f, {}, Iter(f, {}))
  BY FS_EmptySet, IterExists
<1> QED
  BY <1>1, SumIter, IterStep

LEMMA SumPick ==
  ASSUME NEW f, NEW S, IsFiniteSet(S), S # {}
  PROVE  SumFunctionOnSet(f, S) = f[Pick(S)] + SumFunctionOnSet(f, S \ {Pick(S)})
<1> DEFINE T == S \ {Pick(S)}
<1>1. IsIter(f, S, Iter(f, S)) /\ IsIter(f, T, Iter(f, T)) /\ IsFiniteSet(T)
  BY IterExists, FS_Subset
<1>2. Iter(f, S)[S] = f[Pick(S)] + Iter(f, S)[T]
  BY <1>1, IterStep
<1>3. Iter(f, S)[T] = Iter(f, T)[T]
  <2>1. T \in SUBSET S /\ S \in SUBSET S /\ T \in SUBSET T
    OBVIOUS
  <2> QED
    BY <1>1, <2>1, IterUnique
<1> QED
  BY <1>2, <1>3, SumIter

\* A sum of integers is one.
LEMMA SumInt ==
  ASSUME NEW S, IsFiniteSet(S), NEW f, \A x \in S : f[x] \in Int
  PROVE  SumFunctionOnSet(f, S) \in Int
<1> DEFINE Bad == {T \in SUBSET S : SumFunctionOnSet(f, T) \notin Int}
<1> SUFFICES ASSUME Bad # {} PROVE FALSE
  OBVIOUS
<1>1. PICK T \in Bad : \A U \in Bad : U \subseteq T => U = T
  <2>1. Bad \subseteq SUBSET S
    OBVIOUS
  <2> HIDE DEF Bad
  <2> QED
    BY <2>1, SmallestSubset
<1>2. T # {}
  <2>1. SumFunctionOnSet(f, {}) \in Int
    BY SumEmpty
  <2> QED
    BY <1>1, <2>1
<1>3. IsFiniteSet(T) /\ Pick(T) \in T
  BY <1>1, <1>2, FS_Subset, PickIn
<1>4. SumFunctionOnSet(f, T) = f[Pick(T)] + SumFunctionOnSet(f, T \ {Pick(T)})
  BY <1>2, <1>3, SumPick
<1>5. SumFunctionOnSet(f, T \ {Pick(T)}) \in Int
  BY <1>1, <1>3
<1> QED
  BY <1>1, <1>3, <1>4, <1>5

\* Any element may be taken first.
LEMMA SumRemove ==
  ASSUME NEW S, IsFiniteSet(S), NEW f, \A x \in S : f[x] \in Int, NEW x \in S
  PROVE  SumFunctionOnSet(f, S) = f[x] + SumFunctionOnSet(f, S \ {x})
<1> DEFINE Splits(T) == \A y \in T : SumFunctionOnSet(f, T) = f[y] + SumFunctionOnSet(f, T \ {y})
           Bad == {T \in SUBSET S : ~Splits(T)}
<1> SUFFICES ASSUME Bad # {} PROVE FALSE
  OBVIOUS
<1>1. PICK T \in Bad : \A U \in Bad : U \subseteq T => U = T
  <2>1. Bad \subseteq SUBSET S
    OBVIOUS
  <2> HIDE DEF Bad
  <2> QED
    BY <2>1, SmallestSubset
<1>2. PICK y \in T : SumFunctionOnSet(f, T) # f[y] + SumFunctionOnSet(f, T \ {y})
  BY <1>1
<1> DEFINE z == Pick(T)
<1>3. IsFiniteSet(T) /\ z \in T /\ y # z
  BY <1>1, <1>2, FS_Subset, PickIn, SumPick
<1> HIDE DEF z
<1> DEFINE V == T \ {z}   W == T \ {y}   R == T \ {y, z}
<1>4. SumFunctionOnSet(f, T) = f[z] + SumFunctionOnSet(f, V)
  BY <1>3, SumPick DEF z
<1>5. Splits(V) /\ Splits(W)
  BY <1>1, <1>2, <1>3
<1>6. SumFunctionOnSet(f, V) = f[y] + SumFunctionOnSet(f, R)
  <2>1. y \in V /\ V \ {y} = R
    BY <1>2, <1>3
  <2> HIDE DEF V, R
  <2> QED
    BY <1>5, <2>1
<1>7. SumFunctionOnSet(f, W) = f[z] + SumFunctionOnSet(f, R)
  <2>1. z \in W /\ W \ {z} = R
    BY <1>2, <1>3
  <2> HIDE DEF W, R
  <2> QED
    BY <1>5, <2>1
<1>8. f[y] \in Int /\ f[z] \in Int /\ SumFunctionOnSet(f, R) \in Int
  <2>1. IsFiniteSet(R) /\ \A w \in R : f[w] \in Int
    BY <1>1, <1>3, FS_Subset
  <2> QED
    BY <1>1, <1>2, <1>3, <2>1, SumInt
<1> QED
  BY <1>2, <1>4, <1>6, <1>7, <1>8
\* One more element adds its value.
LEMMA SumAdd ==
  ASSUME NEW S, IsFiniteSet(S), NEW f, NEW x, x \notin S, \A y \in S \cup {x} : f[y] \in Int
  PROVE  SumFunctionOnSet(f, S \cup {x}) = f[x] + SumFunctionOnSet(f, S)
<1>1. IsFiniteSet(S \cup {x})
  BY FS_AddElement
<1>2. SumFunctionOnSet(f, S \cup {x}) = f[x] + SumFunctionOnSet(f, (S \cup {x}) \ {x})
  <2> DEFINE U == S \cup {x}
  <2>1. x \in U /\ IsFiniteSet(U) /\ \A y \in U : f[y] \in Int
    BY <1>1
  <2> HIDE DEF U
  <2>2. SumFunctionOnSet(f, U) = f[x] + SumFunctionOnSet(f, U \ {x})
    BY <2>1, SumRemove
  <2> QED
    BY <2>2 DEF U
<1>3. (S \cup {x}) \ {x} = S
  OBVIOUS
<1> QED
  BY <1>2, <1>3

\* Functions that agree have the same sum.
LEMMA SumSame ==
  ASSUME NEW S, IsFiniteSet(S), NEW f, NEW g, \A x \in S : f[x] \in Int /\ f[x] = g[x]
  PROVE  SumFunctionOnSet(f, S) = SumFunctionOnSet(g, S)
<1> DEFINE Good == {T \in SUBSET S : SumFunctionOnSet(f, T) = SumFunctionOnSet(g, T)}
<1>1. {} \in Good
  BY SumEmpty
<1>2. ASSUME NEW T \in SUBSET S, NEW x \in S, T \in Good, x \notin T PROVE T \cup {x} \in Good
  <2>1. IsFiniteSet(T)
    BY FS_Subset
  <2>2. SumFunctionOnSet(f, T \cup {x}) = f[x] + SumFunctionOnSet(f, T)
    BY <1>2, <2>1, SumAdd
  <2>3. SumFunctionOnSet(g, T \cup {x}) = g[x] + SumFunctionOnSet(g, T)
    BY <1>2, <2>1, SumAdd
  <2> QED
    BY <1>2, <2>2, <2>3
<1>3. S \in Good
  <2> HIDE DEF Good
  <2> QED
    BY <1>1, <1>2, SubsetInduction
<1> QED
  BY <1>3

\* A sum falls into the sums of two parts.
LEMMA SumParts ==
  ASSUME NEW S, IsFiniteSet(S), NEW R, IsFiniteSet(R), R \cap S = {}, NEW f,
         \A x \in S \cup R : f[x] \in Int
  PROVE  SumFunctionOnSet(f, R \cup S) = SumFunctionOnSet(f, R) + SumFunctionOnSet(f, S)
<1> DEFINE Good == {T \in SUBSET S :
                      SumFunctionOnSet(f, R \cup T) = SumFunctionOnSet(f, R) + SumFunctionOnSet(f, T)}
<1>1. {} \in Good
  <2>1. SumFunctionOnSet(f, R) \in Int /\ SumFunctionOnSet(f, {}) = 0 /\ R \cup {} = R
    BY SumEmpty, SumInt
  <2> QED
    BY <2>1
<1>2. ASSUME NEW T \in SUBSET S, NEW x \in S, T \in Good, x \notin T PROVE T \cup {x} \in Good
  <2>1. IsFiniteSet(T) /\ IsFiniteSet(R \cup T)
    BY FS_Subset, FS_Union
  <2>2. SumFunctionOnSet(f, T \cup {x}) = f[x] + SumFunctionOnSet(f, T)
    BY <1>2, <2>1, SumAdd
  <2>3. SumFunctionOnSet(f, (R \cup T) \cup {x}) = f[x] + SumFunctionOnSet(f, R \cup T)
    <3> DEFINE U == R \cup T
    <3>1. IsFiniteSet(U) /\ x \notin U /\ \A y \in U \cup {x} : f[y] \in Int
      BY <1>2, <2>1
    <3> HIDE DEF U
    <3>2. SumFunctionOnSet(f, U \cup {x}) = f[x] + SumFunctionOnSet(f, U)
      BY <3>1, SumAdd
    <3> QED
      BY <3>2 DEF U
  <2>4. (R \cup T) \cup {x} = R \cup (T \cup {x})
    OBVIOUS
  <2>5. SumFunctionOnSet(f, R) \in Int /\ SumFunctionOnSet(f, T) \in Int /\ f[x] \in Int
    BY <2>1, SumInt
  <2>6. SumFunctionOnSet(f, R \cup T) = SumFunctionOnSet(f, R) + SumFunctionOnSet(f, T)
    BY <1>2
  <2>7. SumFunctionOnSet(f, R \cup (T \cup {x})) = f[x] + SumFunctionOnSet(f, R \cup T)
    BY <2>3, <2>4
  <2>8. SumFunctionOnSet(f, R \cup (T \cup {x})) = SumFunctionOnSet(f, R) + SumFunctionOnSet(f, T \cup {x})
    BY <2>2, <2>5, <2>6, <2>7
  <2> QED
    BY <2>8
<1>3. S \in Good
  <2> HIDE DEF Good
  <2> QED
    BY <1>1, <1>2, SubsetInduction
<1> QED
  BY <1>3

\* What is at most as much element by element is so in sum.
LEMMA SumMonotone ==
  ASSUME NEW S, IsFiniteSet(S), NEW f, NEW g,
         \A x \in S : f[x] \in Int /\ g[x] \in Int /\ f[x] <= g[x]
  PROVE  SumFunctionOnSet(f, S) <= SumFunctionOnSet(g, S)
<1> DEFINE Good == {T \in SUBSET S : SumFunctionOnSet(f, T) <= SumFunctionOnSet(g, T)}
<1>1. {} \in Good
  BY SumEmpty
<1>2. ASSUME NEW T \in SUBSET S, NEW x \in S, T \in Good, x \notin T PROVE T \cup {x} \in Good
  <2>1. IsFiniteSet(T)
    BY FS_Subset
  <2>2. SumFunctionOnSet(f, T \cup {x}) = f[x] + SumFunctionOnSet(f, T)
    BY <1>2, <2>1, SumAdd
  <2>3. SumFunctionOnSet(g, T \cup {x}) = g[x] + SumFunctionOnSet(g, T)
    BY <1>2, <2>1, SumAdd
  <2>4. SumFunctionOnSet(f, T) \in Int /\ SumFunctionOnSet(g, T) \in Int
    BY <2>1, SumInt
  <2> QED
    BY <1>2, <2>2, <2>3, <2>4
<1>3. S \in Good
  <2> HIDE DEF Good
  <2> QED
    BY <1>1, <1>2, SubsetInduction
<1> QED
  BY <1>3

\* A sum of zeros is zero.
LEMMA SumZero ==
  ASSUME NEW S, IsFiniteSet(S), NEW f, \A x \in S : f[x] = 0
  PROVE  SumFunctionOnSet(f, S) = 0
<1> DEFINE Good == {T \in SUBSET S : SumFunctionOnSet(f, T) = 0}
<1>1. {} \in Good
  BY SumEmpty
<1>2. ASSUME NEW T \in SUBSET S, NEW x \in S, T \in Good, x \notin T PROVE T \cup {x} \in Good
  <2>1. IsFiniteSet(T) /\ \A y \in T \cup {x} : f[y] \in Int
    BY FS_Subset
  <2>2. SumFunctionOnSet(f, T \cup {x}) = f[x] + SumFunctionOnSet(f, T)
    BY <1>2, <2>1, SumAdd
  <2> QED
    BY <1>2, <2>2
<1>3. S \in Good
  <2> HIDE DEF Good
  <2> QED
    BY <1>1, <1>2, SubsetInduction
<1> QED
  BY <1>3

\* A sum of natural numbers is one, and is no less than the sum over a part.
LEMMA SumNat ==
  ASSUME NEW S, IsFiniteSet(S), NEW f, \A x \in S : f[x] \in Nat
  PROVE  SumFunctionOnSet(f, S) \in Nat
<1> DEFINE z == [x \in S |-> 0]
<1>1. SumFunctionOnSet(z, S) = 0
  BY SumZero
<1>2. SumFunctionOnSet(z, S) <= SumFunctionOnSet(f, S)
  BY SumMonotone
<1>3. SumFunctionOnSet(f, S) \in Int
  BY SumInt
<1> QED
  BY <1>1, <1>2, <1>3

LEMMA SumOfPart ==
  ASSUME NEW S, IsFiniteSet(S), NEW T \in SUBSET S, NEW f, \A x \in S : f[x] \in Int
  PROVE  SumFunctionOnSet(f, S) = SumFunctionOnSet(f, T) + SumFunctionOnSet(f, S \ T)
<1> DEFINE U == S \ T
<1>1. IsFiniteSet(T) /\ IsFiniteSet(U) /\ T \cap U = {} /\ T \cup U = S /\ \A x \in U \cup T : f[x] \in Int
  BY FS_Subset
<1> HIDE DEF U
<1>2. SumFunctionOnSet(f, T \cup U) = SumFunctionOnSet(f, T) + SumFunctionOnSet(f, U)
  BY <1>1, SumParts
<1> QED
  BY <1>1, <1>2 DEF U

-----------------------------------------------------------------------------
(* Orders.                                                                 *)

\* R orders the members of S strictly and totally.
TotalOn(R, S) ==
  /\ \A x, y \in S : x # y => <<x, y>> \in R \/ <<y, x>> \in R
  /\ \A x, y, z \in S : <<x, y>> \in R /\ <<y, z>> \in R => <<x, z>> \in R
  /\ \A x \in S : <<x, x>> \notin R

LEMMA TotalOnPart ==
  ASSUME NEW S, NEW T \in SUBSET S, NEW R, TotalOn(R, S)
  PROVE  TotalOn(R, T)
  BY DEF TotalOn

\* A finite set that is not empty has a greatest member.
LEMMA GreatestExists ==
  ASSUME NEW S, IsFiniteSet(S), S # {}, NEW R, TotalOn(R, S)
  PROVE  \E m \in S : \A x \in S : x # m => <<x, m>> \in R
<1> DEFINE Good == {T \in SUBSET S : T # {} => \E m \in T : \A x \in T : x # m => <<x, m>> \in R}
<1>1. {} \in Good
  OBVIOUS
<1>2. ASSUME NEW T \in SUBSET S, NEW x \in S, T \in Good, x \notin T PROVE T \cup {x} \in Good
  <2>1. CASE T = {}
    BY <2>1
  <2>2. CASE T # {}
    <3>1. PICK m \in T : \A y \in T : y # m => <<y, m>> \in R
      BY <1>2, <2>2
    <3>2. CASE <<x, m>> \in R
      BY <1>2, <3>1, <3>2
    <3>3. CASE <<m, x>> \in R
      <4>1. \A y \in T \cup {x} : y # x => <<y, x>> \in R
        BY <1>2, <3>1, <3>3 DEF TotalOn
      <4> QED
        BY <4>1
    <3> QED
      BY <1>2, <3>1, <3>2, <3>3 DEF TotalOn
  <2> QED
    BY <2>1, <2>2
<1>3. S \in Good
  <2> HIDE DEF Good
  <2> QED
    BY <1>1, <1>2, SubsetInduction
<1> QED
  BY <1>3

\* A finite set can be listed in order.
LEMMA ListingExists ==
  ASSUME NEW S, IsFiniteSet(S), NEW R, TotalOn(R, S)
  PROVE  \E s \in [1 .. Cardinality(S) -> S] :
           \A i, j \in 1 .. Cardinality(S) : i < j => <<s[i], s[j]>> \in R
<1> DEFINE Listed(T) == \E s \in [1 .. Cardinality(T) -> T] :
                          \A i, j \in 1 .. Cardinality(T) : i < j => <<s[i], s[j]>> \in R
           Bad == {T \in SUBSET S : ~Listed(T)}
<1> SUFFICES ASSUME Bad # {} PROVE FALSE
  OBVIOUS
<1>1. PICK T \in Bad : \A U \in Bad : U \subseteq T => U = T
  <2>1. Bad \subseteq SUBSET S
    OBVIOUS
  <2> HIDE DEF Bad
  <2> QED
    BY <2>1, SmallestSubset
<1>2. T \in SUBSET S /\ ~Listed(T) /\ IsFiniteSet(T)
  BY <1>1, FS_Subset
<1>3. T # {}
  <2>1. ASSUME T = {} PROVE Listed(T)
    <3>1. Cardinality(T) = 0 /\ 1 .. 0 = {}
      BY <2>1, FS_EmptySet
    <3>2. [i \in 1 .. 0 |-> i] \in [1 .. Cardinality(T) -> T]
      BY <3>1
    <3> QED
      BY <3>1, <3>2
  <2> QED
    BY <1>2, <2>1
<1>4. PICK m \in T : \A x \in T : x # m => <<x, m>> \in R
  BY <1>2, <1>3, TotalOnPart, GreatestExists
<1> DEFINE U == T \ {m}   n == Cardinality(U)
<1>5. IsFiniteSet(U) /\ n \in Nat /\ Cardinality(T) = n + 1
  <2>1. IsFiniteSet(U) /\ Cardinality(U) = Cardinality(T) - 1
    BY <1>2, FS_RemoveElement
  <2>2. Cardinality(U) \in Nat /\ Cardinality(T) \in Nat
    BY <1>2, <2>1, FS_CardinalityType
  <2> QED
    BY <2>1, <2>2
<1>6. Listed(U)
  <2>1. U \notin Bad
    <3> HIDE DEF Bad
    <3> QED
      BY <1>1, <1>4
  <2> HIDE DEF Listed
  <2> QED
    BY <1>2, <2>1
<1>7. PICK s \in [1 .. n -> U] : \A i, j \in 1 .. n : i < j => <<s[i], s[j]>> \in R
  BY <1>6
<1> HIDE DEF n
<1> DEFINE t == [i \in 1 .. n + 1 |-> IF i = n + 1 THEN m ELSE s[i]]
<1>8. t \in [1 .. n + 1 -> T]
  BY <1>5, <1>7
<1>9. ASSUME NEW i \in 1 .. n + 1, NEW j \in 1 .. n + 1, i < j PROVE <<t[i], t[j]>> \in R
  <2>1. i \in 1 .. n /\ t[i] = s[i] /\ s[i] \in U
    BY <1>5, <1>7, <1>9
  <2>2. CASE j = n + 1
    BY <1>4, <2>1, <2>2
  <2>3. CASE j # n + 1
    BY <1>5, <1>7, <1>9, <2>1, <2>3
  <2> QED
    BY <2>2, <2>3
<1> HIDE DEF t
<1> QED
  BY <1>2, <1>5, <1>8, <1>9

\* Sorted lists each member once, in order.
LEMMA SortedLists ==
  ASSUME NEW S, IsFiniteSet(S), NEW R, TotalOn(R, S)
  PROVE  /\ Cardinality(S) \in Nat
         /\ Sorted(S, R) \in [1 .. Cardinality(S) -> S]
         /\ \A i, j \in 1 .. Cardinality(S) : i < j => <<Sorted(S, R)[i], Sorted(S, R)[j]>> \in R
         /\ \A i, j \in 1 .. Cardinality(S) : Sorted(S, R)[i] = Sorted(S, R)[j] => i = j
         /\ \A x \in S : \E i \in 1 .. Cardinality(S) : Sorted(S, R)[i] = x
<1> DEFINE n == Cardinality(S)   s == Sorted(S, R)
<1>1. n \in Nat /\ IsFiniteSet(1 .. n) /\ Cardinality(1 .. n) = n
  BY FS_CardinalityType, FS_Interval
<1>2. s \in [1 .. n -> S] /\ \A i, j \in 1 .. n : i < j => <<s[i], s[j]>> \in R
  BY ListingExists DEF Sorted
<1> HIDE DEF s, n
<1>3. \A i, j \in 1 .. n : s[i] = s[j] => i = j
  <2> SUFFICES ASSUME NEW i \in 1 .. n, NEW j \in 1 .. n, s[i] = s[j], i # j PROVE FALSE
    OBVIOUS
  <2>1. i < j \/ j < i
    BY <1>1
  <2>2. <<s[i], s[i]>> \in R
    BY <1>2, <2>1
  <2>3. s[i] \in S
    BY <1>2
  <2> QED
    BY <2>2, <2>3 DEF TotalOn
<1>4. s \in Injection(1 .. n, S)
  BY <1>2, <1>3 DEF Injection, IsInjective
<1>5. s \in Surjection(1 .. n, S)
  BY <1>1, <1>4, FS_Injection DEF n
<1>6. \A x \in S : \E i \in 1 .. n : s[i] = x
  BY <1>5 DEF Surjection
<1> QED
  BY <1>1, <1>2, <1>3, <1>6 DEF s, n

-----------------------------------------------------------------------------
(* Masks.                                                                  *)

LEMMA MaxIs ==
  ASSUME NEW S \in SUBSET Int, IsFiniteSet(S), S # {}
  PROVE  Max(S) \in S /\ \A x \in S : x <= Max(S)
<1> DEFINE R == {xy \in S \X S : xy[1] < xy[2]}
<1>1. TotalOn(R, S)
  BY DEF TotalOn
<1>2. \E m \in S : \A x \in S : x # m => <<x, m>> \in R
  <2> HIDE DEF R
  <2> QED
    BY <1>1, GreatestExists
<1>3. \E m \in S : \A x \in S : m >= x
  <2>1. PICK m \in S : \A x \in S : x # m => <<x, m>> \in R
    BY <1>2
  <2>2. ASSUME NEW x \in S PROVE m >= x
    <3>1. x \in Int /\ m \in Int
      OBVIOUS
    <3>2. x # m => x < m
      BY <2>1
    <3> QED
      BY <3>1, <3>2
  <2> QED
    BY <2>2
<1>4. Max(S) \in S /\ \A x \in S : Max(S) >= x
  BY <1>3 DEF Max
<1> QED
  BY <1>4

\* A mask is smaller than another when the highest bit that tells them apart is the other's.
LEMMA MaskLessBit ==
  ASSUME NEW U \in SUBSET Int, IsFiniteSet(U), NEW c \in SUBSET U, NEW d \in SUBSET U
  PROVE  MaskLess(c, d) <=> \E m \in d \ c : \A k \in U : k > m => (k \in c <=> k \in d)
<1> DEFINE D == SymDiff(c, d)
<1>1. D \in SUBSET U /\ D \in SUBSET Int /\ IsFiniteSet(D)
  BY FS_Subset DEF SymDiff
<1>2. \A k \in U : k \in D <=> ~(k \in c <=> k \in d)
  BY DEF SymDiff
<1> HIDE DEF D
<1>3. c # d <=> D # {}
  BY <1>1, <1>2
<1>4. ASSUME MaskLess(c, d) PROVE \E m \in d \ c : \A k \in U : k > m => (k \in c <=> k \in d)
  <2>1. D # {} /\ Max(D) \in d
    <3>1. c # d /\ Max(SymDiff(c, d)) \in d
      BY <1>4 DEF MaskLess
    <3> QED
      BY <1>3, <3>1 DEF D
  <2>2. Max(D) \in D /\ \A x \in D : x <= Max(D)
    BY <1>1, <2>1, MaxIs
  <2>3. Max(D) \in d \ c /\ Max(D) \in Int
    BY <1>1, <1>2, <2>1, <2>2
  <2>4. \A k \in U : k > Max(D) => k \notin D
    BY <2>2, <2>3
  <2> QED
    BY <1>2, <2>3, <2>4
<1>5. ASSUME NEW m \in d \ c, \A k \in U : k > m => (k \in c <=> k \in d) PROVE MaskLess(c, d)
  <2>1. m \in D
    BY <1>2, <1>5
  <2>2. Max(D) \in D /\ \A x \in D : x <= Max(D)
    BY <1>1, <2>1, MaxIs
  <2>3. ~(Max(D) > m) /\ m <= Max(D) /\ Max(D) \in Int /\ m \in Int
    BY <1>1, <1>2, <1>5, <2>1, <2>2
  <2>4. Max(D) = m
    BY <2>3
  <2>5. c # d /\ Max(D) \in d
    BY <1>5, <2>4
  <2> QED
    BY <2>5 DEF MaskLess, D
<1> QED
  BY <1>4, <1>5

LEMMA MaskTotal ==
  ASSUME NEW U \in SUBSET Int, IsFiniteSet(U), NEW c \in SUBSET U, NEW d \in SUBSET U, c # d
  PROVE  MaskLess(c, d) \/ MaskLess(d, c)
<1> DEFINE D == SymDiff(c, d)
<1>1. D \in SUBSET Int /\ IsFiniteSet(D) /\ D # {} /\ D = SymDiff(d, c)
  BY FS_Subset DEF SymDiff
<1>2. Max(D) \in D
  <2> HIDE DEF D
  <2> QED
    BY <1>1, MaxIs
<1>3. Max(D) \in c \/ Max(D) \in d
  BY <1>2 DEF SymDiff
<1> QED
  BY <1>1, <1>3 DEF MaskLess

LEMMA MaskTransitive ==
  ASSUME NEW U \in SUBSET Int, IsFiniteSet(U), NEW c \in SUBSET U, NEW d \in SUBSET U,
         NEW e \in SUBSET U, MaskLess(c, d), MaskLess(d, e)
  PROVE  MaskLess(c, e)
<1>1. PICK m \in d \ c : \A k \in U : k > m => (k \in c <=> k \in d)
  BY MaskLessBit
<1>2. PICK n \in e \ d : \A k \in U : k > n => (k \in d <=> k \in e)
  BY MaskLessBit
<1>3. \E b \in e \ c : \A k \in U : k > b => (k \in c <=> k \in e)
  <2>0. m \in Int /\ n \in Int /\ m # n
    BY <1>1, <1>2
  <2>1. CASE m < n
    <3>1. n \in e \ c
      BY <1>1, <1>2, <2>0, <2>1
    <3>2. \A k \in U : k > n => (k \in c <=> k \in e)
      BY <1>1, <1>2, <2>0, <2>1
    <3> QED
      BY <3>1, <3>2
  <2>2. CASE n < m
    <3>1. m \in e \ c
      BY <1>1, <1>2, <2>0, <2>2
    <3>2. \A k \in U : k > m => (k \in c <=> k \in e)
      BY <1>1, <1>2, <2>0, <2>2
    <3> QED
      BY <3>1, <3>2
  <2> QED
    BY <2>0, <2>1, <2>2
<1> QED
  BY <1>3, MaskLessBit

\* A proper part of a mask is smaller.
LEMMA MaskPart ==
  ASSUME NEW U \in SUBSET Int, IsFiniteSet(U), NEW d \in SUBSET U, NEW c \in SUBSET d, c # d
  PROVE  MaskLess(c, d)
<1> DEFINE D == SymDiff(c, d)
<1>1. D \in SUBSET Int /\ IsFiniteSet(D) /\ D # {}
  BY FS_Subset DEF SymDiff
<1>2. Max(D) \in D
  <2> HIDE DEF D
  <2> QED
    BY <1>1, MaxIs
<1> QED
  BY <1>2 DEF MaskLess, SymDiff

-----------------------------------------------------------------------------
(* The exact optimum.                                                      *)

LEMMA OfferFacts ==
  ASSUME NEW a, AuctionOK(a)
  PROVE  /\ IsFiniteSet(Indices(a)) /\ Indices(a) \in SUBSET Nat /\ Indices(a) \in SUBSET Int
         /\ \A i \in Indices(a) :
              /\ a.offers[i].tenant \in a.tenants
              /\ Values(a)[i] = a.offers[i].value
              /\ Values(a)[i] \in Nat /\ Values(a)[i] \in Int
         /\ \A c \in SUBSET Indices(a) : IsFiniteSet(c)
<1>1. Indices(a) = 1 .. Len(a.offers) /\ Len(a.offers) \in Nat
  BY DEF AuctionOK
<1>2. IsFiniteSet(Indices(a))
  BY <1>1, FS_Interval
<1>3. \A c \in SUBSET Indices(a) : IsFiniteSet(c)
  BY <1>2, FS_Subset
<1>4. ASSUME NEW i \in Indices(a)
      PROVE  /\ a.offers[i].tenant \in a.tenants
             /\ Values(a)[i] = a.offers[i].value
             /\ Values(a)[i] \in Nat /\ Values(a)[i] \in Int
  BY <1>4 DEF AuctionOK, OfferOK, Values
<1>5. Indices(a) \in SUBSET Nat /\ Indices(a) \in SUBSET Int
  BY <1>1
<1> QED
  BY <1>2, <1>3, <1>4, <1>5

LEMMA WelfareNat ==
  ASSUME NEW a, AuctionOK(a), NEW c \in SUBSET Indices(a)
  PROVE  Welfare(a, c) \in Nat
<1>1. IsFiniteSet(c) /\ \A i \in c : Values(a)[i] \in Nat
  BY OfferFacts
<1> QED
  BY <1>1, SumNat DEF Welfare

\* The welfare of a choice is that of a part and of the rest.
LEMMA WelfareParts ==
  ASSUME NEW a, AuctionOK(a), NEW c \in SUBSET Indices(a), NEW d \in SUBSET c
  PROVE  Welfare(a, c) = Welfare(a, d) + Welfare(a, c \ d)
<1>1. IsFiniteSet(c) /\ \A i \in c : Values(a)[i] \in Int
  BY OfferFacts
<1> QED
  BY <1>1, SumOfPart DEF Welfare

LEMMA WelfarePart ==
  ASSUME NEW a, AuctionOK(a), NEW c \in SUBSET Indices(a), NEW d \in SUBSET c
  PROVE  Welfare(a, d) <= Welfare(a, c)
<1>1. Welfare(a, c) \in Nat /\ Welfare(a, d) \in Nat /\ Welfare(a, c \ d) \in Nat
  BY WelfareNat
<1> QED
  BY <1>1, WelfareParts

BeatsOn(a, S) == {xy \in S \X S : Beats(a, xy[2], xy[1])}

LEMMA BeatsTotal ==
  ASSUME NEW a, AuctionOK(a), NEW S \in SUBSET (SUBSET Indices(a))
  PROVE  TotalOn(BeatsOn(a, S), S)
<1>1. ASSUME NEW c \in S, NEW d \in S, c # d PROVE Beats(a, c, d) \/ Beats(a, d, c)
  <2>1. MaskLess(c, d) \/ MaskLess(d, c)
    BY <1>1, OfferFacts, MaskTotal
  <2>2. Welfare(a, c) \in Nat /\ Welfare(a, d) \in Nat
    BY WelfareNat
  <2> QED
    BY <2>1, <2>2 DEF Beats
<1>2. ASSUME NEW c \in S, NEW d \in S, NEW e \in S, Beats(a, c, d), Beats(a, d, e)
      PROVE  Beats(a, c, e)
  <2>1. MaskLess(c, d) /\ MaskLess(d, e) => MaskLess(c, e)
    BY OfferFacts, MaskTransitive
  <2>2. Welfare(a, c) \in Nat /\ Welfare(a, d) \in Nat /\ Welfare(a, e) \in Nat
    BY WelfareNat
  <2> QED
    BY <1>2, <2>1, <2>2 DEF Beats
<1>3. ASSUME NEW c \in S PROVE ~Beats(a, c, c)
  <2>1. Welfare(a, c) \in Nat
    BY WelfareNat
  <2> QED
    BY <2>1 DEF Beats, MaskLess
<1> QED
  BY <1>1, <1>2, <1>3 DEF TotalOn, BeatsOn

LEMMA AllowedFacts ==
  ASSUME NEW a, AuctionOK(a), NEW t
  PROVE  /\ Allowed(a, t) \in SUBSET (SUBSET Indices(a))
         /\ IsFiniteSet(Allowed(a, t)) /\ {} \in Allowed(a, t)
<1>1. Allowed(a, t) \subseteq SUBSET Indices(a)
  BY DEF Allowed
<1>2. IsFiniteSet(Allowed(a, t))
  BY <1>1, OfferFacts, FS_SUBSET, FS_Subset
<1>3. Feasible(a, {})
  <2>1. ASSUME NEW tick \in 0 .. a.horizon - 1, NEW h \in DOMAIN a.capacity
        PROVE  SumFunctionOnSet([i \in Indices(a) |-> CoresAt(a.offers[i], h)], Running(a, {}, tick))
                 <= a.capacity[h]
    <3>1. Running(a, {}, tick) = {}
      BY DEF Running
    <3>2. SumFunctionOnSet([i \in Indices(a) |-> CoresAt(a.offers[i], h)], {}) = 0
      BY SumEmpty
    <3>3. a.capacity[h] \in Nat
      BY DEF AuctionOK
    <3> QED
      BY <3>1, <3>2, <3>3
  <2>2. \A tick : Running(a, {}, tick) = {}
    BY DEF Running
  <2> QED
    BY <2>1, <2>2 DEF Feasible
<1> QED
  BY <1>1, <1>2, <1>3 DEF Allowed

\* There is one optimum, it is allowed, and it beats every other allowed choice.
LEMMA OptimumBest ==
  ASSUME NEW a, AuctionOK(a), NEW t
  PROVE  /\ Optimum(a, t) \in Allowed(a, t) /\ Optimum(a, t) \in SUBSET Indices(a)
         /\ \A c \in Allowed(a, t) : c # Optimum(a, t) => Beats(a, Optimum(a, t), c)
         /\ \A c \in Allowed(a, t) : Welfare(a, c) <= Welfare(a, Optimum(a, t))
<1> DEFINE S == Allowed(a, t)
<1>1. S \in SUBSET (SUBSET Indices(a)) /\ IsFiniteSet(S) /\ S # {}
  BY AllowedFacts
<1>2. \E m \in S : \A x \in S : x # m => <<x, m>> \in BeatsOn(a, S)
  <2> HIDE DEF S
  <2> QED
    BY <1>1, BeatsTotal, GreatestExists
<1>3. \E m \in S : \A x \in S : m # x => Beats(a, m, x)
  BY <1>2 DEF BeatsOn
<1>4. Optimum(a, t) \in S /\ \A x \in S : Optimum(a, t) # x => Beats(a, Optimum(a, t), x)
  BY <1>3 DEF Optimum
<1>5. ASSUME NEW c \in S PROVE Welfare(a, c) <= Welfare(a, Optimum(a, t))
  <2>1. Welfare(a, c) \in Nat /\ Welfare(a, Optimum(a, t)) \in Nat
    BY <1>1, <1>4, WelfareNat
  <2> QED
    BY <1>4, <2>1 DEF Beats
<1> QED
  BY <1>1, <1>4, <1>5

\* Two choices cannot both be at least as good as each other, unless they are the same.
LEMMA BeatsOneWay ==
  ASSUME NEW a, AuctionOK(a), NEW c \in SUBSET Indices(a), NEW d \in SUBSET Indices(a), Beats(a, c, d)
  PROVE  ~Beats(a, d, c) /\ c # d
<1> DEFINE S == SUBSET Indices(a)
<1>1. TotalOn(BeatsOn(a, S), S)
  BY BeatsTotal
<1>2. <<d, c>> \in BeatsOn(a, S) /\ (Beats(a, d, c) => <<c, d>> \in BeatsOn(a, S))
  BY DEF BeatsOn
<1> QED
  BY <1>1, <1>2 DEF TotalOn

-----------------------------------------------------------------------------
(* The capacity rows mean what Feasible says, tick by tick.                *)

LEMMA OnesAtMostOne ==
  ASSUME NEW S, IsFiniteSet(S), NEW f, \A x \in S : f[x] = 1
  PROVE  SumFunctionOnSet(f, S) <= 1 <=> \A x, y \in S : x = y
<1>1. CASE S = {}
  BY <1>1, SumEmpty
<1>2. CASE S # {}
  <2>1. PICK x \in S : TRUE
    BY <1>2
  <2> DEFINE T == S \ {x}
  <2>2. IsFiniteSet(T) /\ \A y \in T : f[y] \in Nat /\ f[y] \in Int /\ f[y] = 1
    BY FS_Subset
  <2>3. SumFunctionOnSet(f, S) = 1 + SumFunctionOnSet(f, T)
    BY SumRemove
  <2>4. SumFunctionOnSet(f, T) \in Nat
    <3> HIDE DEF T
    <3> QED
      BY <2>2, SumNat
  <2>5. CASE T = {}
    <3>1. SumFunctionOnSet(f, S) = 1
      <4>1. SumFunctionOnSet(f, {}) = 0
        BY SumEmpty
      <4> HIDE DEF T
      <4> QED
        BY <2>3, <2>5, <4>1
    <3> QED
      BY <2>5, <3>1
  <2>6. CASE T # {}
    <3>1. PICK y \in T : TRUE
      BY <2>6
    <3>2. SumFunctionOnSet(f, T) = 1 + SumFunctionOnSet(f, T \ {y})
      <4> HIDE DEF T
      <4> QED
        BY <2>2, SumRemove
    <3>3. SumFunctionOnSet(f, T \ {y}) \in Nat
      <4> DEFINE V == T \ {y}
      <4>1. IsFiniteSet(V) /\ \A z \in V : f[z] \in Nat
        BY <2>2, FS_Subset
      <4> HIDE DEF V, T
      <4>2. SumFunctionOnSet(f, V) \in Nat
        BY <4>1, SumNat
      <4> QED
        BY <4>2 DEF V
    <3>4. ~(SumFunctionOnSet(f, S) <= 1)
      <4> HIDE DEF T
      <4> QED
        BY <2>3, <3>2, <3>3
    <3>5. x # y /\ y \in S
      OBVIOUS
    <3> QED
      BY <3>4, <3>5
  <2> QED
    BY <2>5, <2>6
<1> QED
  BY <1>1, <1>2

LEMMA MinIs ==
  ASSUME NEW S \in SUBSET Int, IsFiniteSet(S), S # {}
  PROVE  \E m \in S : \A x \in S : m <= x
<1> DEFINE R == {xy \in S \X S : xy[1] > xy[2]}
<1>1. TotalOn(R, S)
  BY DEF TotalOn
<1>2. PICK m \in S : \A x \in S : x # m => <<x, m>> \in R
  <2> HIDE DEF R
  <2> QED
    BY <1>1, GreatestExists
<1>3. ASSUME NEW x \in S PROVE m <= x
  <2>1. x \in Int /\ m \in Int
    OBVIOUS
  <2>2. x # m => x > m
    BY <1>2
  <2> QED
    BY <2>1, <2>2
<1> QED
  BY <1>3

LEMMA EventFacts ==
  ASSUME NEW a, AuctionOK(a)
  PROVE  /\ IsFiniteSet(Events(a)) /\ Events(a) \in SUBSET Int
         /\ \A e \in Events(a) : e \in Nat /\ e <= a.horizon
         /\ \A i \in Indices(a) : /\ a.offers[i].start \in Events(a) /\ a.offers[i].end \in Events(a)
                                  /\ a.offers[i].start < a.offers[i].end
<1>1. ASSUME NEW i \in Indices(a)
      PROVE  /\ a.offers[i].start \in Nat /\ a.offers[i].end \in Nat
             /\ a.offers[i].start < a.offers[i].end /\ a.offers[i].end <= a.horizon
  BY <1>1 DEF AuctionOK, OfferOK
<1>2. a.horizon \in Nat
  BY DEF AuctionOK
<1>3. \A e \in Events(a) : e \in 0 .. a.horizon
  BY <1>1, <1>2 DEF Events
<1>4. IsFiniteSet(0 .. a.horizon)
  BY <1>2, FS_Interval
<1>5. IsFiniteSet(Events(a))
  BY <1>3, <1>4, FS_Subset
<1>6. \A i \in Indices(a) : a.offers[i].start \in Events(a) /\ a.offers[i].end \in Events(a)
  BY DEF Events
<1> QED
  BY <1>1, <1>2, <1>3, <1>5, <1>6

\* In a segment the same offers are active from its first tick to its last.
LEMMA SegmentTick ==
  ASSUME NEW a, AuctionOK(a), NEW s \in Segments(a), NEW tick \in Int, s[1] <= tick, tick < s[2]
  PROVE  ActiveIn(a, s) = Running(a, Indices(a), tick)
<1>1. /\ s[1] \in Events(a) /\ s[2] \in Events(a) /\ s[1] < s[2]
      /\ ~ \E e \in Events(a) : s[1] < e /\ e < s[2]
  BY DEF Segments
<1>2. s[1] \in Int /\ s[2] \in Int
  BY <1>1, EventFacts
<1>3. ASSUME NEW i \in Indices(a)
      PROVE  (a.offers[i].start < s[2] /\ s[1] < a.offers[i].end)
                <=> (a.offers[i].start <= tick /\ tick < a.offers[i].end)
  <2> DEFINE b == a.offers[i].start   e == a.offers[i].end
  <2>1. b \in Events(a) /\ e \in Events(a) /\ b \in Int /\ e \in Int
    BY EventFacts
  <2>2. ~(s[1] < b /\ b < s[2]) /\ ~(s[1] < e /\ e < s[2])
    BY <1>1, <2>1
  <2> HIDE DEF b, e
  <2>3. (b < s[2] /\ s[1] < e) <=> (b <= tick /\ tick < e)
    BY <1>2, <2>1, <2>2
  <2> QED
    BY <2>3 DEF b, e
<1> QED
  BY <1>3 DEF ActiveIn, Running, Active

\* A tick at which an offer runs lies in a segment.
LEMMA TickSegment ==
  ASSUME NEW a, AuctionOK(a), NEW tick \in Int, NEW i \in Running(a, Indices(a), tick)
  PROVE  \E s \in Segments(a) : s[1] <= tick /\ tick < s[2]
<1> DEFINE Lower == {e \in Events(a) : e <= tick}
           Later == {e \in Events(a) : tick < e}
<1>1. /\ i \in Indices(a) /\ a.offers[i].start \in Lower /\ a.offers[i].end \in Later
  BY EventFacts DEF Running
<1>2. /\ IsFiniteSet(Lower) /\ Lower \in SUBSET Int /\ IsFiniteSet(Later) /\ Later \in SUBSET Int
  BY EventFacts, FS_Subset
<1>3. \E m \in Lower : \A x \in Lower : x <= m
  <2>1. Max(Lower) \in Lower /\ \A x \in Lower : x <= Max(Lower)
    <3> HIDE DEF Lower
    <3> QED
      BY <1>1, <1>2, MaxIs
  <2> QED
    BY <2>1
<1>4. \E m \in Later : \A x \in Later : m <= x
  <2> HIDE DEF Later
  <2> QED
    BY <1>1, <1>2, MinIs
<1>5. PICK b \in Lower : \A x \in Lower : x <= b
  BY <1>3
<1>6. PICK e \in Later : \A x \in Later : e <= x
  BY <1>4
<1>7. b \in Events(a) /\ e \in Events(a) /\ b \in Int /\ e \in Int /\ b <= tick /\ tick < e
  BY <1>2, <1>5, <1>6
<1>8. ASSUME NEW x \in Events(a), b < x, x < e PROVE FALSE
  <2>1. x \in Int /\ (x \in Lower \/ x \in Later)
    BY EventFacts
  <2> QED
    BY <1>5, <1>6, <1>7, <1>8, <2>1
<1>9. <<b, e>> \in Segments(a)
  BY <1>7, <1>8 DEF Segments
<1> QED
  BY <1>7, <1>9

\* What the rows demand, each kind in turn.
LEMMA TenantRowsMean ==
  ASSUME NEW a, AuctionOK(a), NEW c \in SUBSET Indices(a)
  PROVE  (\A r \in TenantRows(a) : Load(r, c) <= r.capacity)
           <=> \A i, j \in c : a.offers[i].tenant = a.offers[j].tenant => i = j
<1> DEFINE row(t) == Row(<<"tenant", t>>, [i \in OffersOf(a, t) |-> 1], 1)
<1>1. ASSUME NEW t \in a.tenants
      PROVE  Load(row(t), c) <= row(t).capacity <=> \A i, j \in c \cap OffersOf(a, t) : i = j
  <2> DEFINE S == c \cap OffersOf(a, t)   f == [i \in OffersOf(a, t) |-> 1]
  <2>1. IsFiniteSet(S) /\ \A i \in S : f[i] = 1
    BY OfferFacts, FS_Subset
  <2>2. Load(row(t), c) = SumFunctionOnSet(f, S) /\ row(t).capacity = 1
    BY DEF Load, Row
  <2> HIDE DEF S, f
  <2>3. SumFunctionOnSet(f, S) <= 1 <=> \A i, j \in S : i = j
    BY <2>1, OnesAtMostOne
  <2> QED
    BY <2>2, <2>3 DEF S
<1>2. \A t : DOMAIN row(t).terms = OffersOf(a, t)
  BY DEF Row
<1>3. TenantRows(a) = {r \in {row(t) : t \in a.tenants} : DOMAIN r.terms # {}}
  BY DEF TenantRows
<1> HIDE DEF row
<1>4. ASSUME \A r \in TenantRows(a) : Load(r, c) <= r.capacity,
             NEW i \in c, NEW j \in c, a.offers[i].tenant = a.offers[j].tenant
      PROVE  i = j
  <2> DEFINE t == a.offers[i].tenant
  <2>1. t \in a.tenants /\ i \in c \cap OffersOf(a, t) /\ j \in c \cap OffersOf(a, t)
    BY <1>4, OfferFacts DEF OffersOf
  <2>2. row(t) \in TenantRows(a)
    BY <1>2, <1>3, <2>1
  <2> QED
    BY <1>1, <1>4, <2>1, <2>2
<1>5. ASSUME \A i, j \in c : a.offers[i].tenant = a.offers[j].tenant => i = j,
             NEW r \in TenantRows(a)
      PROVE  Load(r, c) <= r.capacity
  <2>1. PICK t \in a.tenants : r = row(t)
    BY <1>3
  <2>2. \A i, j \in c \cap OffersOf(a, t) : i = j
    BY <1>5 DEF OffersOf
  <2> QED
    BY <1>1, <2>1, <2>2
<1> QED
  BY <1>4, <1>5

LEMMA SliceRowsMean ==
  ASSUME NEW a, AuctionOK(a), NEW c \in SUBSET Indices(a)
  PROVE  (\A r \in SliceRows(a) : Load(r, c) <= r.capacity)
           <=> \A s \in Segments(a) : \A i, j \in c \cap ActiveIn(a, s) :
                 a.offers[i].slots \cap a.offers[j].slots # {} => i = j
<1> DEFINE Users(p, s) == {j \in ActiveIn(a, s) : p \in a.offers[j].slots}
           row(p, s) == Row(<<"slice", p>>, [i \in Users(p, s) |-> 1], 1)
<1>1. ASSUME NEW p \in a.slots, NEW s \in Segments(a)
      PROVE  Load(row(p, s), c) <= row(p, s).capacity <=> \A i, j \in c \cap Users(p, s) : i = j
  <2> DEFINE S == c \cap Users(p, s)   f == [i \in Users(p, s) |-> 1]
  <2>1. IsFiniteSet(S) /\ \A i \in S : f[i] = 1
    BY OfferFacts, FS_Subset
  <2>2. Load(row(p, s), c) = SumFunctionOnSet(f, S) /\ row(p, s).capacity = 1
    BY DEF Load, Row
  <2> HIDE DEF S, f
  <2>3. SumFunctionOnSet(f, S) <= 1 <=> \A i, j \in S : i = j
    BY <2>1, OnesAtMostOne
  <2> QED
    BY <2>2, <2>3 DEF S
<1>2. \A p, s : DOMAIN row(p, s).terms = Users(p, s)
  BY DEF Row
<1>3. SliceRows(a) = {r \in {row(p, s) : p \in a.slots, s \in Segments(a)} : DOMAIN r.terms # {}}
  BY DEF SliceRows
<1> HIDE DEF row
<1>4. ASSUME \A r \in SliceRows(a) : Load(r, c) <= r.capacity,
             NEW s \in Segments(a), NEW i \in c \cap ActiveIn(a, s), NEW j \in c \cap ActiveIn(a, s),
             a.offers[i].slots \cap a.offers[j].slots # {}
      PROVE  i = j
  <2>1. PICK p \in a.offers[i].slots : p \in a.offers[j].slots
    BY <1>4
  <2>2. p \in a.slots
    BY <2>1 DEF AuctionOK, OfferOK
  <2>3. i \in c \cap Users(p, s) /\ j \in c \cap Users(p, s)
    BY <2>1
  <2>4. row(p, s) \in SliceRows(a)
    <3> HIDE DEF Users
    <3>1. DOMAIN row(p, s).terms # {}
      BY <1>2, <2>3
    <3> QED
      BY <1>3, <2>2, <3>1
  <2> HIDE DEF Users
  <2> QED
    BY <1>1, <1>4, <2>2, <2>3, <2>4
<1>5. ASSUME \A s \in Segments(a) : \A i, j \in c \cap ActiveIn(a, s) :
                a.offers[i].slots \cap a.offers[j].slots # {} => i = j,
             NEW r \in SliceRows(a)
      PROVE  Load(r, c) <= r.capacity
  <2>1. PICK p \in a.slots, s \in Segments(a) : r = row(p, s)
    BY <1>3
  <2>2. \A i, j \in c \cap Users(p, s) : i = j
    BY <1>5
  <2> HIDE DEF Users
  <2> QED
    BY <1>1, <2>1, <2>2
<1> QED
  BY <1>4, <1>5

\* The cores of host h that each offer asks for.
Cores(a, h) == [i \in Indices(a) |-> CoresAt(a.offers[i], h)]

LEMMA CoresNat ==
  ASSUME NEW a, AuctionOK(a), NEW h, NEW i \in Indices(a)
  PROVE  CoresAt(a.offers[i], h) \in Nat
  BY DEF AuctionOK, OfferOK, CoresAt

LEMMA CpuRowsMean ==
  ASSUME NEW a, AuctionOK(a), NEW c \in SUBSET Indices(a)
  PROVE  (\A r \in CpuRows(a) : Load(r, c) <= r.capacity)
           <=> \A s \in Segments(a) : \A h \in DOMAIN a.capacity :
                 SumFunctionOnSet(Cores(a, h), c \cap ActiveIn(a, s)) <= a.capacity[h]
<1> DEFINE Users(h, s) == {j \in ActiveIn(a, s) : CoresAt(a.offers[j], h) > 0}
           row(h, s) == Row(<<"cpu", h>>, [i \in Users(h, s) |-> CoresAt(a.offers[i], h)], a.capacity[h])
<1>1. ASSUME NEW h \in DOMAIN a.capacity, NEW s \in Segments(a)
      PROVE  /\ Load(row(h, s), c) = SumFunctionOnSet(Cores(a, h), c \cap ActiveIn(a, s))
             /\ row(h, s).capacity = a.capacity[h]
             /\ DOMAIN row(h, s).terms = {} => SumFunctionOnSet(Cores(a, h), c \cap ActiveIn(a, s)) = 0
  <2> DEFINE S == c \cap ActiveIn(a, s)
             T == c \cap Users(h, s)
             f == [i \in Users(h, s) |-> CoresAt(a.offers[i], h)]
             g == Cores(a, h)
  <2>1. IsFiniteSet(S) /\ IsFiniteSet(T) /\ IsFiniteSet(S \ T) /\ T \in SUBSET S
    BY OfferFacts, FS_Subset
  <2>2. \A i \in S : g[i] \in Nat /\ g[i] \in Int
    BY CoresNat DEF Cores
  <2>3. \A i \in T : f[i] \in Int /\ f[i] = g[i]
    BY CoresNat DEF Cores
  <2>4. \A i \in S \ T : g[i] = 0
    <3> SUFFICES ASSUME NEW i \in S \ T PROVE g[i] = 0
      OBVIOUS
    <3>1. g[i] = CoresAt(a.offers[i], h) /\ CoresAt(a.offers[i], h) \in Nat
      BY CoresNat DEF Cores
    <3>2. ~(CoresAt(a.offers[i], h) > 0)
      OBVIOUS
    <3> QED
      BY <3>1, <3>2
  <2>5. /\ Load(row(h, s), c) = SumFunctionOnSet(f, T) /\ row(h, s).capacity = a.capacity[h]
        /\ DOMAIN row(h, s).terms = Users(h, s)
    BY DEF Load, Row
  <2>6. T # {} => Users(h, s) # {}
    OBVIOUS
  <2> HIDE DEF S, T, f, g, Users, row
  <2>7. SumFunctionOnSet(g, S) = SumFunctionOnSet(g, T) + SumFunctionOnSet(g, S \ T)
    BY <2>1, <2>2, SumOfPart
  <2>8. SumFunctionOnSet(g, S \ T) = 0
    BY <2>1, <2>4, SumZero
  <2>9. SumFunctionOnSet(f, T) = SumFunctionOnSet(g, T)
    BY <2>1, <2>3, SumSame
  <2>10. SumFunctionOnSet(g, T) \in Int
    BY <2>1, <2>2, SumInt
  <2>11. SumFunctionOnSet(g, S) = SumFunctionOnSet(f, T)
    BY <2>7, <2>8, <2>9, <2>10
  <2>12. T = {} => SumFunctionOnSet(f, T) = 0
    BY SumEmpty
  <2> QED
    BY <2>5, <2>6, <2>11, <2>12 DEF S, g
<1>2. CpuRows(a) = {r \in {row(h, s) : h \in DOMAIN a.capacity, s \in Segments(a)} : DOMAIN r.terms # {}}
  BY DEF CpuRows
<1> HIDE DEF row
<1>3. ASSUME \A r \in CpuRows(a) : Load(r, c) <= r.capacity,
             NEW s \in Segments(a), NEW h \in DOMAIN a.capacity
      PROVE  SumFunctionOnSet(Cores(a, h), c \cap ActiveIn(a, s)) <= a.capacity[h]
  <2>1. CASE DOMAIN row(h, s).terms = {}
    <3>1. a.capacity[h] \in Nat
      BY DEF AuctionOK
    <3> QED
      BY <1>1, <2>1, <3>1
  <2>2. CASE DOMAIN row(h, s).terms # {}
    <3>1. row(h, s) \in CpuRows(a)
      BY <1>2, <2>2
    <3> QED
      BY <1>1, <1>3, <3>1
  <2> QED
    BY <2>1, <2>2
<1>4. ASSUME \A s \in Segments(a) : \A h \in DOMAIN a.capacity :
                SumFunctionOnSet(Cores(a, h), c \cap ActiveIn(a, s)) <= a.capacity[h],
             NEW r \in CpuRows(a)
      PROVE  Load(r, c) <= r.capacity
  <2>1. PICK h \in DOMAIN a.capacity, s \in Segments(a) : r = row(h, s)
    BY <1>2
  <2> QED
    BY <1>1, <1>4, <2>1
<1> QED
  BY <1>3, <1>4

\* The rows of compile_model hold of exactly the choices that respect the inventory at
\* every tick: dividing time at the event points loses nothing.
THEOREM RowsMeanFeasible ==
  ASSUME NEW a, AuctionOK(a), NEW t, NEW c \in SUBSET Indices(a)
  PROVE  RowsFeasible(a, CompileModel(a), c, t) <=> c \in Allowed(a, t)
<1> DEFINE Clear(S) == \A i, j \in S : a.offers[i].slots \cap a.offers[j].slots # {} => i = j
           Fit(S) == \A h \in DOMAIN a.capacity : SumFunctionOnSet(Cores(a, h), S) <= a.capacity[h]
           One == \A i, j \in c : a.offers[i].tenant = a.offers[j].tenant => i = j
<1>1. (\A r \in CompileModel(a) : Load(r, c) <= r.capacity)
        <=> One /\ \A s \in Segments(a) : Clear(c \cap ActiveIn(a, s)) /\ Fit(c \cap ActiveIn(a, s))
  BY TenantRowsMean, SliceRowsMean, CpuRowsMean DEF CompileModel
<1>2. Feasible(a, c) <=> One /\ \A tick \in 0 .. a.horizon - 1 : Clear(Running(a, c, tick)) /\ Fit(Running(a, c, tick))
  BY DEF Feasible, Cores
<1>3. \A tick : Running(a, c, tick) = c \cap Running(a, Indices(a), tick)
  BY DEF Running
<1>4. Clear({}) /\ Fit({})
  <2>1. \A h \in DOMAIN a.capacity : SumFunctionOnSet(Cores(a, h), {}) = 0 /\ a.capacity[h] \in Nat
    BY SumEmpty DEF AuctionOK
  <2> QED
    BY <2>1
<1> HIDE DEF Clear, Fit, One
<1>5. ASSUME NEW s \in Segments(a)
      PROVE  \E tick \in 0 .. a.horizon - 1 : c \cap ActiveIn(a, s) = Running(a, c, tick)
  <2>1. s[1] \in Events(a) /\ s[2] \in Events(a) /\ s[1] < s[2]
    BY DEF Segments
  <2>2. s[1] \in Nat /\ s[2] \in Nat /\ s[2] <= a.horizon /\ a.horizon \in Nat
    BY <2>1, EventFacts DEF AuctionOK
  <2>3. s[1] \in 0 .. a.horizon - 1 /\ s[1] \in Int /\ s[1] <= s[1]
    BY <2>1, <2>2
  <2>4. ActiveIn(a, s) = Running(a, Indices(a), s[1])
    BY <2>1, <2>3, SegmentTick
  <2> QED
    BY <1>3, <2>3, <2>4
<1>6. ASSUME NEW tick \in 0 .. a.horizon - 1, Running(a, c, tick) # {}
      PROVE  \E s \in Segments(a) : c \cap ActiveIn(a, s) = Running(a, c, tick)
  <2>0. tick \in Int
    BY DEF AuctionOK
  <2>1. tick \in Int /\ \E i : i \in Running(a, Indices(a), tick)
    BY <2>0, <1>3, <1>6
  <2>2. PICK s \in Segments(a) : s[1] <= tick /\ tick < s[2]
    BY <2>1, TickSegment
  <2>3. ActiveIn(a, s) = Running(a, Indices(a), tick)
    BY <2>1, <2>2, SegmentTick
  <2> QED
    BY <1>3, <2>3
<1>7. (\A r \in CompileModel(a) : Load(r, c) <= r.capacity) <=> Feasible(a, c)
  <2>1. ASSUME \A s \in Segments(a) : Clear(c \cap ActiveIn(a, s)) /\ Fit(c \cap ActiveIn(a, s)),
               NEW tick \in 0 .. a.horizon - 1
        PROVE  Clear(Running(a, c, tick)) /\ Fit(Running(a, c, tick))
    <3>1. CASE Running(a, c, tick) = {}
      BY <1>4, <3>1
    <3>2. CASE Running(a, c, tick) # {}
      <4>1. PICK s \in Segments(a) : c \cap ActiveIn(a, s) = Running(a, c, tick)
        BY <1>6, <3>2
      <4> QED
        BY <2>1, <4>1
    <3> QED
      BY <3>1, <3>2
  <2>2. ASSUME \A tick \in 0 .. a.horizon - 1 : Clear(Running(a, c, tick)) /\ Fit(Running(a, c, tick)),
               NEW s \in Segments(a)
        PROVE  Clear(c \cap ActiveIn(a, s)) /\ Fit(c \cap ActiveIn(a, s))
    <3>1. PICK tick \in 0 .. a.horizon - 1 : c \cap ActiveIn(a, s) = Running(a, c, tick)
      BY <1>5
    <3> QED
      BY <2>2, <3>1
  <2> QED
    BY <1>1, <1>2, <2>1, <2>2
<1> QED
  BY <1>7 DEF RowsFeasible, Allowed

\* What is free of a choice stays free of a part of it.
LEMMA AllowedPart ==
  ASSUME NEW a, AuctionOK(a), NEW t, NEW c \in Allowed(a, t), NEW d \in SUBSET c
  PROVE  d \in Allowed(a, t)
<1>1. c \in SUBSET Indices(a) /\ Feasible(a, c)
  BY DEF Allowed
<1>2. \A tick : Running(a, d, tick) \in SUBSET Running(a, c, tick) /\ Running(a, c, tick) \in SUBSET Indices(a)
  BY <1>1 DEF Running
<1>3. ASSUME NEW tick \in 0 .. a.horizon - 1, NEW h \in DOMAIN a.capacity
      PROVE  SumFunctionOnSet(Cores(a, h), Running(a, d, tick)) <= a.capacity[h]
  <2> DEFINE R == Running(a, c, tick)   S == Running(a, d, tick)   T == R \ S   f == Cores(a, h)
  <2>1. IsFiniteSet(R) /\ IsFiniteSet(S) /\ IsFiniteSet(T) /\ S \in SUBSET R /\ T \in SUBSET R
    BY <1>2, OfferFacts
  <2>2. \A i \in R : f[i] \in Nat /\ f[i] \in Int
    BY <1>2, CoresNat DEF Cores
  <2>3. SumFunctionOnSet(f, R) <= a.capacity[h] /\ a.capacity[h] \in Nat
    BY <1>1 DEF Feasible, Cores, AuctionOK
  <2>t. T = R \ S
    OBVIOUS
  <2> HIDE DEF R, S, T, f
  <2>4. SumFunctionOnSet(f, R) = SumFunctionOnSet(f, S) + SumFunctionOnSet(f, T)
    BY <2>1, <2>2, <2>t, SumOfPart
  <2>5. SumFunctionOnSet(f, T) \in Nat /\ SumFunctionOnSet(f, S) \in Nat
    BY <2>1, <2>2, SumNat
  <2>6. SumFunctionOnSet(f, S) <= a.capacity[h]
    BY <2>3, <2>4, <2>5
  <2> QED
    BY <2>6 DEF S, f
<1>4. Feasible(a, d)
  <2>1. \A i, j \in d : a.offers[i].tenant = a.offers[j].tenant => i = j
    BY <1>1 DEF Feasible
  <2>2. ASSUME NEW tick \in 0 .. a.horizon - 1, NEW i \in Running(a, d, tick), NEW j \in Running(a, d, tick),
               a.offers[i].slots \cap a.offers[j].slots # {}
        PROVE  i = j
    BY <1>1, <1>2, <2>2 DEF Feasible
  <2> QED
    BY <1>3, <2>1, <2>2 DEF Feasible, Cores
<1> QED
  BY <1>4 DEF Allowed

\* Leaving out a tenant is a further demand.
LEMMA AllowedOthers ==
  ASSUME NEW a, AuctionOK(a), NEW t \in a.tenants
  PROVE  /\ Allowed(a, t) \subseteq Allowed(a, None)
         /\ \A c \in Allowed(a, None) : c \ OffersOf(a, t) \in Allowed(a, t)
<1>1. \A i \in Indices(a) : a.offers[i].tenant # None
  BY OfferFacts DEF AuctionOK
<1>2. Allowed(a, t) \subseteq Allowed(a, None)
  BY <1>1 DEF Allowed
<1>3. ASSUME NEW c \in Allowed(a, None) PROVE c \ OffersOf(a, t) \in Allowed(a, t)
  <2> DEFINE d == c \ OffersOf(a, t)
  <2>1. d \in Allowed(a, None)
    BY AllowedPart
  <2>2. \A i \in d : a.offers[i].tenant # t
    BY <2>1 DEF Allowed, OffersOf
  <2> QED
    BY <2>1, <2>2 DEF Allowed
<1> QED
  BY <1>2, <1>3

\* The terms of a row are amounts of offers, and its capacity is an amount.
LEMMA RowFacts ==
  ASSUME NEW a, AuctionOK(a), NEW r \in CompileModel(a)
  PROVE  /\ r.capacity \in Nat /\ DOMAIN r.terms \in SUBSET Indices(a)
         /\ \A i \in DOMAIN r.terms : r.terms[i] \in Nat
<1>1. ASSUME r \in TenantRows(a) \/ r \in SliceRows(a)
      PROVE  /\ r.capacity \in Nat /\ DOMAIN r.terms \in SUBSET Indices(a)
             /\ \A i \in DOMAIN r.terms : r.terms[i] \in Nat
  <2>1. \E S \in SUBSET Indices(a) : \E n : r = Row(n, [i \in S |-> 1], 1)
    <3>1. CASE r \in TenantRows(a)
      <4>1. \A t : OffersOf(a, t) \in SUBSET Indices(a)
        BY DEF OffersOf
      <4> QED
        BY <3>1, <4>1 DEF TenantRows
    <3>2. CASE r \in SliceRows(a)
      <4>1. \A p, s : {j \in ActiveIn(a, s) : p \in a.offers[j].slots} \in SUBSET Indices(a)
        BY DEF ActiveIn
      <4> DEFINE row(p, s) ==
                   Row(<<"slice", p>>, [i \in {j \in ActiveIn(a, s) : p \in a.offers[j].slots} |-> 1], 1)
      <4>2. SliceRows(a) = {q \in {row(p, s) : p \in a.slots, s \in Segments(a)} : DOMAIN q.terms # {}}
        BY DEF SliceRows
      <4>3. PICK p \in a.slots, s \in Segments(a) : r = row(p, s)
        <5> HIDE DEF row
        <5> QED
          BY <3>2, <4>2
      <4> QED
        BY <4>1, <4>3
    <3> QED
      BY <1>1, <3>1, <3>2
  <2>2. PICK S \in SUBSET Indices(a) : \E n : r = Row(n, [i \in S |-> 1], 1)
    BY <2>1
  <2>3. r.capacity = 1 /\ r.terms = [i \in S |-> 1]
    BY <2>2 DEF Row
  <2> QED
    BY <2>3
<1>2. ASSUME r \in CpuRows(a)
      PROVE  /\ r.capacity \in Nat /\ DOMAIN r.terms \in SUBSET Indices(a)
             /\ \A i \in DOMAIN r.terms : r.terms[i] \in Nat
  <2> DEFINE row(h, s) == Row(<<"cpu", h>>,
                   [i \in {j \in ActiveIn(a, s) : CoresAt(a.offers[j], h) > 0} |-> CoresAt(a.offers[i], h)],
                   a.capacity[h])
  <2>0. CpuRows(a) = {q \in {row(h, s) : h \in DOMAIN a.capacity, s \in Segments(a)} : DOMAIN q.terms # {}}
    BY DEF CpuRows
  <2>1. PICK h \in DOMAIN a.capacity, s \in Segments(a) : r = row(h, s)
    <3> HIDE DEF row
    <3> QED
      BY <1>2, <2>0
  <2>2. r.capacity = a.capacity[h]
        /\ r.terms = [i \in {j \in ActiveIn(a, s) : CoresAt(a.offers[j], h) > 0} |-> CoresAt(a.offers[i], h)]
    BY <2>1 DEF Row
  <2>3. a.capacity[h] \in Nat /\ ActiveIn(a, s) \in SUBSET Indices(a)
    BY DEF AuctionOK, ActiveIn
  <2>4. \A i \in ActiveIn(a, s) : CoresAt(a.offers[i], h) \in Nat
    BY <2>3, CoresNat
  <2> QED
    BY <2>2, <2>3, <2>4
<1> QED
  BY <1>1, <1>2 DEF CompileModel

LEMMA LoadNat ==
  ASSUME NEW a, AuctionOK(a), NEW r \in CompileModel(a), NEW c
  PROVE  Load(r, c) \in Nat
<1>1. IsFiniteSet(c \cap DOMAIN r.terms) /\ \A i \in c \cap DOMAIN r.terms : r.terms[i] \in Nat
  BY RowFacts, OfferFacts, FS_Subset
<1> QED
  BY <1>1, SumNat DEF Load

\* A sum of products with the bits of a choice is the sum over what is chosen.
LEMMA SumExpressionIs ==
  ASSUME NEW f, IsFiniteSet(DOMAIN f), \A i \in DOMAIN f : f[i] \in Int, NEW c
  PROVE  SumExpression(f, c) = SumFunctionOnSet(f, c \cap DOMAIN f)
<1> DEFINE D == DOMAIN f   T == c \cap D   g == [i \in D |-> f[i] * Bit(c, i)]
<1>1. /\ \A i \in D : g[i] = IF i \in c THEN f[i] ELSE 0
      /\ SumExpression(f, c) = SumFunctionOnSet(g, D)
  <2>1. \A i \in D : g[i] = f[i] * Bit(c, i) /\ (Bit(c, i) = IF i \in c THEN 1 ELSE 0)
    BY DEF Bit
  <2>2. \A n \in Int : n * 1 = n /\ n * 0 = 0
    OBVIOUS
  <2>3. \A i \in D : g[i] = IF i \in c THEN f[i] ELSE 0
    <3> HIDE DEF g
    <3> QED
      BY <2>1, <2>2
  <2> QED
    BY <2>3 DEF SumExpression
<1>2. IsFiniteSet(T) /\ IsFiniteSet(D \ T) /\ T \in SUBSET D /\ \A i \in D : f[i] \in Int
  BY FS_Subset
<1> HIDE DEF g
<1>3. /\ \A i \in D : g[i] \in Int
      /\ \A i \in T : f[i] \in Int /\ f[i] = g[i]
      /\ \A i \in D \ T : g[i] = 0
  BY <1>1, <1>2
<1> HIDE DEF T
<1>4. SumFunctionOnSet(g, D) = SumFunctionOnSet(g, T) + SumFunctionOnSet(g, D \ T)
  BY <1>2, <1>3, SumOfPart
<1>5. SumFunctionOnSet(g, D \ T) = 0 /\ SumFunctionOnSet(f, T) = SumFunctionOnSet(g, T)
  BY <1>2, <1>3, SumZero, SumSame
<1>6. SumFunctionOnSet(g, T) \in Int
  <2>1. \A i \in T : g[i] \in Int
    BY <1>2, <1>3
  <2> QED
    BY <1>2, <2>1, SumInt
<1> QED
  BY <1>1, <1>4, <1>5, <1>6 DEF T

\* The order of the tenants lists each tenant once.
ByRank(a) == {st \in a.tenants \X a.tenants : a.rank[st[1]] < a.rank[st[2]]}

LEMMA TenantsListed ==
  ASSUME NEW a, AuctionOK(a)
  PROVE  /\ Sorted(a.tenants, ByRank(a)) \in Seq(a.tenants)
         /\ Len(Sorted(a.tenants, ByRank(a))) >= 1
         /\ \A t \in a.tenants : \E k \in DOMAIN Sorted(a.tenants, ByRank(a)) : Sorted(a.tenants, ByRank(a))[k] = t
<1> DEFINE n == Cardinality(a.tenants)   s == Sorted(a.tenants, ByRank(a))
<1>1. TotalOn(ByRank(a), a.tenants)
  BY DEF TotalOn, ByRank, AuctionOK
<1>2. /\ n \in Nat /\ s \in [1 .. n -> a.tenants]
      /\ \A t \in a.tenants : \E k \in 1 .. n : s[k] = t
  BY <1>1, SortedLists DEF AuctionOK
<1>3. a.tenants # {}
  BY DEF AuctionOK
<1> HIDE DEF n, s
<1>4. s \in Seq(a.tenants) /\ Len(s) = n /\ DOMAIN s = 1 .. n
  BY <1>2
<1>5. n >= 1
  BY <1>2, <1>3
<1> QED
  BY <1>2, <1>4, <1>5 DEF s

-----------------------------------------------------------------------------
(* The payment rule.                                                       *)

\* What exact optimality gives the payment rule: leaving a tenant's offers out of the
\* optimum is a choice without the tenant, and a choice without it is a choice.
BetweenOthersAndWelfare(welfare, own, pivot) ==
  /\ welfare \in Nat /\ own \in Nat /\ pivot \in Nat
  /\ own <= welfare
  /\ welfare - own <= pivot
  /\ pivot <= welfare

\* The assertion of _validate_with_exact holds of every exact pivot.
THEOREM PaymentWithinBounds ==
  ASSUME NEW welfare, NEW own, NEW pivot, BetweenOthersAndWelfare(welfare, own, pivot)
  PROVE  /\ 0 <= Payment(welfare, own, pivot)
         /\ Payment(welfare, own, pivot) <= own
  BY DEF BetweenOthersAndWelfare, Payment

\* The kernel's truncated arithmetic computes the payment of the settlement, and the
\* identities of the certificate hold of it.
THEOREM NativePaymentAgrees ==
  ASSUME NEW welfare, NEW own, NEW pivot, BetweenOthersAndWelfare(welfare, own, pivot)
  PROVE  /\ NativePayment(welfare, own, pivot) = Payment(welfare, own, pivot)
         /\ own + NatSub(welfare, own) = welfare
         /\ PivotIdentity(NativePayment(welfare, own, pivot), NatSub(welfare, own), pivot, own)
         /\ NatSub(pivot, welfare) = 0
         /\ NatSub(NativePayment(welfare, own, pivot), own) = 0
  BY DEF BetweenOthersAndWelfare, Payment, NativePayment, NatSub, PivotIdentity

\* No report r beats the true value v: the outcome x is best for the others' reports
\* and v, the outcome y is whatever the report r brings, and the pivot depends on the
\* others alone.
THEOREM TruthIsDominant ==
  ASSUME NEW Outcomes, NEW others \in [Outcomes -> Nat],
         NEW v \in [Outcomes -> Nat], NEW r \in [Outcomes -> Nat],
         NEW x \in Outcomes, NEW y \in Outcomes, NEW pivot \in Nat,
         \A z \in Outcomes : v[z] + others[z] <= v[x] + others[x]
  PROVE  v[y] - Payment(r[y] + others[y], r[y], pivot)
           <= v[x] - Payment(v[x] + others[x], v[x], pivot)
<1>1. Payment(r[y] + others[y], r[y], pivot) = pivot - others[y]
  BY DEF Payment
<1>2. Payment(v[x] + others[x], v[x], pivot) = pivot - others[x]
  BY DEF Payment
<1>3. v[y] + others[y] <= v[x] + others[x]
  OBVIOUS
<1> QED
  BY <1>1, <1>2, <1>3

-----------------------------------------------------------------------------
(* The settlement.                                                         *)

\* The optimum without a tenant lies between what the others get and the welfare of all.
LEMMA ExactPivot ==
  ASSUME NEW a, AuctionOK(a), NEW t \in a.tenants
  PROVE  LET x == Optimum(a, None)
         IN  BetweenOthersAndWelfare(Welfare(a, x), Welfare(a, x \cap OffersOf(a, t)), Welfare(a, Optimum(a, t)))
<1> DEFINE x == Optimum(a, None)   y == Optimum(a, t)   mine == x \cap OffersOf(a, t)   others == x \ OffersOf(a, t)
<1>1. /\ x \in Allowed(a, None) /\ x \in SUBSET Indices(a) /\ y \in Allowed(a, t) /\ y \in SUBSET Indices(a)
      /\ \A c \in Allowed(a, None) : Welfare(a, c) <= Welfare(a, x)
      /\ \A c \in Allowed(a, t) : Welfare(a, c) <= Welfare(a, y)
  BY OptimumBest
<1>2. y \in Allowed(a, None) /\ others \in Allowed(a, t)
  BY <1>1, AllowedOthers
<1>3. mine \in SUBSET x /\ others = x \ mine /\ mine \in SUBSET Indices(a) /\ others \in SUBSET Indices(a)
  BY <1>1
<1> HIDE DEF x, y, mine, others
<1>4. Welfare(a, x) = Welfare(a, mine) + Welfare(a, others)
  BY <1>1, <1>3, WelfareParts
<1>5. Welfare(a, x) \in Nat /\ Welfare(a, y) \in Nat /\ Welfare(a, mine) \in Nat /\ Welfare(a, others) \in Nat
  BY <1>1, <1>3, WelfareNat
<1>6. Welfare(a, y) <= Welfare(a, x) /\ Welfare(a, others) <= Welfare(a, y)
  BY <1>1, <1>2
<1>7. BetweenOthersAndWelfare(Welfare(a, x), Welfare(a, mine), Welfare(a, y))
  BY <1>4, <1>5, <1>6 DEF BetweenOthersAndWelfare
<1> QED
  BY <1>7 DEF x, y, mine

\* What is still to come at each stage, and what has been.
Progress ==
  LET all == Len(Cases)
      each == Len(TenantOrder)
  IN  /\ stage \in {"admit", "solve", "compare", "pay", "certify", "settled", "refused", "limit"}
      /\ stage = "admit" => Len(submitted) < all /\ exact = <<>> /\ payments = <<>>
      /\ stage = "solve" => Len(submitted) = all /\ Len(exact) < all /\ payments = <<>>
      /\ stage = "compare" => Len(submitted) = all /\ Len(exact) = all /\ payments = <<>>
      /\ stage \in {"pay", "certify", "settled"} => Len(submitted) = all /\ Len(exact) = all /\ Agrees
      /\ stage = "pay" => Len(payments) < each
      /\ stage = "certify" => Len(payments) = each

\* What the settlement has in hand is what its steps are meant to give it.
IInv ==
  /\ auction \in Instances
  /\ submitted \in Seq(SUBSET Indices(auction))
  /\ exact \in Seq(SUBSET Indices(auction))
  /\ payments \in Seq(Int)
  /\ \A k \in DOMAIN submitted :
       k <= Len(Cases) /\ RowsFeasible(auction, CompileModel(auction), submitted[k], Cases[k])
  /\ \A k \in DOMAIN exact : exact[k] = Optimum(auction, Cases[k])
  /\ \A k \in DOMAIN payments :
       /\ k <= Len(TenantOrder)
       /\ payments[k] = Payment(Welfare(auction, exact[1]), Own(exact[1], TenantOrder[k]),
                                Welfare(auction, exact[k + 1]))
  /\ Progress

LEMMA CasesFacts ==
  ASSUME auction \in Instances
  PROVE  /\ AuctionOK(auction)
         /\ TenantOrder \in Seq(auction.tenants) /\ Len(TenantOrder) \in Nat /\ Len(TenantOrder) >= 1
         /\ Len(Cases) = Len(TenantOrder) + 1 /\ DOMAIN Cases = 1 .. Len(TenantOrder) + 1
         /\ Cases[1] = None
         /\ \A k \in 1 .. Len(TenantOrder) : Cases[k + 1] = TenantOrder[k] /\ TenantOrder[k] \in auction.tenants
         /\ \A t \in auction.tenants : \E k \in 1 .. Len(TenantOrder) : TenantOrder[k] = t
<1>1. AuctionOK(auction)
  BY AuctionAssumption
<1>2. TenantOrder = Sorted(auction.tenants, ByRank(auction))
  BY DEF TenantOrder, ByRank
<1>3. /\ TenantOrder \in Seq(auction.tenants) /\ Len(TenantOrder) >= 1
      /\ \A t \in auction.tenants : \E k \in DOMAIN TenantOrder : TenantOrder[k] = t
  BY <1>1, <1>2, TenantsListed
<1> DEFINE s == TenantOrder
<1> HIDE DEF s
<1>4. s \in Seq(auction.tenants) => DOMAIN s = 1 .. Len(s) /\ Len(s) \in Nat
        /\ Len(<<None>> \o s) = Len(s) + 1 /\ DOMAIN (<<None>> \o s) = 1 .. Len(s) + 1
        /\ (<<None>> \o s)[1] = None
        /\ \A k \in 1 .. Len(s) : (<<None>> \o s)[k + 1] = s[k] /\ s[k] \in auction.tenants
  OBVIOUS
<1> QED
  BY <1>1, <1>3, <1>4 DEF s, Cases

LEMMA InitIInv == Init => IInv
<1> SUFFICES ASSUME Init PROVE IInv
  OBVIOUS
<1>1. Len(Cases) > 0 /\ Len(submitted) = 0
  BY CasesFacts DEF Init
<1> QED
  BY <1>1 DEF Init, IInv, Progress

\* A tenant's exact figures, at its place in the order.
LEMMA ExactFigures ==
  ASSUME IInv, Len(exact) = Len(Cases), NEW k \in 1 .. Len(TenantOrder)
  PROVE  BetweenOthersAndWelfare(Welfare(auction, exact[1]), Own(exact[1], TenantOrder[k]),
                                 Welfare(auction, exact[k + 1]))
<1>1. /\ AuctionOK(auction) /\ Len(TenantOrder) \in Nat /\ Len(Cases) = Len(TenantOrder) + 1
      /\ Cases[1] = None /\ Cases[k + 1] = TenantOrder[k] /\ TenantOrder[k] \in auction.tenants
  BY CasesFacts DEF IInv
<1>2. 1 \in DOMAIN exact /\ k + 1 \in DOMAIN exact
  BY <1>1 DEF IInv
<1>3. exact[1] = Optimum(auction, None) /\ exact[k + 1] = Optimum(auction, TenantOrder[k])
  BY <1>1, <1>2 DEF IInv
<1> QED
  BY <1>1, <1>3, ExactPivot DEF Own

LEMMA AdmitIInv == IInv /\ Admit => IInv'
<1> SUFFICES ASSUME IInv, Admit PROVE IInv'
  OBVIOUS
<1>1. /\ Len(TenantOrder) \in Nat /\ Len(TenantOrder) >= 1 /\ Len(Cases) = Len(TenantOrder) + 1
      /\ submitted \in Seq(SUBSET Indices(auction))
      /\ stage = "admit" /\ Len(submitted) < Len(Cases) /\ exact = <<>> /\ payments = <<>>
  BY CasesFacts DEF IInv, Admit, Progress
<1>2. /\ auction' = auction /\ exact' = exact /\ payments' = payments
  BY DEF Admit, Refuse
<1>3. TenantOrder' = TenantOrder /\ Cases' = Cases
  BY <1>2 DEF TenantOrder, Cases
<1>4. CASE stage' = "refused" /\ submitted' = submitted
  BY <1>2, <1>3, <1>4 DEF IInv, Progress, Agrees, Own
<1>5. CASE \E choice \in SUBSET Indices(auction) :
             /\ RowsFeasible(auction, CompileModel(auction), choice, Cases[Len(submitted) + 1])
             /\ submitted' = Append(submitted, choice)
             /\ stage' = IF Len(submitted') = Len(Cases) THEN "solve" ELSE "admit"
  <2>1. PICK choice \in SUBSET Indices(auction) :
             /\ RowsFeasible(auction, CompileModel(auction), choice, Cases[Len(submitted) + 1])
             /\ submitted' = Append(submitted, choice)
             /\ stage' = IF Len(submitted') = Len(Cases) THEN "solve" ELSE "admit"
    BY <1>5
  <2>2. /\ submitted' \in Seq(SUBSET Indices(auction)) /\ Len(submitted') = Len(submitted) + 1
        /\ DOMAIN submitted' = DOMAIN submitted \cup {Len(submitted) + 1}
        /\ submitted'[Len(submitted) + 1] = choice
        /\ \A k \in DOMAIN submitted : submitted'[k] = submitted[k]
    BY <1>1, <2>1
  <2>3. \A k \in DOMAIN submitted' :
          k <= Len(Cases) /\ RowsFeasible(auction, CompileModel(auction), submitted'[k], Cases[k])
    BY <1>1, <2>1, <2>2 DEF IInv
  <2>4. Progress'
    BY <1>1, <1>2, <1>3, <2>1, <2>2 DEF Progress
  <2> QED
    BY <1>2, <1>3, <2>2, <2>3, <2>4 DEF IInv, Own
<1> QED
  BY <1>4, <1>5 DEF Admit, Admissible, Refuse

LEMMA SolveIInv == IInv /\ Solve => IInv'
<1> SUFFICES ASSUME IInv, Solve PROVE IInv'
  OBVIOUS
<1>1. /\ AuctionOK(auction) /\ Len(TenantOrder) \in Nat /\ Len(TenantOrder) >= 1
      /\ Len(Cases) = Len(TenantOrder) + 1
      /\ exact \in Seq(SUBSET Indices(auction))
      /\ stage = "solve" /\ Len(submitted) = Len(Cases) /\ Len(exact) < Len(Cases) /\ payments = <<>>
  BY CasesFacts DEF IInv, Solve, Progress
<1>2. /\ auction' = auction /\ submitted' = submitted /\ payments' = payments
      /\ stage' = IF Len(exact') = Len(Cases) THEN "compare" ELSE "solve"
      /\ exact' = Append(exact, Optimum(auction, Cases[Len(exact) + 1]))
  BY DEF Solve
<1>3. TenantOrder' = TenantOrder /\ Cases' = Cases
  BY <1>2 DEF TenantOrder, Cases
<1>4. Optimum(auction, Cases[Len(exact) + 1]) \in SUBSET Indices(auction)
  BY <1>1, OptimumBest
<1>5. /\ exact' \in Seq(SUBSET Indices(auction)) /\ Len(exact') = Len(exact) + 1
      /\ DOMAIN exact' = DOMAIN exact \cup {Len(exact) + 1}
      /\ exact'[Len(exact) + 1] = Optimum(auction, Cases[Len(exact) + 1])
      /\ \A k \in DOMAIN exact : exact'[k] = exact[k]
  BY <1>1, <1>2, <1>4
<1>6. \A k \in DOMAIN exact' : exact'[k] = Optimum(auction, Cases[k])
  BY <1>5 DEF IInv
<1>7. Progress'
  BY <1>1, <1>2, <1>3, <1>5 DEF Progress
<1>8. DOMAIN payments = {}
  BY <1>1
<1> QED
  BY <1>2, <1>3, <1>5, <1>6, <1>7, <1>8 DEF IInv

LEMMA PayIInv == IInv /\ Pay => IInv'
<1> SUFFICES ASSUME IInv, Pay PROVE IInv'
  OBVIOUS
<1> DEFINE k == Len(payments) + 1
           own == Own(exact[1], TenantOrder[k])
           payment == Payment(Welfare(auction, exact[1]), own, Welfare(auction, exact[k + 1]))
<1>1. /\ Len(TenantOrder) \in Nat /\ Len(TenantOrder) >= 1 /\ Len(Cases) = Len(TenantOrder) + 1
      /\ payments \in Seq(Int)
      /\ stage = "pay" /\ Len(submitted) = Len(Cases) /\ Len(exact) = Len(Cases) /\ Agrees
      /\ Len(payments) < Len(TenantOrder)
  BY CasesFacts DEF IInv, Pay, Progress
<1>2. /\ auction' = auction /\ submitted' = submitted /\ exact' = exact
      /\ payments' = Append(payments, payment)
      /\ stage' = IF ~(0 <= payment /\ payment <= own) THEN "irrational"
                  ELSE IF Len(payments') = Len(TenantOrder) THEN "certify" ELSE "pay"
  BY DEF Pay
<1>3. TenantOrder' = TenantOrder /\ Cases' = Cases
  BY <1>2 DEF TenantOrder, Cases
<1>4. k \in 1 .. Len(TenantOrder)
  BY <1>1
<1>5. BetweenOthersAndWelfare(Welfare(auction, exact[1]), own, Welfare(auction, exact[k + 1]))
  BY <1>1, <1>4, ExactFigures
<1>6. payment \in Int /\ 0 <= payment /\ payment <= own
  <2> HIDE DEF k, own
  <2>1. 0 <= payment /\ payment <= own
    BY <1>5, PaymentWithinBounds
  <2> QED
    BY <1>5, <2>1 DEF BetweenOthersAndWelfare, Payment
<1> HIDE DEF own, payment
<1>7. /\ payments' \in Seq(Int) /\ Len(payments') = Len(payments) + 1
      /\ DOMAIN payments' = DOMAIN payments \cup {k} /\ payments'[k] = payment
      /\ \A j \in DOMAIN payments : payments'[j] = payments[j]
  BY <1>1, <1>2, <1>6
<1>8. Progress'
  <2>1. Agrees'
    BY <1>1, <1>2, <1>3 DEF Agrees
  <2> QED
    BY <1>1, <1>2, <1>3, <1>6, <1>7, <2>1 DEF Progress
<1> HIDE DEF k
<1>9. \A j \in DOMAIN payments' :
        /\ j <= Len(TenantOrder)
        /\ payments'[j] = Payment(Welfare(auction, exact[1]), Own(exact[1], TenantOrder[j]),
                                  Welfare(auction, exact[j + 1]))
  <2> SUFFICES ASSUME NEW j \in DOMAIN payments'
               PROVE  /\ j <= Len(TenantOrder)
                      /\ payments'[j] = Payment(Welfare(auction, exact[1]), Own(exact[1], TenantOrder[j]),
                                                Welfare(auction, exact[j + 1]))
    OBVIOUS
  <2>1. CASE j = k
    BY <1>1, <1>4, <1>7, <2>1 DEF payment, own
  <2>2. CASE j \in DOMAIN payments
    BY <1>7, <2>2 DEF IInv
  <2> QED
    BY <1>7, <2>1, <2>2
<1>10. \A t : Own(exact[1], t)' = Own(exact[1], t)
  BY <1>2 DEF Own
<1> QED
  BY <1>2, <1>3, <1>7, <1>8, <1>9, <1>10 DEF IInv

\* The figures that the certificate computes are those of the settlement.
LEMMA CertifiedFigures ==
  ASSUME IInv, Len(exact) = Len(Cases)
  PROVE  /\ \A k \in DOMAIN Cases : CertifiedWelfare(k) = Welfare(auction, exact[k])
         /\ \A k \in DOMAIN TenantOrder : CertifiedOwn(k) = Own(exact[1], TenantOrder[k])
<1>1. /\ AuctionOK(auction) /\ Len(TenantOrder) \in Nat /\ DOMAIN TenantOrder = 1 .. Len(TenantOrder)
      /\ Len(Cases) = Len(TenantOrder) + 1 /\ DOMAIN Cases = 1 .. Len(Cases)
      /\ \A k \in DOMAIN Cases : exact[k] \in SUBSET Indices(auction)
  <2>1. /\ AuctionOK(auction) /\ Len(TenantOrder) \in Nat /\ DOMAIN TenantOrder = 1 .. Len(TenantOrder)
        /\ Len(Cases) = Len(TenantOrder) + 1 /\ DOMAIN Cases = 1 .. Len(Cases)
    BY CasesFacts DEF IInv
  <2>2. exact \in Seq(SUBSET Indices(auction)) /\ DOMAIN exact = DOMAIN Cases
    BY <2>1 DEF IInv
  <2> QED
    BY <2>1, <2>2
<1>2. /\ IsFiniteSet(Indices(auction)) /\ DOMAIN Values(auction) = Indices(auction)
      /\ \A i \in Indices(auction) : Values(auction)[i] \in Int /\ Values(auction)[i] = auction.offers[i].value
  BY <1>1, OfferFacts DEF Values
<1>3. ASSUME NEW k \in DOMAIN Cases PROVE CertifiedWelfare(k) = Welfare(auction, exact[k])
  <2>1. SumExpression(Values(auction), exact[k])
          = SumFunctionOnSet(Values(auction), exact[k] \cap DOMAIN Values(auction))
    BY <1>2, SumExpressionIs
  <2>2. exact[k] \cap DOMAIN Values(auction) = exact[k]
    BY <1>1, <1>2
  <2> QED
    BY <2>1, <2>2 DEF CertifiedWelfare, Welfare
<1>4. ASSUME NEW k \in DOMAIN TenantOrder PROVE CertifiedOwn(k) = Own(exact[1], TenantOrder[k])
  <2> DEFINE S == OffersOf(auction, TenantOrder[k])
             f == [i \in S |-> auction.offers[i].value]
             T == exact[1] \cap S
  <2>1. S \in SUBSET Indices(auction) /\ IsFiniteSet(S) /\ IsFiniteSet(T) /\ DOMAIN f = S
    BY <1>2, FS_Subset DEF OffersOf
  <2>2. \A i \in S : f[i] \in Int /\ f[i] = Values(auction)[i]
    BY <1>2, <2>1
  <2>3. CertifiedOwn(k) = SumExpression(f, exact[1])
    BY DEF CertifiedOwn
  <2>4. Own(exact[1], TenantOrder[k]) = SumFunctionOnSet(Values(auction), T)
    BY DEF Own, Welfare
  <2> HIDE DEF f
  <2>5. SumExpression(f, exact[1]) = SumFunctionOnSet(f, T)
    BY <2>1, <2>2, SumExpressionIs
  <2>6. \A i \in T : f[i] \in Int /\ f[i] = Values(auction)[i]
    BY <2>2
  <2> HIDE DEF S, T
  <2>7. SumFunctionOnSet(f, T) = SumFunctionOnSet(Values(auction), T)
    BY <2>1, <2>6, SumSame
  <2> QED
    BY <2>3, <2>4, <2>5, <2>7
<1> QED
  BY <1>3, <1>4

\* The certificate of a settlement that has its payments is accepted.
LEMMA CertificateHolds ==
  ASSUME IInv, stage = "certify"
  PROVE  /\ OffersCertified
         /\ \A k \in DOMAIN Cases : AllocationCertified(k)
         /\ \A k \in DOMAIN TenantOrder : TenantCertified(k)
         /\ ExportsAgree
<1>1. /\ AuctionOK(auction) /\ Len(TenantOrder) \in Nat /\ DOMAIN TenantOrder = 1 .. Len(TenantOrder)
      /\ Len(Cases) = Len(TenantOrder) + 1 /\ DOMAIN Cases = 1 .. Len(Cases)
      /\ Len(exact) = Len(Cases) /\ Len(payments) = Len(TenantOrder)
      /\ payments \in Seq(Int) /\ DOMAIN payments = DOMAIN TenantOrder
  BY CasesFacts DEF IInv, Progress
<1>2. /\ \A k \in DOMAIN Cases : CertifiedWelfare(k) = Welfare(auction, exact[k])
      /\ \A k \in DOMAIN TenantOrder : CertifiedOwn(k) = Own(exact[1], TenantOrder[k])
  BY <1>1, CertifiedFigures
<1>3. OffersCertified
  <2>1. \A m, n \in Nat : m <= n => NatSub(m, n) = 0
    BY DEF NatSub
  <2>2. ASSUME NEW i \in Indices(auction)
        PROVE  LET offer == auction.offers[i]
               IN  /\ offer.end \in Nat /\ auction.horizon \in Nat /\ offer.end <= auction.horizon
                   /\ \A p \in offer.slots :
                        offer.hbm[p] \in Nat /\ auction.hbm[p] \in Nat /\ offer.hbm[p] <= auction.hbm[p]
                   /\ \A h \in DOMAIN offer.cores :
                        /\ offer.cores[h] \in Nat /\ auction.capacity[h] \in Nat
                        /\ offer.cores[h] <= auction.capacity[h]
    BY <1>1, <2>2 DEF AuctionOK, OfferOK
  <2> QED
    BY <2>1, <2>2 DEF OffersCertified
<1>4. ASSUME NEW k \in DOMAIN Cases PROVE AllocationCertified(k)
  <2>1. exact[k] = Optimum(auction, Cases[k])
    BY <1>1 DEF IInv
  <2>2. exact[k] \in Allowed(auction, Cases[k]) /\ exact[k] \in SUBSET Indices(auction)
    BY <1>1, <2>1, OptimumBest
  <2>3. RowsFeasible(auction, CompileModel(auction), exact[k], Cases[k])
    BY <1>1, <2>2, RowsMeanFeasible
  <2>4. \A i \in OffersOf(auction, Cases[k]) : Bit(exact[k], i) = 0
    BY <2>3 DEF RowsFeasible, OffersOf, Bit
  <2>5. ASSUME NEW r \in CompileModel(auction) PROVE NatSub(SumExpression(r.terms, exact[k]), r.capacity) = 0
    <3>1. IsFiniteSet(DOMAIN r.terms) /\ \A i \in DOMAIN r.terms : r.terms[i] \in Int
      BY <1>1, RowFacts, OfferFacts
    <3>2. SumExpression(r.terms, exact[k]) = Load(r, exact[k])
      BY <3>1, SumExpressionIs DEF Load
    <3>3. Load(r, exact[k]) \in Nat /\ r.capacity \in Nat /\ Load(r, exact[k]) <= r.capacity
      BY <1>1, <2>3, LoadNat, RowFacts DEF RowsFeasible
    <3> QED
      BY <3>2, <3>3 DEF NatSub
  <2> QED
    BY <1>2, <2>4, <2>5 DEF AllocationCertified
<1>5. ASSUME NEW k \in DOMAIN TenantOrder PROVE TenantCertified(k) /\ CertifiedPayment(k) = payments[k]
  <2> DEFINE welfare == Welfare(auction, exact[1])
             own == Own(exact[1], TenantOrder[k])
             pivot == Welfare(auction, exact[k + 1])
  <2>1. BetweenOthersAndWelfare(welfare, own, pivot)
    BY <1>1, ExactFigures
  <2>2. payments[k] = Payment(welfare, own, pivot)
    BY <1>1 DEF IInv
  <2>3. CertifiedWelfare(1) = welfare /\ CertifiedOwn(k) = own /\ CertifiedWelfare(k + 1) = pivot
    <3>1. 1 \in DOMAIN Cases /\ k + 1 \in DOMAIN Cases
      BY <1>1
    <3> QED
      BY <1>2, <3>1
  <2> HIDE DEF welfare, own, pivot
  <2>4. /\ NativePayment(welfare, own, pivot) = Payment(welfare, own, pivot)
        /\ own + NatSub(welfare, own) = welfare
        /\ PivotIdentity(NativePayment(welfare, own, pivot), NatSub(welfare, own), pivot, own)
        /\ NatSub(pivot, welfare) = 0
        /\ NatSub(NativePayment(welfare, own, pivot), own) = 0
    BY <2>1, NativePaymentAgrees
  <2>5. CertifiedPayment(k) = NativePayment(welfare, own, pivot) /\ CertifiedOthers(k) = NatSub(welfare, own)
    BY <2>3 DEF CertifiedPayment, CertifiedOthers
  <2>6. TenantCertified(k)
    BY <2>3, <2>4, <2>5 DEF TenantCertified, welfare, pivot
  <2> QED
    BY <2>2, <2>4, <2>5, <2>6
<1>6. ExportsAgree
  <2> DEFINE charged == [k \in DOMAIN TenantOrder |-> CertifiedPayment(k)]
  <2>1. \A k \in DOMAIN TenantOrder : charged[k] = payments[k] /\ charged[k] \in Int
    BY <1>1, <1>5
  <2>2. IsFiniteSet(DOMAIN TenantOrder)
    BY <1>1, FS_Interval
  <2> HIDE DEF charged
  <2>3. SumFunctionOnSet(charged, DOMAIN TenantOrder) = SumFunctionOnSet(payments, DOMAIN TenantOrder)
    BY <2>1, <2>2, SumSame
  <2>4. 1 \in DOMAIN Cases
    BY <1>1
  <2> QED
    BY <1>1, <1>2, <1>5, <2>3, <2>4 DEF ExportsAgree, charged
<1> QED
  BY <1>3, <1>4, <1>5, <1>6

LEMMA OtherIInv == IInv /\ (Limit \/ Compare \/ Certify \/ CertifyFails \/ UNCHANGED vars) => IInv'
<1> SUFFICES ASSUME IInv, Limit \/ Compare \/ Certify \/ CertifyFails \/ UNCHANGED vars PROVE IInv'
  OBVIOUS
<1>1. auction' = auction /\ submitted' = submitted /\ exact' = exact /\ payments' = payments
  BY DEF Limit, Compare, Certify, CertifyFails, Refuse, vars
<1>2. TenantOrder' = TenantOrder /\ Cases' = Cases /\ (Agrees' <=> Agrees)
  BY <1>1 DEF TenantOrder, Cases, Agrees
<1>3. Progress'
  <2>1. CASE Limit \/ CertifyFails \/ UNCHANGED vars
    BY <1>1, <1>2, <2>1 DEF IInv, Progress, Limit, CertifyFails, Refuse, vars
  <2>2. CASE Compare
    <3>1. Len(TenantOrder) >= 1 /\ Len(payments) = 0
      BY <2>2, CasesFacts DEF IInv, Progress, Compare
    <3> QED
      BY <1>1, <1>2, <2>2, <3>1 DEF IInv, Progress, Compare
  <2>3. CASE Certify
    <3>1. stage = "certify" /\ stage' = "settled"
      BY <2>3, CertificateHolds DEF Certify
    <3> QED
      BY <1>1, <1>2, <3>1 DEF IInv, Progress
  <2> QED
    BY <2>1, <2>2, <2>3
<1>4. \A t : Own(exact[1], t)' = Own(exact[1], t)
  BY <1>1 DEF Own
<1> QED
  BY <1>1, <1>2, <1>3, <1>4 DEF IInv

LEMMA Invariance == Spec => []IInv
<1>1. IInv /\ [Next]_vars => IInv'
  BY AdmitIInv, SolveIInv, PayIInv, OtherIInv DEF Next
<1> QED
  BY <1>1, InitIInv, PTL DEF Spec

\* The assertion of _validate_with_exact never fires, in whatever order the cases are
\* admitted and solved and whatever a solver sends for them.
THEOREM PaymentsRational == Spec => []NeverIrrational
<1>1. IInv => NeverIrrational
  BY DEF IInv, Progress, NeverIrrational
<1> QED
  BY <1>1, Invariance, PTL

\* The kernel never refuses the certificate of a settlement.
THEOREM CertificateNeverRefused == Spec => []CertificateAccepted
<1>1. IInv => CertificateAccepted
  BY DEF IInv, Progress, CertificateAccepted
<1> QED
  BY <1>1, Invariance, PTL

\* What is settled was, in every case, a choice the inventory allows at every tick, and
\* none that is allowed has more welfare.
THEOREM SettlementExact == Spec => []SettledExact
<1>1. IInv => SettledExact
  <2> SUFFICES ASSUME IInv, stage = "settled", NEW k \in DOMAIN Cases
               PROVE  /\ submitted[k] \in Allowed(auction, Cases[k])
                      /\ \A c \in Allowed(auction, Cases[k]) :
                           Welfare(auction, c) <= Welfare(auction, submitted[k])
    BY DEF SettledExact
  <2>0. /\ AuctionOK(auction) /\ Len(submitted) = Len(Cases) /\ Len(exact) = Len(Cases) /\ Agrees
        /\ Len(Cases) \in Nat /\ DOMAIN Cases = 1 .. Len(Cases)
    BY CasesFacts DEF IInv, Progress
  <2>1. /\ AuctionOK(auction) /\ k \in DOMAIN submitted /\ k \in DOMAIN exact
        /\ Welfare(auction, submitted[k]) = Welfare(auction, exact[k])
    BY <2>0 DEF IInv, Agrees
  <2>2. submitted[k] \in SUBSET Indices(auction) /\ exact[k] = Optimum(auction, Cases[k])
        /\ RowsFeasible(auction, CompileModel(auction), submitted[k], Cases[k])
    BY <2>1 DEF IInv
  <2> QED
    BY <2>1, <2>2, RowsMeanFeasible, OptimumBest
<1> QED
  BY <1>1, Invariance, PTL

\* The step that refuses after the comparison is the comparison itself, and it refuses
\* a case in which the exact optimum has more welfare than the submitted choice.
LEMMA RefusalHasCause ==
  ASSUME IInv, stage = "compare", [Next]_vars, stage' = "refused"
  PROVE  \E k \in DOMAIN Cases : \E c \in Allowed(auction, Cases[k]) :
           Welfare(auction, c) > Welfare(auction, submitted[k])
<1>1. ~Agrees
  BY DEF Next, Admit, Solve, Limit, Compare, Pay, Certify, CertifyFails, vars
<1>2. PICK k \in DOMAIN Cases : Welfare(auction, submitted[k]) # Welfare(auction, exact[k])
  BY <1>1 DEF Agrees
<1>3. /\ AuctionOK(auction) /\ k \in DOMAIN submitted /\ k \in DOMAIN exact
  <2>1. /\ Len(submitted) = Len(Cases) /\ Len(exact) = Len(Cases)
        /\ Len(Cases) \in Nat /\ DOMAIN Cases = 1 .. Len(Cases) /\ AuctionOK(auction)
    BY CasesFacts DEF IInv, Progress
  <2> QED
    BY <2>1 DEF IInv
<1>4. /\ submitted[k] \in SUBSET Indices(auction) /\ exact[k] = Optimum(auction, Cases[k])
      /\ RowsFeasible(auction, CompileModel(auction), submitted[k], Cases[k])
  BY <1>3 DEF IInv
<1>5. submitted[k] \in Allowed(auction, Cases[k])
  BY <1>3, <1>4, RowsMeanFeasible
<1>6. /\ exact[k] \in Allowed(auction, Cases[k]) /\ exact[k] \in SUBSET Indices(auction)
      /\ Welfare(auction, submitted[k]) <= Welfare(auction, exact[k])
  BY <1>3, <1>4, <1>5, OptimumBest
<1>7. Welfare(auction, submitted[k]) \in Nat /\ Welfare(auction, exact[k]) \in Nat
  BY <1>3, <1>4, <1>6, WelfareNat
<1>8. Welfare(auction, exact[k]) > Welfare(auction, submitted[k])
  BY <1>2, <1>6, <1>7
<1> QED
  BY <1>6, <1>8

\* A candidate that has the greatest welfare in every case passes the comparison, for
\* every auction: a refusal there always has a choice that would have been better.
THEOREM OnlyWorseRefused == Spec => RefusedForCause
<1>1. IInv /\ [Next]_vars => [stage = "compare" /\ stage' = "refused" =>
        \E k \in DOMAIN Cases : \E c \in Allowed(auction, Cases[k]) :
          Welfare(auction, c) > Welfare(auction, submitted[k])]_vars
  BY RefusalHasCause
<1> QED
  BY <1>1, Invariance, PTL DEF Spec, RefusedForCause

-----------------------------------------------------------------------------
(* Truth.                                                                  *)

\* A report of a tenant: other values for its own offers, and nothing else.
Lie(a, t, values) ==
  [a EXCEPT !.offers =
     [i \in Indices(a) |->
        IF a.offers[i].tenant = t THEN [a.offers[i] EXCEPT !.value = values[i]] ELSE a.offers[i]]]

LEMMA LieFields ==
  ASSUME NEW a, AuctionOK(a), NEW t, NEW values \in [OffersOf(a, t) -> Nat]
  PROVE  LET lie == Lie(a, t, values)
         IN  /\ Indices(lie) = Indices(a)
             /\ lie.horizon = a.horizon /\ lie.capacity = a.capacity
             /\ \A i \in Indices(a) :
                  /\ lie.offers[i].tenant = a.offers[i].tenant
                  /\ lie.offers[i].start = a.offers[i].start /\ lie.offers[i].end = a.offers[i].end
                  /\ lie.offers[i].slots = a.offers[i].slots /\ lie.offers[i].cores = a.offers[i].cores
                  /\ i \notin OffersOf(a, t) => lie.offers[i].value = a.offers[i].value
             /\ AuctionOK(lie)
<1> DEFINE offers == [i \in Indices(a) |->
                        IF a.offers[i].tenant = t THEN [a.offers[i] EXCEPT !.value = values[i]] ELSE a.offers[i]]
           lie == Lie(a, t, values)
<1>1. /\ DOMAIN lie = DOMAIN a /\ lie.offers = offers
      /\ lie.horizon = a.horizon /\ lie.capacity = a.capacity /\ lie.slots = a.slots
      /\ lie.hbm = a.hbm /\ lie.tenants = a.tenants /\ lie.rank = a.rank
  BY DEF Lie, AuctionOK
<1>2. DOMAIN offers = Indices(a)
  OBVIOUS
<1>3. ASSUME NEW i \in Indices(a)
      PROVE  /\ DOMAIN offers[i] = DOMAIN a.offers[i]
             /\ offers[i].tenant = a.offers[i].tenant
             /\ offers[i].start = a.offers[i].start /\ offers[i].end = a.offers[i].end
             /\ offers[i].slots = a.offers[i].slots /\ offers[i].cores = a.offers[i].cores
             /\ offers[i].hbm = a.offers[i].hbm
             /\ i \notin OffersOf(a, t) => offers[i].value = a.offers[i].value
             /\ i \in OffersOf(a, t) => offers[i].value \in Nat
  <2>1. {"tenant", "value", "start", "end", "slots", "hbm", "cores"} \subseteq DOMAIN a.offers[i]
    BY DEF AuctionOK, OfferOK
  <2>2. CASE a.offers[i].tenant = t
    <3>1. offers[i] = [a.offers[i] EXCEPT !.value = values[i]] /\ i \in OffersOf(a, t)
      BY <2>2 DEF OffersOf
    <3>2. values[i] \in Nat
      BY <3>1
    <3> HIDE DEF offers
    <3> QED
      BY <2>1, <3>1, <3>2
  <2>3. CASE a.offers[i].tenant # t
    <3>1. offers[i] = a.offers[i] /\ i \notin OffersOf(a, t)
      BY <2>3 DEF OffersOf
    <3> HIDE DEF offers
    <3> QED
      BY <3>1
  <2> QED
    BY <2>2, <2>3
<1> HIDE DEF offers, lie
<1>4. Indices(lie) = Indices(a)
  BY <1>1, <1>2 DEF Indices
<1>5. ASSUME NEW i \in Indices(a) PROVE OfferOK(lie, offers[i])
  <2>1. OfferOK(a, a.offers[i])
    BY DEF AuctionOK
  <2>2. offers[i].value \in Nat
    BY <1>3, <2>1 DEF OfferOK
  <2> QED
    BY <1>1, <1>3, <2>1, <2>2 DEF OfferOK
<1>6. Len(lie.offers) = Len(a.offers) /\ Len(a.offers) \in Nat /\ Indices(a) = 1 .. Len(a.offers)
  <2>1. Len(a.offers) \in Nat /\ Indices(a) = 1 .. Len(a.offers)
    BY DEF AuctionOK
  <2>2. DOMAIN lie.offers = 1 .. Len(a.offers)
    BY <1>1, <1>2, <2>1
  <2> QED
    BY <2>1, <2>2
<1>7. AuctionOK(lie)
  BY <1>1, <1>4, <1>5, <1>6 DEF AuctionOK
<1> QED
  BY <1>1, <1>3, <1>4, <1>7 DEF lie

\* A report changes no choice that is allowed, and no welfare of the others.
LEMMA LieSame ==
  ASSUME NEW a, AuctionOK(a), NEW t, NEW values \in [OffersOf(a, t) -> Nat]
  PROVE  LET lie == Lie(a, t, values)
         IN  /\ \A s : Allowed(lie, s) = Allowed(a, s)
             /\ \A c \in SUBSET (Indices(a) \ OffersOf(a, t)) : Welfare(lie, c) = Welfare(a, c)
             /\ OffersOf(lie, t) = OffersOf(a, t)
             /\ Optimum(lie, t) = Optimum(a, t)
<1> DEFINE lie == Lie(a, t, values)
<1>1. /\ Indices(lie) = Indices(a) /\ lie.horizon = a.horizon /\ lie.capacity = a.capacity
      /\ \A i \in Indices(a) :
           /\ lie.offers[i].tenant = a.offers[i].tenant
           /\ lie.offers[i].start = a.offers[i].start /\ lie.offers[i].end = a.offers[i].end
           /\ lie.offers[i].slots = a.offers[i].slots /\ lie.offers[i].cores = a.offers[i].cores
           /\ i \notin OffersOf(a, t) => lie.offers[i].value = a.offers[i].value
      /\ AuctionOK(lie)
  BY LieFields
<1> HIDE DEF lie
<1>2. ASSUME NEW c \in SUBSET Indices(a) PROVE Feasible(lie, c) <=> Feasible(a, c)
  <2>1. \A tick : Running(lie, c, tick) = Running(a, c, tick)
    BY <1>1 DEF Running
  <2>2. \A h : [i \in Indices(lie) |-> CoresAt(lie.offers[i], h)] = [i \in Indices(a) |-> CoresAt(a.offers[i], h)]
    BY <1>1 DEF CoresAt
  <2>3. \A tick : Running(a, c, tick) \in SUBSET Indices(a)
    BY DEF Running
  <2>4. (\A i, j \in c : lie.offers[i].tenant = lie.offers[j].tenant => i = j)
          <=> (\A i, j \in c : a.offers[i].tenant = a.offers[j].tenant => i = j)
    BY <1>1
  <2>5. ASSUME NEW tick
        PROVE  (\A i, j \in Running(a, c, tick) : lie.offers[i].slots \cap lie.offers[j].slots # {} => i = j)
                 <=> (\A i, j \in Running(a, c, tick) : a.offers[i].slots \cap a.offers[j].slots # {} => i = j)
    BY <1>1, <2>3
  <2> QED
    BY <1>1, <2>1, <2>2, <2>4, <2>5 DEF Feasible
<1>3. ASSUME NEW s PROVE Allowed(lie, s) = Allowed(a, s)
  <2>1. {i \in Indices(lie) : lie.offers[i].tenant # s} = {i \in Indices(a) : a.offers[i].tenant # s}
    BY <1>1
  <2>2. \A c \in SUBSET {i \in Indices(a) : a.offers[i].tenant # s} : Feasible(lie, c) <=> Feasible(a, c)
    BY <1>2
  <2> QED
    BY <2>1, <2>2 DEF Allowed
<1>4. ASSUME NEW c \in SUBSET (Indices(a) \ OffersOf(a, t)) PROVE Welfare(lie, c) = Welfare(a, c)
  <2>1. IsFiniteSet(c) /\ \A i \in c : Values(a)[i] \in Int /\ Values(a)[i] = Values(lie)[i]
    <3>1. IsFiniteSet(c) /\ \A i \in c : Values(a)[i] \in Int
      BY OfferFacts
    <3>2. \A i \in c : Values(a)[i] = Values(lie)[i]
      BY <1>1 DEF Values
    <3> QED
      BY <3>1, <3>2
  <2> QED
    BY <2>1, SumSame DEF Welfare
<1>5. OffersOf(lie, t) = OffersOf(a, t)
  BY <1>1 DEF OffersOf
<1>6. Optimum(lie, t) = Optimum(a, t)
  <2> DEFINE x == Optimum(a, t)   y == Optimum(lie, t)
  <2>1. /\ x \in Allowed(a, t) /\ \A c \in Allowed(a, t) : c # x => Beats(a, x, c)
    BY OptimumBest
  <2>2. /\ y \in Allowed(a, t) /\ \A c \in Allowed(a, t) : c # y => Beats(lie, y, c)
    BY <1>1, <1>3, OptimumBest
  <2>3. x \in SUBSET Indices(a) /\ y \in SUBSET Indices(a)
    BY <2>1, <2>2 DEF Allowed
  <2>4. \A c \in Allowed(a, t) : c \in SUBSET (Indices(a) \ OffersOf(a, t))
    BY DEF Allowed, OffersOf
  <2>5. Welfare(lie, x) = Welfare(a, x) /\ Welfare(lie, y) = Welfare(a, y)
    BY <1>4, <2>1, <2>2, <2>4
  <2> HIDE DEF x, y
  <2>6. SUFFICES ASSUME x # y PROVE FALSE
    BY DEF x, y
  <2>7. Beats(a, x, y) /\ Beats(a, y, x)
    BY <2>1, <2>2, <2>5, <2>6 DEF Beats
  <2> QED
    BY <2>3, <2>7, BeatsOneWay
<1> QED
  BY <1>3, <1>4, <1>5, <1>6 DEF lie

\* The VCG rule is truthful: the price of a tenant depends on its report only through the
\* outcome, and the true report brings the outcome that is best for it at those prices.
THEOREM NoLiePays ==
  ASSUME NEW a, AuctionOK(a), NEW t \in a.tenants, NEW values \in [OffersOf(a, t) -> Nat]
  PROVE  LET lie == Lie(a, t, values)
         IN  Welfare(a, Optimum(lie, None) \cap OffersOf(a, t)) - Charged(lie, t)
               <= Welfare(a, Optimum(a, None) \cap OffersOf(a, t)) - Charged(a, t)
<1> DEFINE lie == Lie(a, t, values)
           own == OffersOf(a, t)
           x == Optimum(a, None)
           y == Optimum(lie, None)
           pivot == Welfare(a, Optimum(a, t))
<1>1. AuctionOK(lie) /\ Indices(lie) = Indices(a)
  BY LieFields
<1>2. /\ Allowed(lie, None) = Allowed(a, None) /\ OffersOf(lie, t) = own /\ Optimum(lie, t) = Optimum(a, t)
      /\ \A c \in SUBSET (Indices(a) \ own) : Welfare(lie, c) = Welfare(a, c)
  BY LieSame
<1>3. /\ x \in SUBSET Indices(a) /\ y \in SUBSET Indices(a)
      /\ Welfare(a, y) <= Welfare(a, x)
  <2>1. y \in Allowed(lie, None) /\ y \in SUBSET Indices(lie)
    BY <1>1, OptimumBest
  <2> QED
    BY <1>1, <1>2, <2>1, OptimumBest
<1>4. Optimum(a, t) \in SUBSET (Indices(a) \ own)
  BY OptimumBest DEF Allowed, OffersOf
<1> HIDE DEF lie, own, x, y
<1>5. Welfare(lie, Optimum(lie, t)) = pivot /\ pivot \in Nat
  BY <1>2, <1>4, WelfareNat
<1> HIDE DEF pivot
<1>6. /\ Charged(a, t) = Payment(Welfare(a, x), Welfare(a, x \cap own), pivot)
      /\ Charged(lie, t) = Payment(Welfare(lie, y), Welfare(lie, y \cap own), pivot)
  BY <1>2, <1>5 DEF Charged, x, y, own, pivot
<1>7. /\ x \cap own \in SUBSET x /\ x \ (x \cap own) = x \ own /\ x \cap own \in SUBSET Indices(a)
      /\ x \ own \in SUBSET Indices(a)
      /\ y \cap own \in SUBSET y /\ y \ (y \cap own) = y \ own /\ y \cap own \in SUBSET Indices(a)
      /\ y \ own \in SUBSET (Indices(a) \ own) /\ y \ own \in SUBSET Indices(a)
  BY <1>3
<1>8. /\ Welfare(a, x) = Welfare(a, x \cap own) + Welfare(a, x \ own)
      /\ Welfare(a, y) = Welfare(a, y \cap own) + Welfare(a, y \ own)
      /\ Welfare(lie, y) = Welfare(lie, y \cap own) + Welfare(lie, y \ own)
  <2>1. Welfare(a, x) = Welfare(a, x \cap own) + Welfare(a, x \ (x \cap own))
    BY <1>3, <1>7, WelfareParts
  <2>2. Welfare(a, y) = Welfare(a, y \cap own) + Welfare(a, y \ (y \cap own))
    BY <1>3, <1>7, WelfareParts
  <2>3. Welfare(lie, y) = Welfare(lie, y \cap own) + Welfare(lie, y \ (y \cap own))
    BY <1>1, <1>3, <1>7, WelfareParts
  <2> QED
    BY <1>7, <2>1, <2>2, <2>3
<1>9. Welfare(lie, y \ own) = Welfare(a, y \ own)
  BY <1>2, <1>7
<1>10. /\ Welfare(a, x \cap own) \in Nat /\ Welfare(a, x \ own) \in Nat
       /\ Welfare(a, y \cap own) \in Nat /\ Welfare(a, y \ own) \in Nat
       /\ Welfare(lie, y \cap own) \in Nat
  BY <1>1, <1>7, WelfareNat
<1>11. Welfare(a, y \cap own) - Charged(lie, t) <= Welfare(a, x \cap own) - Charged(a, t)
  BY <1>3, <1>5, <1>6, <1>8, <1>9, <1>10 DEF Payment
<1> QED
  BY <1>11 DEF lie, own, x, y

\* No tenant of any auction settled gains by reporting other values than its own, when
\* the searches find the exact optima and ties fall to the smallest mask.
THEOREM Truthful == Spec => []TruthDominates
<1>1. IInv => TruthDominates
  <2> SUFFICES ASSUME IInv, NEW t \in auction.tenants, NEW values \in [OffersOf(auction, t) -> OtherReports]
               PROVE  LET lie == Reporting(t, values)
                      IN  Own(Optimum(lie, None), t) - Charged(lie, t)
                            <= Own(Optimum(auction, None), t) - Charged(auction, t)
    BY DEF TruthDominates
  <2>1. AuctionOK(auction)
    BY CasesFacts DEF IInv
  <2>2. values \in [OffersOf(auction, t) -> Nat]
    BY SettlementAssumption
  <2>3. Reporting(t, values) = Lie(auction, t, values)
    BY DEF Reporting, Lie
  <2> QED
    BY <2>1, <2>2, <2>3, NoLiePays DEF Own
<1> QED
  BY <1>1, Invariance, PTL

-----------------------------------------------------------------------------
(* The search.                                                             *)

\* The offers are searched each once, in the order of the search.
LEMMA OrderFacts ==
  ASSUME AuctionOK(auction)
  PROVE  /\ Ordered \in Seq(Considered) /\ Len(Ordered) \in Nat
         /\ \A i, j \in 1 .. Len(Ordered) : Ordered[i] = Ordered[j] => i = j
         /\ \A x \in Considered : \E i \in 1 .. Len(Ordered) : Ordered[i] = x
         /\ Considered \in SUBSET Indices(auction)
<1> DEFINE R == {ij \in Considered \X Considered : Before(ij[1], ij[2])}
           n == Cardinality(Considered)
<1>1. Considered \in SUBSET Indices(auction) /\ IsFiniteSet(Considered)
  BY OfferFacts DEF Considered
<1>2. \A i \in Considered : i \in Int /\ auction.offers[i].value \in Int
  BY <1>1, OfferFacts
<1>3. TotalOn(R, Considered)
  <2> HIDE DEF R
  <2>1. \A i, j \in Considered : <<i, j>> \in R <=> Before(i, j)
    BY DEF R
  <2>2. \A i, j \in Considered : i # j => Before(i, j) \/ Before(j, i)
    BY <1>2 DEF Before
  <2>3. \A i, j, k \in Considered : Before(i, j) /\ Before(j, k) => Before(i, k)
    BY <1>2 DEF Before
  <2>4. \A i \in Considered : ~Before(i, i)
    BY <1>2 DEF Before
  <2> QED
    BY <2>1, <2>2, <2>3, <2>4 DEF TotalOn
<1>4. Ordered = Sorted(Considered, R)
  BY DEF Ordered
<1> HIDE DEF R
<1>5. /\ n \in Nat /\ Ordered \in [1 .. n -> Considered]
      /\ \A i, j \in 1 .. n : Ordered[i] = Ordered[j] => i = j
      /\ \A x \in Considered : \E i \in 1 .. n : Ordered[i] = x
  BY <1>1, <1>3, <1>4, SortedLists
<1> DEFINE s == Ordered
<1> HIDE DEF n, s
<1>6. s \in Seq(Considered) /\ Len(s) = n
  BY <1>5 DEF s
<1> QED
  BY <1>1, <1>5, <1>6 DEF s

-----------------------------------------------------------------------------
(* The stack.  Below the innermost frame every frame has taken its offer.  *)
Frames(o) ==
  {f \in [position : 1 .. Len(o) + 1, mask : SUBSET {o[j] : j \in 1 .. Len(o)},
          at : {"enter", "with", "restore", "without"}] :
     /\ f.mask \subseteq {o[j] : j \in 1 .. f.position - 1}
     /\ f.at # "enter" => f.position <= Len(o)}

Chain(s, o) ==
  /\ s \in Seq(Frames(o))
  /\ s # <<>> => s[1].mask = {}
  /\ \A k \in 1 .. Len(s) - 1 : s[k].at = "restore" /\ s[k + 1].mask = s[k].mask \cup {o[s[k].position]}

\* Held, and what is yet to be decided below a frame, for any stack.
HeldBy(s, o) ==
  IF s = <<>> THEN {} ELSE
    IF Last(s).at = "restore" THEN Last(s).mask \cup {o[Last(s).position]} ELSE Last(s).mask

Below(f, o) == {o[k] : k \in (IF f.at \in {"enter", "with"} THEN f.position ELSE f.position + 1) .. Len(o)}

Open(f, o, goal) == f.mask \subseteq goal /\ goal \subseteq f.mask \cup Below(f, o)

LEMMA FrontFacts ==
  ASSUME NEW F, NEW s \in Seq(F), s # <<>>
  PROVE  /\ Len(s) \in Nat /\ Len(s) >= 1 /\ DOMAIN s = 1 .. Len(s)
         /\ Last(s) = s[Len(s)] /\ Last(s) \in F
         /\ Front(s) \in Seq(F) /\ Len(Front(s)) = Len(s) - 1 /\ DOMAIN Front(s) = 1 .. Len(s) - 1
         /\ \A k \in 1 .. Len(s) - 1 : Front(s)[k] = s[k]
<1>1. /\ Len(s) \in Nat /\ Len(s) >= 1 /\ DOMAIN s = 1 .. Len(s) /\ s[Len(s)] \in F
  OBVIOUS
<1>2. Front(s) = SubSeq(s, 1, Len(s) - 1)
  BY DEF Front
<1> QED
  BY <1>1, <1>2 DEF Last

\* A frame that goes on keeps its place and its mask.
LEMMA GoesOn ==
  ASSUME NEW o, NEW g \in Frames(o), g.position <= Len(o), NEW at \in {"with", "restore", "without"}
  PROVE  LET f == [g EXCEPT !.at = at]
         IN  f \in Frames(o) /\ f.mask = g.mask /\ f.position = g.position /\ f.at = at
<1> DEFINE f == [g EXCEPT !.at = at]
           R == [position : 1 .. Len(o) + 1, mask : SUBSET {o[j] : j \in 1 .. Len(o)},
                 at : {"enter", "with", "restore", "without"}]
<1>1. g \in R /\ g.mask \subseteq {o[j] : j \in 1 .. g.position - 1}
  BY DEF Frames
<1>2. f \in R /\ f.mask = g.mask /\ f.position = g.position /\ f.at = at
  BY <1>1
<1> HIDE DEF f
<1>3. f.mask \subseteq {o[j] : j \in 1 .. f.position - 1} /\ f.position <= Len(o)
  BY <1>1, <1>2
<1>4. f \in Frames(o)
  BY <1>2, <1>3 DEF Frames
<1> QED
  BY <1>2, <1>4 DEF f

\* visit returns.
LEMMA ChainPop ==
  ASSUME NEW o, Len(o) \in Nat, NEW s, Chain(s, o), s # <<>>
  PROVE  /\ Chain(Front(s), o)
         /\ HeldBy(Front(s), o) = Last(s).mask
<1>1. s \in Seq(Frames(o))
  BY DEF Chain
<1> DEFINE t == Front(s)   n == Len(s) - 1
<1>2. /\ n \in Nat /\ Len(s) = n + 1 /\ t \in Seq(Frames(o)) /\ Len(t) = n /\ Last(s) = s[n + 1]
      /\ \A k \in 1 .. n : t[k] = s[k]
  BY <1>1, FrontFacts
<1> HIDE DEF t, n
<1>3. Chain(t, o)
  <2>1. t # <<>> => t[1].mask = {}
    BY <1>2 DEF Chain
  <2>2. ASSUME NEW k \in 1 .. Len(t) - 1
        PROVE  t[k].at = "restore" /\ t[k + 1].mask = t[k].mask \cup {o[t[k].position]}
    <3>1. k \in 1 .. n /\ k + 1 \in 1 .. n /\ k \in 1 .. Len(s) - 1
      BY <1>2
    <3> QED
      BY <1>2, <3>1 DEF Chain
  <2> QED
    BY <1>2, <2>1, <2>2 DEF Chain
<1>4. CASE n = 0
  <2>1. t = <<>> /\ Last(s) = s[1]
    BY <1>2, <1>4
  <2> QED
    BY <1>3, <2>1 DEF Chain, HeldBy, t
<1>5. CASE n # 0
  <2>1. t # <<>> /\ Last(t) = t[n] /\ t[n] = s[n] /\ n \in 1 .. Len(s) - 1
    BY <1>2, <1>5 DEF Last
  <2>2. s[n].at = "restore" /\ s[n + 1].mask = s[n].mask \cup {o[s[n].position]}
    BY <2>1 DEF Chain
  <2> QED
    BY <1>2, <1>3, <2>1, <2>2 DEF HeldBy, t
<1> QED
  BY <1>4, <1>5

\* The innermost frame goes on, with the mask it has.
Swap(s, f) == Append(Front(s), f)

LEMMA ChainSwap ==
  ASSUME NEW o, Len(o) \in Nat, NEW s, Chain(s, o), s # <<>>,
         NEW f \in Frames(o), f.mask = Last(s).mask
  PROVE  /\ Chain(Swap(s, f), o) /\ Swap(s, f) # <<>> /\ Last(Swap(s, f)) = f
         /\ Len(Swap(s, f)) = Len(s) /\ Swap(s, f)[Len(s)] = f
         /\ \A k \in 1 .. Len(s) - 1 : Swap(s, f)[k] = s[k]
<1>1. s \in Seq(Frames(o))
  BY DEF Chain
<1> DEFINE t == Swap(s, f)   n == Len(s) - 1
<1>2. /\ n \in Nat /\ Len(s) = n + 1 /\ Front(s) \in Seq(Frames(o)) /\ Len(Front(s)) = n
      /\ Last(s) = s[n + 1] /\ \A k \in 1 .. n : Front(s)[k] = s[k]
  BY <1>1, FrontFacts
<1> HIDE DEF n
<1>3. /\ t \in Seq(Frames(o)) /\ Len(t) = n + 1 /\ t[n + 1] = f /\ t # <<>> /\ Last(t) = f
      /\ \A k \in 1 .. n : t[k] = s[k]
  BY <1>2 DEF Last, Swap
<1> HIDE DEF t
<1>4. Chain(t, o)
  <2>1. t[1].mask = {}
    BY <1>2, <1>3 DEF Chain
  <2>2. ASSUME NEW k \in 1 .. Len(t) - 1
        PROVE  t[k].at = "restore" /\ t[k + 1].mask = t[k].mask \cup {o[t[k].position]}
    <3>1. k \in 1 .. Len(s) - 1 /\ t[k] = s[k] /\ t[k + 1].mask = s[k + 1].mask
      BY <1>2, <1>3
    <3> QED
      BY <3>1 DEF Chain
  <2> QED
    BY <1>3, <2>1, <2>2 DEF Chain
<1> QED
  BY <1>2, <1>3, <1>4 DEF t

\* visit is called for the branch that takes the offer.
Child(s, o) == Frame(Last(s).position + 1, Last(s).mask \cup {o[Last(s).position]}, "enter")
Push(s, o) == Append(s, Child(s, o))

LEMMA ChainPush ==
  ASSUME NEW o, Len(o) \in Nat, NEW s, Chain(s, o), s # <<>>, Last(s).at = "restore"
  PROVE  /\ Chain(Push(s, o), o) /\ Push(s, o) # <<>> /\ Last(Push(s, o)) = Child(s, o)
         /\ Len(Push(s, o)) = Len(s) + 1 /\ Push(s, o)[Len(s) + 1] = Child(s, o)
         /\ \A k \in 1 .. Len(s) : Push(s, o)[k] = s[k]
<1> DEFINE f == Last(s)
           child == Frame(f.position + 1, f.mask \cup {o[f.position]}, "enter")
           t == Push(s, o)   n == Len(s)
<1>1. s \in Seq(Frames(o)) /\ f \in Frames(o) /\ n \in Nat /\ n >= 1 /\ f = s[n] /\ f.at = "restore"
  BY FrontFacts DEF Chain
<1> HIDE DEF f, n
<1>2. f.position \in 1 .. Len(o) /\ f.mask \subseteq {o[j] : j \in 1 .. f.position - 1}
  BY <1>1 DEF Frames
<1>3. child \in Frames(o)
  <2>1. child.position = f.position + 1 /\ child.mask = f.mask \cup {o[f.position]} /\ child.at = "enter"
    BY DEF Frame
  <2>2. child \in [position : 1 .. Len(o) + 1, mask : SUBSET {o[j] : j \in 1 .. Len(o)},
                   at : {"enter", "with", "restore", "without"}]
    BY <1>2 DEF Frame
  <2>3. f.mask \cup {o[f.position]} \subseteq {o[j] : j \in 1 .. (f.position + 1) - 1}
    BY <1>2
  <2> HIDE DEF child
  <2> QED
    BY <2>1, <2>2, <2>3 DEF Frames
<1>4. child.mask = f.mask \cup {o[f.position]}
  BY DEF Frame
<1>c. t = Append(s, child) /\ child = Child(s, o)
  BY DEF Push, Child, f
<1> HIDE DEF child, t
<1>5. /\ t \in Seq(Frames(o)) /\ Len(t) = n + 1 /\ t[n + 1] = child /\ t # <<>> /\ Last(t) = child
      /\ \A k \in 1 .. n : t[k] = s[k]
  BY <1>1, <1>3, <1>c DEF Last, n
<1>6. Chain(t, o)
  <2>1. t[1].mask = {}
    BY <1>1, <1>5 DEF Chain
  <2>2. ASSUME NEW k \in 1 .. Len(t) - 1
        PROVE  t[k].at = "restore" /\ t[k + 1].mask = t[k].mask \cup {o[t[k].position]}
    <3>1. CASE k = n
      BY <1>1, <1>4, <1>5, <3>1
    <3>2. CASE k # n
      <4>1. k \in 1 .. Len(s) - 1 /\ t[k] = s[k] /\ t[k + 1] = s[k + 1]
        BY <1>1, <1>5, <3>2 DEF n
      <4> QED
        BY <4>1 DEF Chain
    <3> QED
      BY <3>1, <3>2
  <2> QED
    BY <1>5, <2>1, <2>2 DEF Chain
<1> QED
  BY <1>c, <1>5, <1>6 DEF n, t

-----------------------------------------------------------------------------
(* The bound.                                                              *)

LEMMA LoadAdd ==
  ASSUME NEW a, AuctionOK(a), NEW r \in CompileModel(a), NEW c \in SUBSET Indices(a), NEW i, i \notin c
  PROVE  Load(r, c \cup {i}) = IF i \in DOMAIN r.terms THEN Load(r, c) + r.terms[i] ELSE Load(r, c)
<1>1. CASE i \in DOMAIN r.terms
  <2> DEFINE S == c \cap DOMAIN r.terms   f == r.terms
  <2>1. (c \cup {i}) \cap DOMAIN r.terms = S \cup {i} /\ i \notin S
    BY <1>1
  <2>2. IsFiniteSet(S) /\ \A j \in S \cup {i} : f[j] \in Int
    BY <1>1, RowFacts, OfferFacts, FS_Subset
  <2> HIDE DEF S
  <2>3. SumFunctionOnSet(f, S \cup {i}) = f[i] + SumFunctionOnSet(f, S)
    BY <2>1, <2>2, SumAdd
  <2>4. SumFunctionOnSet(f, S) \in Int /\ f[i] \in Int
    BY <2>2, SumInt
  <2>5. SumFunctionOnSet(f, S \cup {i}) = SumFunctionOnSet(f, S) + f[i]
    BY <2>3, <2>4
  <2> QED
    BY <1>1, <2>1, <2>5 DEF Load, S
<1>2. CASE i \notin DOMAIN r.terms
  <2>1. (c \cup {i}) \cap DOMAIN r.terms = c \cap DOMAIN r.terms
    BY <1>2
  <2> QED
    BY <1>2, <2>1 DEF Load
<1> QED
  BY <1>1, <1>2

LEMMA LoadPart ==
  ASSUME NEW a, AuctionOK(a), NEW r \in CompileModel(a), NEW c \in SUBSET Indices(a), NEW d \in SUBSET c
  PROVE  Load(r, d) <= Load(r, c)
<1> DEFINE S == c \cap DOMAIN r.terms   T == d \cap DOMAIN r.terms   U == S \ T   f == r.terms
<1>1. IsFiniteSet(S) /\ IsFiniteSet(T) /\ IsFiniteSet(U) /\ T \in SUBSET S /\ U = S \ T
      /\ \A j \in S : f[j] \in Nat /\ f[j] \in Int
  BY RowFacts, OfferFacts, FS_Subset
<1>2. Load(r, c) = SumFunctionOnSet(f, S) /\ Load(r, d) = SumFunctionOnSet(f, T)
  BY DEF Load
<1> HIDE DEF S, T, U
<1>3. SumFunctionOnSet(f, S) = SumFunctionOnSet(f, T) + SumFunctionOnSet(f, U)
  BY <1>1, SumOfPart
<1>4. SumFunctionOnSet(f, T) \in Nat /\ SumFunctionOnSet(f, U) \in Nat
  BY <1>1, SumNat
<1> QED
  BY <1>2, <1>3, <1>4

\* A sum over S is no more than a sum over T in which each of its terms has one of its own.
LEMMA SumInjection ==
  ASSUME NEW S, IsFiniteSet(S), NEW T, IsFiniteSet(T), NEW f, NEW h, NEW g \in [S -> T],
         \A x, y \in S : g[x] = g[y] => x = y,
         \A x \in S : f[x] \in Nat /\ f[x] <= h[g[x]],
         \A y \in T : h[y] \in Nat
  PROVE  SumFunctionOnSet(f, S) <= SumFunctionOnSet(h, T)
<1> DEFINE Img(U) == {g[x] : x \in U}
           Good == {U \in SUBSET S : SumFunctionOnSet(f, U) <= SumFunctionOnSet(h, Img(U))}
<1>1. {} \in Good
  <2>1. Img({}) = {}
    OBVIOUS
  <2>2. SumFunctionOnSet(f, {}) = 0 /\ SumFunctionOnSet(h, {}) = 0
    BY SumEmpty
  <2> QED
    BY <2>1, <2>2
<1>2. ASSUME NEW U \in SUBSET S, NEW x \in S, U \in Good, x \notin U PROVE U \cup {x} \in Good
  <2> DEFINE V == Img(U)
  <2>1. Img(U \cup {x}) = V \cup {g[x]} /\ g[x] \notin V /\ V \in SUBSET T /\ g[x] \in T
    BY <1>2
  <2>2. IsFiniteSet(U) /\ IsFiniteSet(V)
    BY <2>1, FS_Subset
  <2>3. SumFunctionOnSet(f, U) <= SumFunctionOnSet(h, V)
    BY <1>2
  <2> HIDE DEF V
  <2>4. SumFunctionOnSet(f, U \cup {x}) = f[x] + SumFunctionOnSet(f, U)
    <3>1. \A y \in U \cup {x} : f[y] \in Int
      OBVIOUS
    <3> QED
      BY <1>2, <2>2, <3>1, SumAdd
  <2>5. SumFunctionOnSet(h, V \cup {g[x]}) = h[g[x]] + SumFunctionOnSet(h, V)
    <3>1. \A y \in V \cup {g[x]} : h[y] \in Int
      BY <2>1
    <3> DEFINE z == g[x]
    <3> HIDE DEF z
    <3>2. z \notin V /\ \A y \in V \cup {z} : h[y] \in Int
      BY <2>1, <3>1 DEF z
    <3>3. SumFunctionOnSet(h, V \cup {z}) = h[z] + SumFunctionOnSet(h, V)
      BY <2>2, <3>2, SumAdd
    <3> QED
      BY <3>3 DEF z
  <2>6. SumFunctionOnSet(f, U) \in Nat /\ SumFunctionOnSet(h, V) \in Nat
    <3>1. \A y \in V : h[y] \in Nat
      BY <2>1
    <3>2. \A y \in U : f[y] \in Nat
      OBVIOUS
    <3> QED
      BY <2>2, <3>1, <3>2, SumNat
  <2>7. f[x] \in Nat /\ h[g[x]] \in Nat /\ f[x] <= h[g[x]]
    BY <2>1
  <2>8. SumFunctionOnSet(f, U \cup {x}) <= SumFunctionOnSet(h, V \cup {g[x]})
    BY <2>3, <2>4, <2>5, <2>6, <2>7
  <2> QED
    BY <2>1, <2>8
<1>3. S \in Good
  <2> HIDE DEF Good
  <2> QED
    BY <1>1, <1>2, SubsetInduction
<1> DEFINE I == Img(S)   J == T \ I
<1>4. I \in SUBSET T /\ IsFiniteSet(I) /\ IsFiniteSet(J) /\ J = T \ I
  BY FS_Subset
<1>5. SumFunctionOnSet(f, S) <= SumFunctionOnSet(h, I)
  BY <1>3
<1> HIDE DEF I, J
<1>6. SumFunctionOnSet(h, T) = SumFunctionOnSet(h, I) + SumFunctionOnSet(h, J)
  <2>1. \A y \in T : h[y] \in Int
    OBVIOUS
  <2> QED
    BY <1>4, <2>1, SumOfPart
<1>7. SumFunctionOnSet(h, I) \in Nat /\ SumFunctionOnSet(h, J) \in Nat
  <2>1. (\A y \in I : h[y] \in Nat) /\ (\A y \in J : h[y] \in Nat)
    BY <1>4
  <2> QED
    BY <1>4, <2>1, SumNat
<1>8. SumFunctionOnSet(f, S) \in Nat
  BY SumNat
<1> QED
  BY <1>5, <1>6, <1>7, <1>8

\* TenantBest is the greatest value a tenant can still add.
LEMMA TenantBestFacts ==
  ASSUME AuctionOK(auction), NEW t, NEW p, Rest(p) \subseteq Indices(auction)
  PROVE  /\ TenantBest(t, p) \in Nat
         /\ \A i \in Rest(p) \cap OffersOf(auction, t) :
              Fits(i) => auction.offers[i].value <= TenantBest(t, p)
<1> DEFINE D == {j \in Rest(p) \cap OffersOf(auction, t) : Fits(j)}
           V == {0} \cup {auction.offers[i].value : i \in D}
<1>1. D \in SUBSET Indices(auction) /\ IsFiniteSet(D)
  BY OfferFacts, FS_Subset
<1>2. \A i \in D : auction.offers[i].value \in Nat
  BY <1>1, OfferFacts
<1>d. \A i \in Rest(p) \cap OffersOf(auction, t) : Fits(i) => i \in D
  OBVIOUS
<1>3. TenantBest(t, p) = Max(V)
  BY DEF TenantBest
<1> HIDE DEF D
<1>4. IsFiniteSet({auction.offers[i].value : i \in D})
  <2> DEFINE f == [i \in D |-> auction.offers[i].value]   I == {auction.offers[i].value : i \in D}
  <2>1. f \in Surjection(D, I)
    BY DEF Surjection
  <2> HIDE DEF f, I
  <2>2. IsFiniteSet(I)
    BY <1>1, <2>1, FS_Surjection
  <2> QED
    BY <2>2 DEF I
<1>5. IsFiniteSet(V) /\ V \in SUBSET Int /\ V # {} /\ 0 \in V /\ \A v \in V : v \in Nat
  BY <1>2, <1>4, FS_AddElement
<1>6. \A i \in D : auction.offers[i].value \in V
  OBVIOUS
<1> HIDE DEF V
<1>7. Max(V) \in V /\ \A v \in V : v <= Max(V)
  BY <1>5, MaxIs
<1> QED
  BY <1>3, <1>5, <1>6, <1>7, <1>d

\* Nothing that is allowed below a frame has more welfare than its bound.
LEMMA UpperBounds ==
  ASSUME AuctionOK(auction), NEW f, NEW goal \in SUBSET Indices(auction), f.mask \in SUBSET goal,
         \A i, j \in goal : auction.offers[i].tenant = auction.offers[j].tenant => i = j,
         goal \ f.mask \subseteq Rest(f.position), Rest(f.position) \subseteq Indices(auction),
         \A i \in goal \ f.mask : Fits(i)
  PROVE  /\ Welfare(auction, goal) <= Upper(f) /\ Upper(f) \in Nat
<1> DEFINE S == goal \ f.mask
           h == [t \in auction.tenants |-> TenantBest(t, f.position)]
           g == [i \in S |-> auction.offers[i].tenant]
           v == Values(auction)
<1>1. IsFiniteSet(S) /\ IsFiniteSet(auction.tenants) /\ S \in SUBSET Indices(auction)
  BY OfferFacts DEF AuctionOK
<1>2. g \in [S -> auction.tenants] /\ \A x, y \in S : g[x] = g[y] => x = y
  BY <1>1, OfferFacts
<1>3. \A t \in auction.tenants : h[t] \in Nat
  <2>1. \A t \in auction.tenants : TenantBest(t, f.position) \in Nat
    BY TenantBestFacts
  <2> QED
    BY <2>1
<1>4. ASSUME NEW i \in S PROVE v[i] \in Nat /\ v[i] <= h[g[i]]
  <2> DEFINE t == auction.offers[i].tenant
  <2>1. t \in auction.tenants /\ v[i] = auction.offers[i].value /\ v[i] \in Nat
    BY <1>1, OfferFacts
  <2>2. i \in Rest(f.position) \cap OffersOf(auction, t) /\ Fits(i)
    BY <1>1 DEF OffersOf
  <2>3. auction.offers[i].value <= TenantBest(t, f.position)
    BY <2>2, TenantBestFacts
  <2> QED
    BY <2>1, <2>3
<1>5. SumFunctionOnSet(v, S) <= SumFunctionOnSet(h, auction.tenants)
  <2> HIDE DEF S, g, h, v
  <2> QED
    BY <1>1, <1>2, <1>3, <1>4, SumInjection
<1>6. SumFunctionOnSet(h, auction.tenants) \in Nat
  <2> HIDE DEF h
  <2> QED
    BY <1>1, <1>3, SumNat
<1>7. Welfare(auction, goal) = Welfare(auction, f.mask) + Welfare(auction, S)
  BY WelfareParts
<1>8. Welfare(auction, f.mask) \in Nat /\ Welfare(auction, S) \in Nat
  BY <1>1, WelfareNat
<1>9. Upper(f) = Welfare(auction, f.mask) + SumFunctionOnSet(h, auction.tenants)
  BY DEF Upper
<1>10. Welfare(auction, S) = SumFunctionOnSet(v, S)
  BY DEF Welfare
<1> HIDE DEF S, h, v
<1> QED
  BY <1>5, <1>6, <1>7, <1>8, <1>9, <1>10

\* The optimum takes no offer that is worth nothing, nor one of the excluded tenant.
LEMMA OptimumConsidered ==
  ASSUME AuctionOK(auction)
  PROVE  Optimum(auction, excluded) \subseteq Considered
<1> DEFINE goal == Optimum(auction, excluded)
<1>1. /\ goal \in Allowed(auction, excluded) /\ goal \in SUBSET Indices(auction)
      /\ \A c \in Allowed(auction, excluded) : c # goal => Beats(auction, goal, c)
  BY OptimumBest
<1> HIDE DEF goal
<1> SUFFICES ASSUME NEW i \in goal, i \notin Considered PROVE FALSE
  BY DEF goal
<1>2. auction.offers[i].tenant # excluded
  BY <1>1 DEF Allowed
<1>3. auction.offers[i].value = 0
  <2>1. auction.offers[i].value \in Nat /\ ~(auction.offers[i].value > 0)
    BY <1>1, <1>2, OfferFacts DEF Considered
  <2> QED
    BY <2>1
<1> DEFINE c == goal \ {i}
<1>4. c \in Allowed(auction, excluded) /\ c \in SUBSET Indices(auction) /\ c # goal /\ c \in SUBSET goal
  BY <1>1, AllowedPart
<1>5. Welfare(auction, c) = Welfare(auction, goal)
  <2>1. {i} \in SUBSET goal /\ goal \ {i} = c
    OBVIOUS
  <2>2. Welfare(auction, goal) = Welfare(auction, {i}) + Welfare(auction, c)
    BY <1>1, <2>1, WelfareParts
  <2>3. Welfare(auction, {i}) = 0
    <3>1. IsFiniteSet({i}) /\ \A x \in {i} : Values(auction)[x] = 0
      BY <1>1, <1>3, OfferFacts, FS_Singleton
    <3> QED
      BY <3>1, SumZero DEF Welfare
  <2>4. Welfare(auction, c) \in Nat
    BY <1>4, WelfareNat
  <2> QED
    BY <2>2, <2>3, <2>4
<1>6. MaskLess(c, goal)
  BY <1>1, <1>4, OfferFacts, MaskPart
<1>7. Beats(auction, c, goal)
  BY <1>5, <1>6 DEF Beats
<1> QED
  BY <1>1, <1>4, <1>7, BeatsOneWay

-----------------------------------------------------------------------------
(* The search.                                                             *)

\* An open frame is below a choice when its mask is part of it and the rest is to come.
Pending ==
  LET goal == Optimum(auction, excluded)
  IN  best = goal \/ \E k \in DOMAIN stack : Open(stack[k], order, goal)

Residuals ==
  \A r \in rows : residual[r] = r.capacity - Load(r, HeldBy(stack, order)) /\ residual[r] >= 0

Searching ==
  /\ rows = CompileModel(auction) /\ order = Ordered
  /\ Chain(stack, order)
  /\ Residuals
  /\ best \in Allowed(auction, excluded)
  /\ Pending

SearchInv ==
  /\ auction \in Instances
  /\ excluded \in auction.tenants \cup {None}
  /\ status \in {"compile", "search", "done", "limit"}
  /\ status = "compile" => best = {}
  /\ status = "search" => Searching
  /\ status = "done" => best = Optimum(auction, excluded)

LEMMA SearchingFacts ==
  ASSUME SearchInv, status = "search"
  PROVE  /\ AuctionOK(auction) /\ rows = CompileModel(auction)
         /\ Len(order) \in Nat /\ order \in Seq(Considered) /\ Considered \in SUBSET Indices(auction)
         /\ \A i, j \in 1 .. Len(order) : order[i] = order[j] => i = j
         /\ \A p : Rest(p) = {order[k] : k \in p .. Len(order)}
         /\ stack \in Seq(Frames(order)) /\ Chain(stack, order) /\ Residuals /\ Pending
         /\ best \in Allowed(auction, excluded) /\ best \in SUBSET Indices(auction)
         /\ Held = HeldBy(stack, order)
<1>1. AuctionOK(auction) /\ Searching
  BY AuctionAssumption DEF SearchInv
<1>2. Held = HeldBy(stack, order)
  BY DEF Held, HeldBy, Top
<1> QED
  BY <1>1, <1>2, OrderFacts DEF Searching, Chain, Rest, Allowed

\* What the innermost frame is about.
LEMMA TopFacts ==
  ASSUME SearchInv, status = "search", stack # <<>>
  PROVE  /\ Top \in Frames(order) /\ Top = stack[Len(stack)]
         /\ Len(stack) \in Nat /\ Len(stack) >= 1 /\ DOMAIN stack = 1 .. Len(stack)
         /\ Top.position \in 1 .. Len(order) + 1
         /\ Top.mask \subseteq {order[j] : j \in 1 .. Top.position - 1}
         /\ Top.mask \in SUBSET Considered /\ Top.mask \in SUBSET Indices(auction)
         /\ Top.at # "enter" =>
              /\ Top.position \in 1 .. Len(order)
              /\ order[Top.position] \in Considered /\ order[Top.position] \in Indices(auction)
              /\ order[Top.position] \notin Top.mask
<1>1. /\ Len(order) \in Nat /\ order \in Seq(Considered) /\ Considered \in SUBSET Indices(auction)
      /\ \A i, j \in 1 .. Len(order) : order[i] = order[j] => i = j
      /\ stack \in Seq(Frames(order))
  BY SearchingFacts
<1>2. /\ Top \in Frames(order) /\ Top = stack[Len(stack)]
      /\ Len(stack) \in Nat /\ Len(stack) >= 1 /\ DOMAIN stack = 1 .. Len(stack)
  BY <1>1, FrontFacts DEF Top
<1>3. /\ Top.position \in 1 .. Len(order) + 1
      /\ Top.mask \subseteq {order[j] : j \in 1 .. Top.position - 1}
      /\ Top.at # "enter" => Top.position <= Len(order)
  BY <1>2 DEF Frames
<1>4. \A j \in 1 .. Len(order) : order[j] \in Considered
  BY <1>1
<1>5. Top.mask \in SUBSET Considered
  BY <1>1, <1>3, <1>4
<1>6. ASSUME Top.at # "enter"
      PROVE  Top.position \in 1 .. Len(order) /\ order[Top.position] \notin Top.mask
  <2>1. Top.position \in 1 .. Len(order)
    BY <1>1, <1>3, <1>6
  <2>2. SUFFICES ASSUME order[Top.position] \in Top.mask PROVE FALSE
    BY <2>1
  <2>3. PICK j \in 1 .. Top.position - 1 : order[j] = order[Top.position]
    BY <1>3, <2>2
  <2>4. j \in 1 .. Len(order) /\ j # Top.position
    BY <1>1, <2>1
  <2> QED
    BY <1>1, <2>1, <2>3, <2>4
<1> QED
  BY <1>1, <1>2, <1>3, <1>4, <1>5, <1>6

\* While the rows hold what the mask uses, an offer of an allowed choice that goes on
\* from the mask fits.
LEMMA GoalFits ==
  ASSUME SearchInv, status = "search", NEW goal \in Allowed(auction, excluded),
         HeldBy(stack, order) \subseteq goal, NEW i \in goal, i \notin HeldBy(stack, order)
  PROVE  Fits(i)
<1> DEFINE mask == HeldBy(stack, order)
<1>1. AuctionOK(auction) /\ rows = CompileModel(auction) /\ Residuals /\ goal \in SUBSET Indices(auction)
  BY SearchingFacts DEF Allowed
<1>2. RowsFeasible(auction, rows, goal, excluded)
  BY <1>1, RowsMeanFeasible
<1>3. Residuals <=> \A r \in rows : residual[r] = r.capacity - Load(r, mask) /\ residual[r] >= 0
  BY DEF Residuals
<1> HIDE DEF mask
<1>m. mask \subseteq goal /\ i \notin mask
  BY DEF mask
<1> SUFFICES ASSUME NEW r \in rows, i \in DOMAIN r.terms PROVE r.terms[i] <= residual[r]
  BY DEF Fits
<1>4. Load(r, mask \cup {i}) = Load(r, mask) + r.terms[i]
  BY <1>1, <1>m, LoadAdd
<1>5. Load(r, mask \cup {i}) <= Load(r, goal) /\ Load(r, goal) <= r.capacity
  BY <1>1, <1>2, <1>m, LoadPart DEF RowsFeasible
<1>6. /\ Load(r, mask) \in Nat /\ Load(r, mask \cup {i}) \in Nat /\ Load(r, goal) \in Nat
      /\ r.capacity \in Nat /\ r.terms[i] \in Nat
  BY <1>1, LoadNat, RowFacts
<1>7. residual[r] = r.capacity - Load(r, mask)
  BY <1>1, <1>3
<1> QED
  BY <1>4, <1>5, <1>6, <1>7

\* What the innermost frame has chosen is allowed.
LEMMA MaskAllowed ==
  ASSUME SearchInv, status = "search", stack # <<>>, Top.at # "restore"
  PROVE  Top.mask \in Allowed(auction, excluded)
<1>1. AuctionOK(auction) /\ rows = CompileModel(auction) /\ Residuals
  BY SearchingFacts
<1>2. HeldBy(stack, order) = Top.mask
  BY DEF HeldBy, Top
<1>3. Top.mask \in SUBSET Indices(auction) /\ \A i \in Top.mask : auction.offers[i].tenant # excluded
  BY TopFacts DEF Considered
<1>4. ASSUME NEW r \in rows PROVE Load(r, Top.mask) <= r.capacity
  <2>1. Load(r, Top.mask) \in Nat /\ r.capacity \in Nat
    BY <1>1, LoadNat, RowFacts
  <2>2. residual[r] = r.capacity - Load(r, Top.mask) /\ residual[r] >= 0
    BY <1>1, <1>2 DEF Residuals
  <2> QED
    BY <2>1, <2>2
<1>5. RowsFeasible(auction, rows, Top.mask, excluded)
  BY <1>3, <1>4 DEF RowsFeasible
<1> QED
  BY <1>1, <1>3, <1>5, RowsMeanFeasible

LEMMA CompileInv == SearchInv /\ Compile => SearchInv'
<1> SUFFICES ASSUME SearchInv, Compile PROVE SearchInv'
  OBVIOUS
<1> DEFINE goal == Optimum(auction, excluded)   f == Frame(1, {}, "enter")
<1>1. /\ AuctionOK(auction) /\ best = {}
      /\ auction' = auction /\ excluded' = excluded /\ best' = best /\ status' = "search"
      /\ rows' = CompileModel(auction) /\ order' = Ordered /\ stack' = <<f>>
      /\ residual' = [r \in rows' |-> r.capacity]
  BY AuctionAssumption DEF SearchInv, Compile, fixed
<1>2. Ordered' = Ordered
  BY <1>1 DEF Ordered, Considered, Before
<1>3. f.position = 1 /\ f.mask = {} /\ f.at = "enter"
  BY DEF Frame
<1>4. f \in Frames(order')
  <2>1. Len(order') \in Nat
    BY <1>1, OrderFacts
  <2>2. f \in [position : 1 .. Len(order') + 1, mask : SUBSET {order'[j] : j \in 1 .. Len(order')},
               at : {"enter", "with", "restore", "without"}]
    BY <2>1 DEF Frame
  <2> QED
    BY <1>3, <2>2 DEF Frames
<1> HIDE DEF f
<1>5. Chain(stack', order')
  <2>1. stack' \in Seq(Frames(order')) /\ stack'[1] = f /\ Len(stack') = 1
    BY <1>1, <1>4
  <2> QED
    BY <1>3, <2>1 DEF Chain
<1>6. Residuals'
  <2>1. HeldBy(stack', order') = {}
    BY <1>1, <1>3 DEF HeldBy, Last
  <2>2. ASSUME NEW r \in rows' PROVE residual'[r] = r.capacity - Load(r, {}) /\ residual'[r] >= 0
    <3>1. {} \cap DOMAIN r.terms = {}
      OBVIOUS
    <3>2. Load(r, {}) = 0
      BY <3>1, SumEmpty DEF Load
    <3>3. r.capacity \in Nat
      BY <1>1, RowFacts
    <3> QED
      BY <1>1, <3>2, <3>3
  <2> QED
    BY <2>1, <2>2 DEF Residuals
<1>7. best' \in Allowed(auction, excluded)'
  <2>1. {} \in Allowed(auction, excluded)
    BY <1>1, AllowedFacts
  <2> QED
    BY <1>1, <2>1
<1>8. Pending'
  <2>1. goal \subseteq {order'[k] : k \in 1 .. Len(order')}
    BY <1>1, OptimumConsidered, OrderFacts
  <2>2. Below(f, order') = {order'[k] : k \in 1 .. Len(order')}
    BY <1>3 DEF Below
  <2>3. Open(f, order', goal)
    BY <1>3, <2>1, <2>2 DEF Open
  <2>4. 1 \in DOMAIN stack' /\ stack'[1] = f
    BY <1>1
  <2> QED
    BY <1>1, <2>3, <2>4 DEF Pending
<1> QED
  BY <1>1, <1>2, <1>5, <1>6, <1>7, <1>8 DEF SearchInv, Searching

\* The bound of the innermost frame, when the optimum is below it.
LEMMA PrunedOnlyAfter ==
  ASSUME SearchInv, status = "search", stack # <<>>, Top.at = "enter",
         Open(Top, order, Optimum(auction, excluded)),
         NEW record \in Allowed(auction, excluded), Pruned(Top, record)
  PROVE  record = Optimum(auction, excluded)
<1> DEFINE goal == Optimum(auction, excluded)
<1>1. /\ AuctionOK(auction) /\ Considered \in SUBSET Indices(auction)
      /\ order \in Seq(Considered) /\ Len(order) \in Nat
      /\ \A p : Rest(p) = {order[k] : k \in p .. Len(order)}
  BY SearchingFacts
<1>2. /\ goal \in Allowed(auction, excluded) /\ goal \in SUBSET Indices(auction)
      /\ \A c \in Allowed(auction, excluded) : c # goal => Beats(auction, goal, c)
      /\ \A c \in Allowed(auction, excluded) : Welfare(auction, c) <= Welfare(auction, goal)
  BY <1>1, OptimumBest
<1>3. Top.position \in 1 .. Len(order) + 1 /\ Top.mask \in SUBSET goal
  BY TopFacts DEF Open
<1>4. goal \ Top.mask \subseteq Rest(Top.position) /\ Rest(Top.position) \subseteq Indices(auction)
  <2>1. Below(Top, order) = Rest(Top.position)
    BY <1>1 DEF Below
  <2>2. \A k \in Top.position .. Len(order) : order[k] \in Indices(auction)
    BY <1>1, <1>3
  <2> QED
    BY <1>1, <2>1, <2>2 DEF Open
<1>5. HeldBy(stack, order) = Top.mask
  BY DEF HeldBy, Top
<1>6. \A i \in goal \ Top.mask : Fits(i)
  <2> HIDE DEF goal
  <2> QED
    BY <1>2, <1>3, <1>5, GoalFits
<1>7. \A i, j \in goal : auction.offers[i].tenant = auction.offers[j].tenant => i = j
  BY <1>2 DEF Allowed, Feasible
<1> HIDE DEF goal
<1>8. Welfare(auction, goal) <= Upper(Top) /\ Upper(Top) \in Nat
  BY <1>1, <1>2, <1>3, <1>4, <1>6, <1>7, UpperBounds
<1>9. record \in SUBSET Indices(auction)
  BY DEF Allowed
<1>10. Welfare(auction, goal) \in Nat /\ Welfare(auction, record) \in Nat
  BY <1>1, <1>2, <1>9, WelfareNat
<1>11. Welfare(auction, record) <= Welfare(auction, goal)
  BY <1>2
<1>12. ~MaskLess(Top.mask, record) /\ Welfare(auction, record) = Welfare(auction, goal)
  BY <1>8, <1>10, <1>11 DEF Pruned
<1> SUFFICES ASSUME record # goal PROVE FALSE
  BY DEF goal
<1>13. MaskLess(goal, record)
  BY <1>2, <1>10, <1>12 DEF Beats
<1>14. MaskLess(Top.mask, record)
  <2>1. CASE Top.mask = goal
    BY <1>13, <2>1
  <2>2. CASE Top.mask # goal
    <3> DEFINE m == Top.mask
    <3>1. m \in SUBSET goal /\ m # goal /\ m \in SUBSET Indices(auction)
      BY <1>2, <1>3, <2>2
    <3> HIDE DEF m
    <3>2. MaskLess(m, goal)
      BY <1>1, <1>2, <3>1, OfferFacts, MaskPart
    <3>3. MaskLess(m, record)
      BY <1>1, <1>2, <1>9, <1>13, <3>1, <3>2, OfferFacts, MaskTransitive
    <3> QED
      BY <3>3 DEF m
  <2> QED
    BY <2>1, <2>2
<1> QED
  BY <1>12, <1>14

LEMMA RecordFacts ==
  ASSUME SearchInv, status = "search", NEW mask \in Allowed(auction, excluded)
  PROVE  LET goal == Optimum(auction, excluded)
         IN  /\ Record(mask) \in Allowed(auction, excluded)
             /\ best = goal \/ mask = goal => Record(mask) = goal
<1> DEFINE goal == Optimum(auction, excluded)
<1>1. /\ AuctionOK(auction) /\ best \in Allowed(auction, excluded)
      /\ best \in SUBSET Indices(auction) /\ mask \in SUBSET Indices(auction)
  BY SearchingFacts DEF Allowed
<1>2. /\ goal \in SUBSET Indices(auction)
      /\ \A c \in Allowed(auction, excluded) : c # goal => Beats(auction, goal, c)
  BY <1>1, OptimumBest
<1> HIDE DEF goal
<1>3. ASSUME best = goal PROVE Record(mask) = goal
  <2>1. CASE mask = goal
    BY <1>3, <2>1 DEF Record
  <2>2. CASE mask # goal
    <3>1. ~Beats(auction, mask, goal)
      BY <1>1, <1>2, <2>2, BeatsOneWay
    <3> QED
      BY <1>3, <3>1 DEF Record
  <2> QED
    BY <2>1, <2>2
<1>4. ASSUME mask = goal PROVE Record(mask) = goal
  BY <1>1, <1>2, <1>4 DEF Record
<1> QED
  BY <1>1, <1>3, <1>4 DEF Record, goal

LEMMA VisitInv == SearchInv /\ Visit => SearchInv'
<1> SUFFICES ASSUME SearchInv, Visit PROVE SearchInv'
  OBVIOUS
<1> DEFINE goal == Optimum(auction, excluded)
           f == [Top EXCEPT !.at = "with"]
           cut == Pruned(Top, best') \/ Top.position > Len(order)
<1>1. /\ status = "search" /\ stack # <<>> /\ Top.at = "enter"
      /\ auction' = auction /\ excluded' = excluded /\ rows' = rows /\ order' = order
      /\ residual' = residual /\ status' = status /\ best' = Record(Top.mask)
      /\ stack' = IF cut THEN Front(stack) ELSE Append(Front(stack), f)
  BY DEF Visit, fixed
<1>2. /\ AuctionOK(auction) /\ rows = CompileModel(auction) /\ Chain(stack, order) /\ Residuals /\ Pending
      /\ Len(order) \in Nat /\ order = Ordered
      /\ \A p : Rest(p) = {order[k] : k \in p .. Len(order)}
  BY <1>1, SearchingFacts DEF SearchInv, Searching
<1>3. /\ Top \in Frames(order) /\ Top = stack[Len(stack)] /\ Top = Last(stack)
      /\ Len(stack) \in Nat /\ Len(stack) >= 1 /\ DOMAIN stack = 1 .. Len(stack)
      /\ Top.position \in 1 .. Len(order) + 1
  BY <1>1, TopFacts DEF Top
<1>4. Top.mask \in Allowed(auction, excluded)
  BY <1>1, MaskAllowed
<1>5. /\ best' \in Allowed(auction, excluded)
      /\ best = goal \/ Top.mask = goal => best' = goal
  BY <1>1, <1>4, RecordFacts
<1>6. HeldBy(stack, order) = Top.mask
  BY <1>1 DEF HeldBy, Top
<1>7. cut => (Open(Top, order, goal) => best' = goal)
  <2> SUFFICES ASSUME cut, Open(Top, order, goal) PROVE best' = goal
    OBVIOUS
  <2>1. CASE Pruned(Top, best')
    BY <1>1, <1>5, <2>1, PrunedOnlyAfter
  <2>2. CASE Top.position > Len(order)
    <3>1. Below(Top, order) = {}
      BY <1>1, <1>2, <1>3, <2>2 DEF Below
    <3>2. Top.mask = goal
      BY <3>1 DEF Open
    <3> QED
      BY <1>5, <3>2
  <2> QED
    BY <2>1, <2>2
<1>8. \A k \in 1 .. Len(stack) - 1 : Open(stack[k], order, goal) => k \in DOMAIN stack' /\ stack'[k] = stack[k]
  <2>1. stack \in Seq(Frames(order))
    BY <1>2 DEF Chain
  <2>2. /\ Front(stack) \in Seq(Frames(order)) /\ Len(Front(stack)) = Len(stack) - 1
        /\ \A k \in 1 .. Len(stack) - 1 : Front(stack)[k] = stack[k]
    BY <1>1, <2>1, FrontFacts
  <2>3. CASE cut
    <3>1. stack' = Front(stack)
      BY <1>1, <2>3
    <3> QED
      BY <1>3, <2>2, <3>1
  <2>4. CASE ~cut
    <3>1. stack' = Append(Front(stack), f)
      BY <1>1, <2>4
    <3> HIDE DEF f
    <3> QED
      BY <1>3, <2>2, <3>1
  <2> HIDE DEF cut
  <2> QED
    BY <2>3, <2>4
<1>9. CASE cut
  <2>1. stack' = Front(stack)
    BY <1>1, <1>9
  <2>2. Chain(stack', order') /\ HeldBy(stack', order') = Top.mask
    BY <1>1, <1>2, <1>3, <2>1, ChainPop
  <2>3. Residuals'
    BY <1>1, <1>2, <1>6, <2>2 DEF Residuals
  <2>4. Pending'
    <3>1. CASE best = goal
      BY <1>1, <1>5, <3>1 DEF Pending
    <3>2. CASE best # goal
      <4>1. PICK k \in DOMAIN stack : Open(stack[k], order, goal)
        BY <1>2, <3>2 DEF Pending
      <4>2. CASE k = Len(stack)
        <5>1. best' = goal
          BY <1>3, <1>7, <1>9, <4>1, <4>2
        <5> QED
          BY <1>1, <5>1 DEF Pending
      <4>3. CASE k # Len(stack)
        <5>1. k \in DOMAIN stack' /\ Open(stack'[k], order', goal)
          BY <1>1, <1>3, <1>8, <4>1, <4>3
        <5> QED
          BY <1>1, <5>1 DEF Pending
      <4> QED
        BY <4>2, <4>3
    <3> QED
      BY <3>1, <3>2
  <2>5. Ordered' = Ordered
    BY <1>1 DEF Ordered, Considered, Before
  <2> QED
    BY <1>1, <1>2, <1>5, <2>2, <2>3, <2>4, <2>5 DEF SearchInv, Searching
<1>10. CASE ~cut
  <2>1. stack' = Append(Front(stack), f) /\ Top.position <= Len(order)
    BY <1>1, <1>2, <1>3, <1>10
  <2>2. f \in Frames(order) /\ f.mask = Top.mask /\ f.position = Top.position /\ f.at = "with"
    <3> DEFINE g == Top
    <3>1. g \in Frames(order) /\ g.position <= Len(order)
      BY <1>3, <2>1
    <3> HIDE DEF g
    <3>2. LET x == [g EXCEPT !.at = "with"]
          IN  x \in Frames(order) /\ x.mask = g.mask /\ x.position = g.position /\ x.at = "with"
      BY <3>1, GoesOn
    <3> QED
      BY <3>2 DEF g
  <2> HIDE DEF f
  <2>3. /\ Chain(stack', order') /\ stack' # <<>> /\ Last(stack') = f /\ Len(stack') = Len(stack)
        /\ stack'[Len(stack)] = f
    <3>1. f.mask = Last(stack).mask
      BY <1>3, <2>2
    <3>2. /\ Chain(Swap(stack, f), order) /\ Swap(stack, f) # <<>> /\ Last(Swap(stack, f)) = f
          /\ Len(Swap(stack, f)) = Len(stack) /\ Swap(stack, f)[Len(stack)] = f
      BY <1>1, <1>2, <2>2, <3>1, ChainSwap
    <3> QED
      BY <1>1, <2>1, <3>2 DEF Swap
  <2>4. HeldBy(stack', order') = Top.mask
    BY <2>2, <2>3 DEF HeldBy
  <2>5. Residuals'
    BY <1>1, <1>2, <1>6, <2>4 DEF Residuals
  <2>6. Open(Top, order, goal) => Open(f, order, goal)
    BY <1>1, <2>2 DEF Open, Below
  <2>7. Pending'
    <3>1. CASE best = goal
      BY <1>1, <1>5, <3>1 DEF Pending
    <3>2. CASE best # goal
      <4>1. PICK k \in DOMAIN stack : Open(stack[k], order, goal)
        BY <1>2, <3>2 DEF Pending
      <4>2. k \in DOMAIN stack' /\ Open(stack'[k], order', goal)
        <5>1. CASE k = Len(stack)
          <6>1. DOMAIN stack' = 1 .. Len(stack)
            BY <1>3, <2>3 DEF Chain
          <6> QED
            BY <1>1, <1>3, <2>3, <2>6, <4>1, <5>1, <6>1
        <5>2. CASE k # Len(stack)
          BY <1>1, <1>3, <1>8, <4>1, <5>2
        <5> QED
          BY <5>1, <5>2
      <4> QED
        BY <1>1, <4>2 DEF Pending
    <3> QED
      BY <3>1, <3>2
  <2>8. Ordered' = Ordered
    BY <1>1 DEF Ordered, Considered, Before
  <2> QED
    BY <1>1, <1>2, <1>5, <2>3, <2>5, <2>7, <2>8 DEF SearchInv, Searching
<1> QED
  BY <1>9, <1>10

\* The frame that goes on is put in the place of the innermost.
LEMMA TopGoesOn ==
  ASSUME SearchInv, status = "search", stack # <<>>, Top.position <= Len(order),
         NEW at \in {"with", "restore", "without"}
  PROVE  LET f == [Top EXCEPT !.at = at]
             t == Append(Front(stack), f)
         IN  /\ Chain(t, order) /\ t # <<>> /\ Last(t) = f /\ Len(t) = Len(stack) /\ t[Len(stack)] = f
             /\ \A k \in 1 .. Len(stack) - 1 : t[k] = stack[k]
             /\ DOMAIN t = DOMAIN stack
             /\ f.mask = Top.mask /\ f.position = Top.position /\ f.at = at
<1> DEFINE g == Top   f == [g EXCEPT !.at = at]   t == Append(Front(stack), f)
<1>1. /\ g \in Frames(order) /\ g.position <= Len(order) /\ g = Last(stack)
      /\ Len(order) \in Nat /\ Chain(stack, order) /\ DOMAIN stack = 1 .. Len(stack)
  BY TopFacts, SearchingFacts DEF Top
<1> HIDE DEF g
<1>2. f \in Frames(order) /\ f.mask = g.mask /\ f.position = g.position /\ f.at = at
  BY <1>1, GoesOn
<1> HIDE DEF f
<1>3. /\ Chain(t, order) /\ t # <<>> /\ Last(t) = f /\ Len(t) = Len(stack) /\ t[Len(stack)] = f
      /\ \A k \in 1 .. Len(stack) - 1 : t[k] = stack[k]
  <2>1. f.mask = Last(stack).mask
    BY <1>1, <1>2
  <2>2. /\ Chain(Swap(stack, f), order) /\ Swap(stack, f) # <<>> /\ Last(Swap(stack, f)) = f
        /\ Len(Swap(stack, f)) = Len(stack) /\ Swap(stack, f)[Len(stack)] = f
        /\ \A k \in 1 .. Len(stack) - 1 : Swap(stack, f)[k] = stack[k]
    BY <1>1, <1>2, <2>1, ChainSwap
  <2> QED
    BY <2>2 DEF Swap
<1> HIDE DEF t
<1>4. DOMAIN t = DOMAIN stack
  BY <1>1, <1>3 DEF Chain
<1> QED
  BY <1>2, <1>3, <1>4 DEF t, f, g

\* The rows have left what the new mask does not use, once they are charged for an offer.
LEMMA Charging ==
  ASSUME SearchInv, status = "search", NEW i, i \notin HeldBy(stack, order), Fits(i),
         HeldBy(stack, order) \in SUBSET Indices(auction), Charge(i, 1)
  PROVE  \A r \in rows : /\ residual'[r] = r.capacity - Load(r, HeldBy(stack, order) \cup {i})
                         /\ residual'[r] >= 0
<1> DEFINE mask == HeldBy(stack, order)
<1>1. AuctionOK(auction) /\ rows = CompileModel(auction) /\ Residuals
  BY SearchingFacts
<1> SUFFICES ASSUME NEW r \in rows
             PROVE  residual'[r] = r.capacity - Load(r, mask \cup {i}) /\ residual'[r] >= 0
  OBVIOUS
<1>2. residual[r] = r.capacity - Load(r, mask) /\ residual[r] >= 0
  BY <1>1 DEF Residuals
<1> HIDE DEF mask
<1>3. Load(r, mask \cup {i}) = IF i \in DOMAIN r.terms THEN Load(r, mask) + r.terms[i] ELSE Load(r, mask)
  BY <1>1, LoadAdd DEF mask
<1>4. /\ Load(r, mask) \in Nat /\ r.capacity \in Nat
      /\ i \in DOMAIN r.terms => r.terms[i] \in Nat /\ r.terms[i] <= residual[r]
  BY <1>1, LoadNat, RowFacts DEF Fits
<1>5. residual'[r] = IF i \in DOMAIN r.terms THEN residual[r] - 1 * r.terms[i] ELSE residual[r]
  BY DEF Charge
<1> QED
  BY <1>2, <1>3, <1>4, <1>5

\* What the branch used is given back.
LEMMA GivingBack ==
  ASSUME SearchInv, status = "search", NEW mask \in SUBSET Indices(auction), NEW i, i \notin mask,
         HeldBy(stack, order) = mask \cup {i}, Charge(i, -1)
  PROVE  \A r \in rows : residual'[r] = r.capacity - Load(r, mask) /\ residual'[r] >= 0
<1>1. AuctionOK(auction) /\ rows = CompileModel(auction) /\ Residuals
  BY SearchingFacts
<1> SUFFICES ASSUME NEW r \in rows
             PROVE  residual'[r] = r.capacity - Load(r, mask) /\ residual'[r] >= 0
  OBVIOUS
<1>2. residual[r] = r.capacity - Load(r, mask \cup {i}) /\ residual[r] >= 0
  BY <1>1 DEF Residuals
<1>3. Load(r, mask \cup {i}) = IF i \in DOMAIN r.terms THEN Load(r, mask) + r.terms[i] ELSE Load(r, mask)
  BY <1>1, LoadAdd
<1>4. /\ Load(r, mask) \in Nat /\ r.capacity \in Nat
      /\ i \in DOMAIN r.terms => r.terms[i] \in Nat
  BY <1>1, LoadNat, RowFacts
<1>5. residual'[r] = IF i \in DOMAIN r.terms THEN residual[r] - (-1) * r.terms[i] ELSE residual[r]
  BY DEF Charge
<1> QED
  BY <1>2, <1>3, <1>4, <1>5

\* The rest of a frame's offers, without the one it is about.
LEMMA BelowNext ==
  ASSUME SearchInv, status = "search", stack # <<>>, Top.at = "with"
  PROVE  Below(Top, order) = {order[Top.position]} \cup {order[k] : k \in Top.position + 1 .. Len(order)}
<1>1. Top.position \in 1 .. Len(order) /\ Len(order) \in Nat
  BY TopFacts, SearchingFacts
<1>2. \A k : k \in Top.position .. Len(order) <=> k = Top.position \/ k \in Top.position + 1 .. Len(order)
  BY <1>1
<1>3. Below(Top, order) = {order[k] : k \in Top.position .. Len(order)}
  BY DEF Below
<1> QED
  BY <1>2, <1>3

\* A step that changes the innermost frame only, and leaves open what was.
LEMMA OtherFrames ==
  ASSUME SearchInv, status = "search", stack # <<>>, NEW t, NEW n \in Nat, DOMAIN t = 1 .. n,
         n >= Len(stack), \A k \in 1 .. Len(stack) - 1 : t[k] = stack[k],
         Open(Top, order, Optimum(auction, excluded)) =>
           \E k \in 1 .. n : Open(t[k], order, Optimum(auction, excluded))
  PROVE  \/ best = Optimum(auction, excluded)
         \/ \E k \in DOMAIN t : Open(t[k], order, Optimum(auction, excluded))
<1> DEFINE goal == Optimum(auction, excluded)
<1> SUFFICES ASSUME best # goal PROVE \E k \in DOMAIN t : Open(t[k], order, goal)
  OBVIOUS
<1>1. PICK k \in DOMAIN stack : Open(stack[k], order, goal)
  BY SearchingFacts DEF Pending
<1>2. Top = stack[Len(stack)] /\ DOMAIN stack = 1 .. Len(stack) /\ Len(stack) \in Nat
  BY TopFacts
<1>3. CASE k = Len(stack)
  BY <1>1, <1>2, <1>3
<1>4. CASE k # Len(stack)
  <2>1. k \in 1 .. Len(stack) - 1 /\ k \in 1 .. n
    BY <1>1, <1>2, <1>4
  <2> QED
    BY <1>1, <2>1
<1> QED
  BY <1>3, <1>4

LEMMA TakeInv == SearchInv /\ Take => SearchInv'
<1> SUFFICES ASSUME SearchInv, Take PROVE SearchInv'
  OBVIOUS
<1> DEFINE goal == Optimum(auction, excluded)   i == order[Top.position]
<1>1. /\ status = "search" /\ stack # <<>> /\ Top.at = "with"
      /\ auction' = auction /\ excluded' = excluded /\ rows' = rows /\ order' = order
      /\ status' = status /\ best' = best
  BY DEF Take, fixed
<1>2. /\ AuctionOK(auction) /\ rows = CompileModel(auction) /\ Chain(stack, order) /\ Residuals /\ Pending
      /\ Len(order) \in Nat /\ order = Ordered /\ best \in Allowed(auction, excluded)
  BY <1>1, SearchingFacts DEF SearchInv, Searching
<1>3. /\ Top.position \in 1 .. Len(order) /\ Top.mask \in SUBSET Indices(auction) /\ i \notin Top.mask
      /\ i \in Indices(auction) /\ Len(stack) \in Nat /\ Len(stack) >= 1 /\ DOMAIN stack = 1 .. Len(stack)
      /\ Top.position <= Len(order)
  BY <1>1, <1>2, TopFacts
<1>4. HeldBy(stack, order) = Top.mask
  BY <1>1 DEF HeldBy, Top
<1>5. Ordered' = Ordered
  BY <1>1 DEF Ordered, Considered, Before
<1>6. Below(Top, order) = {i} \cup {order[k] : k \in Top.position + 1 .. Len(order)}
  BY <1>1, BelowNext
<1> HIDE DEF i
<1>7. CASE Fits(i)
  <2> DEFINE f == [Top EXCEPT !.at = "restore"]
             s == Append(Front(stack), f)
             child == Frame(Top.position + 1, Top.mask \cup {i}, "enter")
             t == Append(s, child)
  <2>1. Charge(i, 1) /\ stack' = t
    BY <1>7 DEF Take, Charge, i
  <2>2. /\ Chain(s, order) /\ s # <<>> /\ Last(s) = f /\ Len(s) = Len(stack)
        /\ \A k \in 1 .. Len(stack) - 1 : s[k] = stack[k]
        /\ f.mask = Top.mask /\ f.position = Top.position /\ f.at = "restore"
    BY <1>1, <1>3, TopGoesOn
  <2> HIDE DEF f, s
  <2>3. child = Frame(Last(s).position + 1, Last(s).mask \cup {order[Last(s).position]}, "enter")
    BY <2>2 DEF i
  <2>4. /\ Chain(t, order) /\ t # <<>> /\ Last(t) = child /\ Len(t) = Len(stack) + 1 /\ t[Len(stack) + 1] = child
        /\ \A k \in 1 .. Len(stack) : t[k] = s[k]
    <3>1. Last(s).at = "restore" /\ t = Push(s, order)
      BY <2>2, <2>3 DEF Child, Push
    <3>2. child = Child(s, order)
      BY <2>3 DEF Child
    <3> HIDE DEF child, t
    <3> QED
      BY <1>2, <2>2, <3>1, <3>2, ChainPush
  <2>5. child.mask = Top.mask \cup {i} /\ child.position = Top.position + 1 /\ child.at = "enter"
    BY DEF Frame
  <2>d. DOMAIN t = 1 .. Len(stack) + 1
    BY <2>4 DEF Chain
  <2> HIDE DEF t, child
  <2>6. HeldBy(stack', order') = Top.mask \cup {i}
    BY <2>1, <2>4, <2>5 DEF HeldBy
  <2>7. Residuals'
    <3>1. \A r \in rows : residual'[r] = r.capacity - Load(r, Top.mask \cup {i}) /\ residual'[r] >= 0
      BY <1>1, <1>3, <1>4, <1>7, <2>1, Charging
    <3> QED
      BY <1>1, <2>6, <3>1 DEF Residuals
  <2>8. Pending'
    <3>1. ASSUME Open(Top, order, goal) PROVE \E k \in 1 .. Len(stack) + 1 : Open(t[k], order, goal)
      <4>1. CASE i \in goal
        <5>1. Below(child, order) = {order[k] : k \in Top.position + 1 .. Len(order)}
          BY <2>5 DEF Below
        <5>2. Open(child, order, goal)
          BY <1>6, <2>5, <3>1, <4>1, <5>1 DEF Open
        <5> QED
          BY <1>3, <2>4, <5>2
      <4>2. CASE i \notin goal
        <5>1. Below(f, order) = {order[k] : k \in Top.position + 1 .. Len(order)}
          BY <2>2 DEF Below
        <5>2. Open(f, order, goal)
          BY <1>6, <2>2, <3>1, <4>2, <5>1 DEF Open
        <5>3. t[Len(stack)] = f
          BY <1>3, <2>2, <2>4 DEF Last
        <5> QED
          BY <1>3, <5>2, <5>3
      <4> QED
        BY <4>1, <4>2
    <3>2. Len(stack) + 1 \in Nat /\ Len(stack) + 1 >= Len(stack)
          /\ \A k \in 1 .. Len(stack) - 1 : t[k] = stack[k]
      BY <1>3, <2>2, <2>4
    <3>3. best = goal \/ \E k \in DOMAIN t : Open(t[k], order, goal)
      BY <1>1, <2>d, <3>1, <3>2, OtherFrames
    <3> QED
      BY <1>1, <2>1, <3>3 DEF Pending
  <2> QED
    BY <1>1, <1>2, <1>5, <2>1, <2>4, <2>7, <2>8 DEF SearchInv, Searching
<1>8. CASE ~Fits(i)
  <2> DEFINE f == [Top EXCEPT !.at = "without"]
             t == Append(Front(stack), f)
  <2>1. residual' = residual /\ stack' = t
    BY <1>8 DEF Take, i
  <2>2. /\ Chain(t, order) /\ t # <<>> /\ Last(t) = f /\ Len(t) = Len(stack) /\ t[Len(stack)] = f
        /\ \A k \in 1 .. Len(stack) - 1 : t[k] = stack[k]
        /\ DOMAIN t = DOMAIN stack
        /\ f.mask = Top.mask /\ f.position = Top.position /\ f.at = "without"
    BY <1>1, <1>3, TopGoesOn
  <2> HIDE DEF f, t
  <2>3. HeldBy(stack', order') = Top.mask
    BY <2>1, <2>2 DEF HeldBy
  <2>4. Residuals'
    BY <1>1, <1>2, <1>4, <2>1, <2>3 DEF Residuals
  <2>5. Pending'
    <3>1. ASSUME Open(Top, order, goal) PROVE \E k \in 1 .. Len(stack) : Open(t[k], order, goal)
      <4>1. i \notin goal
        <5>1. goal \in Allowed(auction, excluded)
          BY <1>2, OptimumBest
        <5>2. HeldBy(stack, order) \subseteq goal
          BY <1>4, <3>1 DEF Open
        <5> QED
          BY <1>1, <1>3, <1>4, <1>8, <5>1, <5>2, GoalFits
      <4>2. Below(f, order) = {order[k] : k \in Top.position + 1 .. Len(order)}
        BY <2>2 DEF Below
      <4>3. Open(f, order, goal)
        BY <1>6, <2>2, <3>1, <4>1, <4>2 DEF Open
      <4> QED
        BY <1>3, <2>2, <4>3
    <3>2. best = goal \/ \E k \in DOMAIN t : Open(t[k], order, goal)
      BY <1>1, <1>3, <2>2, <3>1, OtherFrames
    <3> QED
      BY <1>1, <2>1, <3>2 DEF Pending
  <2> QED
    BY <1>1, <1>2, <1>5, <2>1, <2>2, <2>4, <2>5 DEF SearchInv, Searching
<1> QED
  BY <1>7, <1>8

LEMMA RestoreInv == SearchInv /\ Restore => SearchInv'
<1> SUFFICES ASSUME SearchInv, Restore PROVE SearchInv'
  OBVIOUS
<1> DEFINE goal == Optimum(auction, excluded)   i == order[Top.position]
           f == [Top EXCEPT !.at = "without"]
           t == Append(Front(stack), f)
<1>1. /\ status = "search" /\ stack # <<>> /\ Top.at = "restore"
      /\ auction' = auction /\ excluded' = excluded /\ rows' = rows /\ order' = order
      /\ status' = status /\ best' = best /\ stack' = t
  BY DEF Restore, fixed
<1>2. /\ AuctionOK(auction) /\ rows = CompileModel(auction) /\ Chain(stack, order) /\ Residuals /\ Pending
      /\ Len(order) \in Nat /\ order = Ordered /\ best \in Allowed(auction, excluded)
  BY <1>1, SearchingFacts DEF SearchInv, Searching
<1>3. /\ Top.position \in 1 .. Len(order) /\ Top.mask \in SUBSET Indices(auction) /\ i \notin Top.mask
      /\ Len(stack) \in Nat /\ Len(stack) >= 1 /\ DOMAIN stack = 1 .. Len(stack)
      /\ Top.position <= Len(order)
  BY <1>1, <1>2, TopFacts
<1>4. HeldBy(stack, order) = Top.mask \cup {i}
  BY <1>1 DEF HeldBy, Top
<1>5. Ordered' = Ordered
  BY <1>1 DEF Ordered, Considered, Before
<1>6. Charge(i, -1)
  BY DEF Restore, Charge
<1> HIDE DEF i
<1>7. /\ Chain(t, order) /\ t # <<>> /\ Last(t) = f /\ Len(t) = Len(stack) /\ t[Len(stack)] = f
      /\ \A k \in 1 .. Len(stack) - 1 : t[k] = stack[k]
      /\ DOMAIN t = DOMAIN stack
      /\ f.mask = Top.mask /\ f.position = Top.position /\ f.at = "without"
  BY <1>1, <1>3, TopGoesOn
<1> HIDE DEF f, t
<1>8. HeldBy(stack', order') = Top.mask
  BY <1>1, <1>7 DEF HeldBy
<1>9. Residuals'
  <2>1. \A r \in rows : residual'[r] = r.capacity - Load(r, Top.mask) /\ residual'[r] >= 0
    BY <1>1, <1>3, <1>4, <1>6, GivingBack
  <2> QED
    BY <1>1, <1>8, <2>1 DEF Residuals
<1>10. Pending'
  <2>1. Open(Top, order, goal) => Open(f, order, goal)
    BY <1>1, <1>7 DEF Open, Below
  <2>2. Open(Top, order, goal) => \E k \in 1 .. Len(stack) : Open(t[k], order, goal)
    BY <1>3, <1>7, <2>1
  <2>3. best = goal \/ \E k \in DOMAIN t : Open(t[k], order, goal)
    <3>1. /\ DOMAIN t = 1 .. Len(stack) /\ Len(stack) \in Nat /\ Len(stack) >= Len(stack)
          /\ \A k \in 1 .. Len(stack) - 1 : t[k] = stack[k]
      BY <1>3, <1>7
    <3> QED
      BY <1>1, <2>2, <3>1, OtherFrames
  <2> QED
    BY <1>1, <2>3 DEF Pending
<1> QED
  BY <1>1, <1>2, <1>5, <1>7, <1>9, <1>10 DEF SearchInv, Searching

LEMMA SkipInv == SearchInv /\ Skip => SearchInv'
<1> SUFFICES ASSUME SearchInv, Skip PROVE SearchInv'
  OBVIOUS
<1> DEFINE goal == Optimum(auction, excluded)
           f == Frame(Top.position + 1, Top.mask, "enter")
           t == Append(Front(stack), f)
<1>1. /\ status = "search" /\ stack # <<>> /\ Top.at = "without"
      /\ auction' = auction /\ excluded' = excluded /\ rows' = rows /\ order' = order
      /\ status' = status /\ best' = best /\ residual' = residual /\ stack' = t
  BY DEF Skip, fixed
<1>2. /\ AuctionOK(auction) /\ rows = CompileModel(auction) /\ Chain(stack, order) /\ Residuals /\ Pending
      /\ Len(order) \in Nat /\ order = Ordered /\ best \in Allowed(auction, excluded)
  BY <1>1, SearchingFacts DEF SearchInv, Searching
<1>3. /\ Top \in Frames(order) /\ Top = Last(stack) /\ Top.position \in 1 .. Len(order)
      /\ Top.mask \subseteq {order[j] : j \in 1 .. Top.position - 1}
      /\ Len(stack) \in Nat /\ Len(stack) >= 1 /\ DOMAIN stack = 1 .. Len(stack)
  BY <1>1, <1>2, TopFacts DEF Top
<1>4. HeldBy(stack, order) = Top.mask
  BY <1>1 DEF HeldBy, Top
<1>5. Ordered' = Ordered
  BY <1>1 DEF Ordered, Considered, Before
<1>6. f.mask = Top.mask /\ f.position = Top.position + 1 /\ f.at = "enter"
  BY DEF Frame
<1>7. f \in Frames(order)
  <2>1. f \in [position : 1 .. Len(order) + 1, mask : SUBSET {order[j] : j \in 1 .. Len(order)},
               at : {"enter", "with", "restore", "without"}]
    BY <1>2, <1>3 DEF Frame
  <2>2. Top.mask \subseteq {order[j] : j \in 1 .. (Top.position + 1) - 1}
    BY <1>2, <1>3
  <2> HIDE DEF f
  <2> QED
    BY <1>6, <2>1, <2>2 DEF Frames
<1> HIDE DEF f
<1>8. /\ Chain(t, order) /\ t # <<>> /\ Last(t) = f /\ Len(t) = Len(stack) /\ t[Len(stack)] = f
      /\ \A k \in 1 .. Len(stack) - 1 : t[k] = stack[k]
  <2>1. f.mask = Last(stack).mask
    BY <1>3, <1>6
  <2>2. /\ Chain(Swap(stack, f), order) /\ Swap(stack, f) # <<>> /\ Last(Swap(stack, f)) = f
        /\ Len(Swap(stack, f)) = Len(stack) /\ Swap(stack, f)[Len(stack)] = f
        /\ \A k \in 1 .. Len(stack) - 1 : Swap(stack, f)[k] = stack[k]
    BY <1>1, <1>2, <1>7, <2>1, ChainSwap
  <2> QED
    BY <2>2 DEF Swap
<1> HIDE DEF t
<1>9. DOMAIN t = 1 .. Len(stack)
  BY <1>8 DEF Chain
<1>10. HeldBy(stack', order') = Top.mask
  BY <1>1, <1>6, <1>8 DEF HeldBy
<1>11. Residuals'
  BY <1>1, <1>2, <1>4, <1>10 DEF Residuals
<1>12. Pending'
  <2>1. Open(Top, order, goal) => Open(f, order, goal)
    BY <1>1, <1>6 DEF Open, Below
  <2>2. Open(Top, order, goal) => \E k \in 1 .. Len(stack) : Open(t[k], order, goal)
    BY <1>3, <1>8, <2>1
  <2>3. best = goal \/ \E k \in DOMAIN t : Open(t[k], order, goal)
    BY <1>1, <1>3, <1>8, <1>9, <2>2, OtherFrames
  <2> QED
    BY <1>1, <2>3 DEF Pending
<1> QED
  BY <1>1, <1>2, <1>5, <1>8, <1>11, <1>12 DEF SearchInv, Searching

\* The search ends with the optimum, and its last check cannot fail.
LEMMA FinishInv == SearchInv /\ Finish => SearchInv'
<1> SUFFICES ASSUME SearchInv, Finish PROVE SearchInv'
  OBVIOUS
<1>1. /\ status = "search" /\ stack = <<>>
      /\ auction' = auction /\ excluded' = excluded /\ best' = best
      /\ status' = IF RowsFeasible(auction, rows, best, excluded) THEN "done" ELSE "error"
  BY DEF Finish, fixed
<1>2. /\ AuctionOK(auction) /\ rows = CompileModel(auction) /\ Pending
      /\ best \in Allowed(auction, excluded) /\ best \in SUBSET Indices(auction)
  BY <1>1, SearchingFacts
<1>3. best = Optimum(auction, excluded)
  BY <1>1, <1>2 DEF Pending
<1>4. status' = "done"
  BY <1>1, <1>2, RowsMeanFeasible
<1> QED
  BY <1>1, <1>3, <1>4 DEF SearchInv

LEMMA GiveUpInv == SearchInv /\ GiveUp => SearchInv'
  BY DEF SearchInv, GiveUp, fixed

LEMMA SearchSteps == SearchInv /\ NextSearch => SearchInv'
  BY CompileInv, VisitInv, TakeInv, RestoreInv, SkipInv, FinishInv, GiveUpInv DEF NextSearch

LEMMA SearchStutters == SearchInv /\ UNCHANGED <<auction, searchVars>> => SearchInv'
<1> SUFFICES ASSUME SearchInv, UNCHANGED <<auction, searchVars>> PROVE SearchInv'
  OBVIOUS
<1>1. /\ auction' = auction /\ excluded' = excluded /\ rows' = rows /\ order' = order
      /\ residual' = residual /\ stack' = stack /\ best' = best /\ status' = status
  BY DEF searchVars
<1>2. Ordered' = Ordered
  BY <1>1 DEF Ordered, Considered, Before
<1>3. Searching' <=> Searching
  BY <1>1, <1>2 DEF Searching, Residuals, Pending
<1> QED
  BY <1>1, <1>3 DEF SearchInv

-----------------------------------------------------------------------------
(* The verification.                                                       *)

\* The case searched is the one the settlement waits for.
VInv ==
  /\ SearchInv
  /\ IInv
  /\ stage \in {"admit", "solve"} => excluded = Cases[Len(exact) + 1]

LEMMA InitVInv == InitVerification => VInv
<1> SUFFICES ASSUME InitVerification PROVE VInv
  OBVIOUS
<1>1. IInv
  BY InitIInv DEF InitVerification
<1>2. /\ Cases[1] = None /\ Len(exact) = 0
  BY <1>1, CasesFacts DEF IInv, InitVerification, Init
<1>3. SearchInv
  BY DEF InitVerification, Init, InitSearch, SearchInv
<1> QED
  BY <1>1, <1>2, <1>3 DEF VInv, InitVerification, Init

\* What each step of the verification is to the settlement: one of its steps, or none.
LEMMA StepImplements ==
  ASSUME VInv, [NextVerification]_verificationVars
  PROVE  [Next]_vars
<1>1. CASE Settle
  BY <1>1 DEF Settle, Next
<1>2. CASE SearchOn
  <2>1. auction' = auction
    BY <1>2 DEF SearchOn, NextSearch, Compile, Visit, GiveUp, Take, Restore, Skip, Finish, fixed
  <2> QED
    BY <1>2, <2>1 DEF SearchOn, vars
<1>3. CASE Return
  <2>1. best = Optimum(auction, Cases[Len(exact) + 1])
    BY <1>3 DEF Return, VInv, SearchInv
  <2>2. Solve
    BY <1>3, <2>1 DEF Return, Solve
  <2> QED
    BY <2>2 DEF Next
<1>4. CASE Raise
  BY <1>4 DEF Raise, Next
<1>5. CASE UNCHANGED verificationVars
  BY <1>5 DEF verificationVars
<1> QED
  BY <1>1, <1>2, <1>3, <1>4, <1>5 DEF NextVerification

LEMMA StepIInv == IInv /\ [Next]_vars => IInv'
  BY AdmitIInv, SolveIInv, PayIInv, OtherIInv DEF Next

LEMMA StepVInv ==
  ASSUME VInv, [NextVerification]_verificationVars
  PROVE  VInv'
<1>1. IInv'
  BY StepImplements, StepIInv DEF VInv
<1>2. AuctionOK(auction) /\ Len(TenantOrder) \in Nat /\ Len(Cases) = Len(TenantOrder) + 1
      /\ \A k \in 1 .. Len(TenantOrder) : Cases[k + 1] \in auction.tenants
  BY CasesFacts DEF VInv, IInv
<1>3. auction' = auction
  BY DEF NextVerification, Settle, SearchOn, Return, Raise, Admit, Refuse, Compare, Pay, Certify,
         CertifyFails, Limit, NextSearch, Compile, Visit, GiveUp, Take, Restore, Skip, Finish, fixed,
         verificationVars, vars
<1>4. TenantOrder' = TenantOrder /\ Cases' = Cases
  BY <1>3 DEF TenantOrder, Cases
<1>5. SearchInv'
  <2>1. CASE Settle \/ Raise \/ UNCHANGED verificationVars
    <3>1. UNCHANGED <<auction, searchVars>>
      BY <1>3, <2>1 DEF Settle, Raise, verificationVars
    <3> QED
      BY <3>1, SearchStutters DEF VInv
  <2>2. CASE SearchOn
    BY <2>2, SearchSteps DEF SearchOn, VInv
  <2>3. CASE Return
    <3>1. best' = {} /\ status' = "compile"
      BY <2>3 DEF Return
    <3>2. excluded' \in auction.tenants \cup {None}
      <4>1. CASE stage' # "solve"
        BY <2>3, <4>1 DEF Return, VInv, SearchInv
      <4>2. CASE stage' = "solve"
        <5>1. /\ excluded' = Cases[Len(exact') + 1] /\ Len(exact') = Len(exact) + 1 /\ Len(exact) \in Nat
          BY <2>3, <4>2 DEF Return, VInv, IInv
        <5>2. Len(exact') < Len(Cases)
          BY <1>1, <1>4, <4>2 DEF IInv, Progress
        <5> QED
          BY <1>2, <5>1, <5>2
      <4> QED
        BY <4>1, <4>2
    <3> QED
      BY <1>3, <3>1, <3>2 DEF SearchInv, VInv
  <2> QED
    BY <2>1, <2>2, <2>3 DEF NextVerification
<1>6. ASSUME stage' \in {"admit", "solve"} PROVE excluded' = Cases'[Len(exact') + 1]
  <2>1. CASE Settle \/ Raise \/ UNCHANGED verificationVars
    <3>1. excluded' = excluded /\ exact' = exact /\ stage \in {"admit", "solve"}
      BY <1>6, <2>1 DEF Settle, Raise, verificationVars, searchVars, vars, Admit, Refuse, Compare, Pay,
                        Certify, CertifyFails, Limit
    <3> QED
      BY <1>4, <3>1 DEF VInv
  <2>2. CASE SearchOn
    <3>1. excluded' = excluded /\ exact' = exact /\ stage \in {"admit", "solve"}
      BY <2>2 DEF SearchOn, NextSearch, Compile, Visit, GiveUp, Take, Restore, Skip, Finish, fixed
    <3> QED
      BY <1>4, <3>1 DEF VInv
  <2>3. CASE Return
    BY <1>4, <1>6, <2>3 DEF Return
  <2> QED
    BY <2>1, <2>2, <2>3 DEF NextVerification
<1> QED
  BY <1>1, <1>5, <1>6 DEF VInv

LEMMA VerificationInvariance == SpecVerification => []VInv
<1>1. VInv /\ [NextVerification]_verificationVars => VInv'
  BY StepVInv
<1> QED
  BY <1>1, InitVInv, PTL DEF SpecVerification

\* The shared residuals are exact at every step of every search, for every auction.
THEOREM ResidualsRestored == SpecVerification => []ResidualExact
<1>1. VInv => ResidualExact
  BY SearchingFacts DEF VInv, ResidualExact, Residuals
<1> QED
  BY <1>1, VerificationInvariance, PTL

\* No cut loses the optimum, for every auction: the bound is never too low, and a tie is
\* cut only when a smaller mask is already the record.
THEOREM NoOptimumCut == SpecVerification => []OptimumPending
<1>1. VInv => OptimumPending
  <2> SUFFICES ASSUME VInv, status = "search" PROVE OptimumPending
    BY DEF OptimumPending
  <2>1. Pending /\ \A p : Rest(p) = {order[k] : k \in p .. Len(order)}
    BY SearchingFacts DEF VInv
  <2>2. \A f : Below(f, order) = Rest(IF f.at \in {"enter", "with"} THEN f.position ELSE f.position + 1)
    BY <2>1 DEF Below
  <2> QED
    BY <2>1, <2>2 DEF Pending, Open, OptimumPending
<1> QED
  BY <1>1, VerificationInvariance, PTL

\* The searches implement the settlement they are made for: what each returns is the
\* optimum of its case, and nothing else of the settlement depends on how it was found.
THEOREM SearchesImplementSettlement == SpecVerification => ImplementsSettlement
<1>1. InitVerification => Init
  BY DEF InitVerification
<1>2. VInv /\ [NextVerification]_verificationVars => [Next]_vars
  BY StepImplements
<1> QED
  BY <1>1, <1>2, VerificationInvariance, PTL DEF SpecVerification, ImplementsSettlement, Spec

\* So what is true of the settlement is true of the program with its searches.
THEOREM VerifiedSettlement ==
  SpecVerification =>
    /\ [](NeverIrrational /\ CertificateAccepted /\ SettledExact /\ TruthDominates)
    /\ RefusedForCause
<1>1. Spec => [](NeverIrrational /\ CertificateAccepted /\ SettledExact /\ TruthDominates)
  BY PaymentsRational, CertificateNeverRefused, SettlementExact, Truthful, PTL
<1> QED
  BY <1>1, OnlyWorseRefused, SearchesImplementSettlement, PTL DEF ImplementsSettlement
=============================================================================
