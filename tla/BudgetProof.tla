---------------------------- MODULE BudgetProof -----------------------------
(***************************************************************************)
(* The records of Budget, for every program, every way to build it, every  *)
(* budget and every number of blocks: none is read after its release, and  *)
(* each is given back exactly once.                                        *)
(*                                                                         *)
(* The invariant is a numbering of the records in use, from the outermost: *)
(* each goes on to the one before it, and the call about to be made goes   *)
(* to the last.                                                            *)
(***************************************************************************)
EXTENDS Budget, FiniteSetTheorems, SequenceTheorems, TLAPS

ListedOf(f) == UNION {{f[c][i] : i \in DOMAIN f[c]} : c \in Classes}
OnceOf(f) ==
  \A c, d \in Classes : \A i \in DOMAIN f[c], j \in DOMAIN f[d] : f[c][i] = f[d][j] => c = d /\ i = j
Lists == [Classes -> Seq(Nat)]
PutBack(f, class, b) == [f EXCEPT ![class] = <<b>> \o @]
TakeOff(f, class) == [f EXCEPT ![class] = Tail(@)]

\* A block that is put back is listed, and the others still once.
LEMMA PuttingBack ==
  ASSUME NEW f \in Lists, OnceOf(f), NEW class \in Classes, NEW b \in Nat, b \notin ListedOf(f)
  PROVE  /\ PutBack(f, class, b) \in Lists /\ OnceOf(PutBack(f, class, b))
         /\ ListedOf(PutBack(f, class, b)) = ListedOf(f) \cup {b}
<1> DEFINE g == PutBack(f, class, b)
<1>1. f[class] \in Seq(Nat) /\ <<b>> \in Seq(Nat)
  BY DEF Lists
<1>2. /\ <<b>> \o f[class] \in Seq(Nat)
      /\ DOMAIN (<<b>> \o f[class]) = 1 .. Len(f[class]) + 1
      /\ Len(f[class]) \in Nat /\ DOMAIN f[class] = 1 .. Len(f[class])
      /\ (<<b>> \o f[class])[1] = b
      /\ \A i \in 1 .. Len(f[class]) : (<<b>> \o f[class])[i + 1] = f[class][i]
  BY <1>1
<1>3. g \in Lists
  BY <1>2 DEF Lists, PutBack
<1>4. /\ \A c \in Classes : c # class => g[c] = f[c]
      /\ DOMAIN g[class] = 1 .. Len(f[class]) + 1 /\ g[class][1] = b
      /\ \A i \in 2 .. Len(f[class]) + 1 : g[class][i] = f[class][i - 1] /\ i - 1 \in DOMAIN f[class]
  <2>1. g[class] = <<b>> \o f[class] /\ \A c \in Classes : c # class => g[c] = f[c]
    BY DEF Lists, PutBack
  <2>2. ASSUME NEW i \in 2 .. Len(f[class]) + 1
        PROVE  g[class][i] = f[class][i - 1] /\ i - 1 \in DOMAIN f[class]
    <3>1. i - 1 \in 1 .. Len(f[class]) /\ (i - 1) + 1 = i
      BY <1>2
    <3>2. QED
      BY <1>2, <2>1, <3>1
  <2>3. QED
    BY <1>2, <2>1, <2>2
<1>5. \A c \in Classes : \A i \in DOMAIN f[c] : f[c][i] \in ListedOf(f)
  BY DEF ListedOf
<1> DEFINE new(c, i) == c = class /\ i = 1
           at(c, i) == IF c = class THEN i - 1 ELSE i
<1>a. \A c \in Classes : \A i \in DOMAIN g[c] :
        \/ new(c, i) /\ g[c][i] = b
        \/ /\ ~new(c, i) /\ i \in Nat /\ at(c, i) \in DOMAIN f[c] /\ g[c][i] = f[c][at(c, i)]
           /\ g[c][i] # b
  <2> SUFFICES ASSUME NEW c \in Classes, NEW i \in DOMAIN g[c]
               PROVE  \/ new(c, i) /\ g[c][i] = b
                      \/ /\ ~new(c, i) /\ i \in Nat /\ at(c, i) \in DOMAIN f[c]
                         /\ g[c][i] = f[c][at(c, i)] /\ g[c][i] # b
    OBVIOUS
  <2>1. CASE c = class /\ i = 1
    BY <1>4, <2>1
  <2>2. CASE c = class /\ i # 1
    <3>1. i \in 2 .. Len(f[class]) + 1
      BY <1>2, <1>4, <2>2
    <3>2. i \in Nat /\ g[class][i] = f[class][i - 1] /\ i - 1 \in DOMAIN f[class]
      BY <1>2, <1>4, <3>1
    <3>3. g[class][i] # b
      BY <1>5, <3>2
    <3>4. QED
      BY <2>2, <3>2, <3>3
  <2>3. CASE c # class
    <3>1. f[c] \in Seq(Nat) /\ g[c] = f[c]
      BY <1>4, <2>3 DEF Lists
    <3>2. i \in Nat
      BY <3>1
    <3>3. QED
      BY <1>5, <2>3, <3>1, <3>2
  <2>4. QED
    BY <2>1, <2>2, <2>3
<1>6. OnceOf(g)
  <2> SUFFICES ASSUME NEW c \in Classes, NEW d \in Classes, NEW i \in DOMAIN g[c],
                      NEW j \in DOMAIN g[d], g[c][i] = g[d][j]
               PROVE  c = d /\ i = j
    BY DEF OnceOf
  <2>1. CASE g[c][i] = b
    <3>1. new(c, i) /\ new(d, j)
      <4> HIDE DEF g, at, new
      <4>1. QED
        BY <1>a, <2>1
    <3>2. QED
      BY <3>1
  <2>2. CASE g[c][i] # b
    <3>1. /\ i \in Nat /\ j \in Nat /\ at(c, i) \in DOMAIN f[c] /\ at(d, j) \in DOMAIN f[d]
          /\ f[c][at(c, i)] = f[d][at(d, j)]
      BY <1>a, <2>2
    <3>2. c = d /\ at(c, i) = at(d, j)
      <4> HIDE DEF g, at
      <4>1. QED
        BY <3>1 DEF OnceOf
    <3>3. QED
      BY <3>1, <3>2
  <2>3. QED
    BY <2>1, <2>2
<1>7. ListedOf(g) = ListedOf(f) \cup {b}
  <2>1. ASSUME NEW x \in ListedOf(g) PROVE x \in ListedOf(f) \cup {b}
    <3>1. PICK c \in Classes : \E i \in DOMAIN g[c] : x = g[c][i]
      BY DEF ListedOf
    <3>2. PICK i \in DOMAIN g[c] : x = g[c][i]
      BY <3>1
    <3>3. QED
      <4> HIDE DEF at
      <4>1. QED
        BY <1>5, <1>a, <3>2
  <2>2. ASSUME NEW x \in ListedOf(f) PROVE x \in ListedOf(g)
    <3>1. PICK c \in Classes : \E i \in DOMAIN f[c] : x = f[c][i]
      BY DEF ListedOf
    <3>2. PICK i \in DOMAIN f[c] : x = f[c][i]
      BY <3>1
    <3>3. \E j \in DOMAIN g[c] : x = g[c][j]
      <4>1. CASE c = class
        <5>1. i + 1 \in 2 .. Len(f[class]) + 1 /\ (i + 1) - 1 = i
          BY <1>2, <3>2, <4>1
        <5>2. QED
          BY <1>2, <1>4, <3>2, <4>1, <5>1
      <4>2. CASE c # class
        BY <1>4, <3>2, <4>2
      <4>3. QED
        BY <4>1, <4>2
    <3>4. QED
      BY <3>3 DEF ListedOf
  <2>3. b \in ListedOf(g)
    <3>1. 1 \in DOMAIN g[class]
      BY <1>2, <1>4
    <3>2. QED
      BY <1>4, <3>1 DEF ListedOf
  <2>4. QED
    BY <2>1, <2>2, <2>3
<1>8. QED
  BY <1>3, <1>6, <1>7

\* A block that is taken off its list is listed no more.
LEMMA TakingOff ==
  ASSUME NEW f \in Lists, OnceOf(f), NEW class \in Classes, f[class] # <<>>
  PROVE  /\ TakeOff(f, class) \in Lists /\ OnceOf(TakeOff(f, class))
         /\ Head(f[class]) \in ListedOf(f)
         /\ ListedOf(TakeOff(f, class)) = ListedOf(f) \ {Head(f[class])}
<1> DEFINE g == TakeOff(f, class)
<1>1. f[class] \in Seq(Nat)
  BY DEF Lists
<1>2. /\ Tail(f[class]) \in Seq(Nat) /\ Len(f[class]) \in Nat \ {0}
      /\ DOMAIN f[class] = 1 .. Len(f[class]) /\ DOMAIN Tail(f[class]) = 1 .. Len(f[class]) - 1
      /\ Head(f[class]) = f[class][1]
      /\ \A i \in 1 .. Len(f[class]) - 1 : Tail(f[class])[i] = f[class][i + 1]
  BY <1>1
<1>3. g \in Lists
  BY <1>2 DEF Lists, TakeOff
<1>4. /\ \A c \in Classes : c # class => g[c] = f[c]
      /\ DOMAIN g[class] = 1 .. Len(f[class]) - 1
      /\ \A i \in 1 .. Len(f[class]) - 1 : g[class][i] = f[class][i + 1] /\ i + 1 \in DOMAIN f[class]
                                                                     /\ i + 1 # 1
  <2>1. g[class] = Tail(f[class]) /\ \A c \in Classes : c # class => g[c] = f[c]
    BY DEF Lists, TakeOff
  <2>2. QED
    BY <1>2, <2>1
<1>5. 1 \in DOMAIN f[class]
  BY <1>2
<1> DEFINE at(c, i) == IF c = class THEN i + 1 ELSE i
<1>a. \A c \in Classes : \A i \in DOMAIN g[c] :
        /\ i \in Nat /\ at(c, i) \in DOMAIN f[c] /\ g[c][i] = f[c][at(c, i)]
        /\ c = class => at(c, i) # 1
  <2> SUFFICES ASSUME NEW c \in Classes, NEW i \in DOMAIN g[c]
               PROVE  /\ i \in Nat /\ at(c, i) \in DOMAIN f[c] /\ g[c][i] = f[c][at(c, i)]
                      /\ c = class => at(c, i) # 1
    OBVIOUS
  <2>1. CASE c = class
    <3>1. i \in 1 .. Len(f[class]) - 1 /\ g[c][i] = g[class][i]
      BY <1>4, <2>1
    <3>2. /\ g[class][i] = f[class][i + 1] /\ i + 1 \in DOMAIN f[class] /\ i + 1 # 1
          /\ i \in Nat /\ at(c, i) = i + 1
      BY <1>2, <1>4, <2>1, <3>1
    <3>3. QED
      BY <2>1, <3>1, <3>2
  <2>2. CASE c # class
    <3>1. f[c] \in Seq(Nat) /\ g[c] = f[c]
      BY <1>4, <2>2 DEF Lists
    <3>2. i \in Nat
      BY <3>1
    <3>3. QED
      BY <2>2, <3>1, <3>2
  <2>3. QED
    BY <2>1, <2>2
<1>6. OnceOf(g)
  <2> SUFFICES ASSUME NEW c \in Classes, NEW d \in Classes, NEW i \in DOMAIN g[c],
                      NEW j \in DOMAIN g[d], g[c][i] = g[d][j]
               PROVE  c = d /\ i = j
    BY DEF OnceOf
  <2>1. c = d /\ at(c, i) = at(d, j)
    <3> HIDE DEF g, at
    <3>1. f[c][at(c, i)] = f[d][at(d, j)] /\ at(c, i) \in DOMAIN f[c] /\ at(d, j) \in DOMAIN f[d]
      BY <1>a
    <3>2. QED
      BY <3>1 DEF OnceOf
  <2>2. i \in Nat /\ j \in Nat
    BY <1>a
  <2>3. QED
    BY <2>1, <2>2
<1>7. Head(f[class]) \in ListedOf(f)
  BY <1>2, <1>5 DEF ListedOf
<1>8. ListedOf(g) = ListedOf(f) \ {Head(f[class])}
  <2>1. ASSUME NEW x \in ListedOf(g) PROVE x \in ListedOf(f) /\ x # Head(f[class])
    <3>1. PICK c \in Classes : \E i \in DOMAIN g[c] : x = g[c][i]
      BY DEF ListedOf
    <3>2. PICK i \in DOMAIN g[c] : x = g[c][i]
      BY <3>1
    <3>3. PICK j \in DOMAIN f[c] : x = f[c][j] /\ (c # class \/ j # 1)
      BY <1>a, <3>2
    <3>4. x # f[class][1]
      BY <1>5, <3>3 DEF OnceOf
    <3>5. QED
      BY <1>2, <3>3, <3>4 DEF ListedOf
  <2>2. ASSUME NEW x \in ListedOf(f), x # Head(f[class]) PROVE x \in ListedOf(g)
    <3>1. PICK c \in Classes : \E i \in DOMAIN f[c] : x = f[c][i]
      BY DEF ListedOf
    <3>2. PICK i \in DOMAIN f[c] : x = f[c][i]
      BY <3>1
    <3>3. \E j \in DOMAIN g[c] : x = g[c][j]
      <4>1. CASE c = class
        <5>1. i - 1 \in 1 .. Len(f[class]) - 1 /\ (i - 1) + 1 = i
          BY <1>2, <2>2, <3>2, <4>1
        <5>2. QED
          BY <1>4, <3>2, <4>1, <5>1
      <4>2. CASE c # class
        BY <1>4, <3>2, <4>2
      <4>3. QED
        BY <4>1, <4>2
    <3>4. QED
      BY <3>3 DEF ListedOf
  <2>3. QED
    BY <2>1, <2>2
<1>9. QED
  BY <1>3, <1>6, <1>7, <1>8

\* A list is as long as it has blocks, if none is on it twice.
LEMMA LengthOf ==
  ASSUME NEW l \in Seq(Nat), \A i, j \in DOMAIN l : l[i] = l[j] => i = j
  PROVE  LET L == {l[i] : i \in DOMAIN l} IN IsFiniteSet(L) /\ Cardinality(L) = Len(l)
<1> DEFINE L == {l[i] : i \in DOMAIN l}
<1>1. DOMAIN l = 1 .. Len(l) /\ Len(l) \in Nat /\ l = [i \in DOMAIN l |-> l[i]]
  OBVIOUS
<1>2. l \in Surjection(DOMAIN l, L) /\ l \in Injection(DOMAIN l, L)
  BY <1>1 DEF Surjection, Injection, IsInjective
<1>3. IsFiniteSet(DOMAIN l) /\ Cardinality(DOMAIN l) = Len(l)
  <2>1. /\ IsFiniteSet(1 .. Len(l))
        /\ Cardinality(1 .. Len(l)) = IF 1 > Len(l) THEN 0 ELSE Len(l) - 1 + 1
    <3>1. 1 \in Int /\ Len(l) \in Int
      BY <1>1
    <3>2. QED
      BY <3>1, FS_Interval
  <2>2. Cardinality(1 .. Len(l)) = Len(l)
    BY <1>1, <2>1
  <2>3. QED
    BY <1>1, <2>1, <2>2
<1> HIDE DEF L
<1>4. IsFiniteSet(L) /\ Cardinality(L) = Len(l)
  BY <1>2, <1>3, FS_Surjection
<1>5. QED
  BY <1>4 DEF L

\* The lists together are as long as the number of blocks they hold.
LEMMA LengthsOf ==
  ASSUME NEW f \in Lists, OnceOf(f), NEW k \in Nat, ListedOf(f) = 1 .. k
  PROVE  k = Len(f["context"]) + Len(f["box"]) + Len(f["step"])
<1> DEFINE On(c) == {f[c][i] : i \in DOMAIN f[c]}
<1>1. ASSUME NEW c \in Classes
      PROVE  /\ f[c] \in Seq(Nat) /\ Len(f[c]) \in Nat
             /\ IsFiniteSet(On(c)) /\ Cardinality(On(c)) = Len(f[c])
  <2>1. f[c] \in Seq(Nat) /\ Len(f[c]) \in Nat
    BY DEF Lists
  <2>2. \A i, j \in DOMAIN f[c] : f[c][i] = f[c][j] => i = j
    BY DEF OnceOf
  <2>3. QED
    BY <2>1, <2>2, LengthOf
<1>2. ASSUME NEW c \in Classes, NEW d \in Classes, c # d PROVE On(c) \cap On(d) = {}
  BY <1>2 DEF OnceOf
<1>3. "context" \in Classes /\ "box" \in Classes /\ "step" \in Classes
  BY DEF Classes
<1>4. ListedOf(f) = (On("context") \cup On("box")) \cup On("step")
  <2>1. ListedOf(f) = UNION {On(c) : c \in Classes}
    BY DEF ListedOf
  <2> HIDE DEF On
  <2>2. QED
    BY <2>1 DEF Classes
<1>5. /\ On("context") \cap On("box") = {}
      /\ (On("context") \cup On("box")) \cap On("step") = {}
  <2>1. /\ On("context") \cap On("box") = {} /\ On("context") \cap On("step") = {}
        /\ On("box") \cap On("step") = {}
    BY <1>2, <1>3
  <2> HIDE DEF On
  <2>2. QED
    BY <2>1
<1> HIDE DEF On
<1>6. /\ IsFiniteSet(On("context") \cup On("box"))
      /\ Cardinality(On("context") \cup On("box")) = Len(f["context"]) + Len(f["box"])
  <2>1. /\ IsFiniteSet(On("context")) /\ IsFiniteSet(On("box"))
        /\ Cardinality(On("context")) = Len(f["context"]) /\ Cardinality(On("box")) = Len(f["box"])
    BY <1>1, <1>3
  <2>2. /\ IsFiniteSet(On("context") \cup On("box"))
        /\ Cardinality(On("context") \cup On("box"))
             = Cardinality(On("context")) + Cardinality(On("box"))
               - Cardinality(On("context") \cap On("box"))
    BY <2>1, FS_Union
  <2>3. Cardinality(On("context") \cap On("box")) = 0
    BY <1>5, FS_EmptySet
  <2>4. Len(f["context"]) \in Nat /\ Len(f["box"]) \in Nat
    BY <1>1, <1>3
  <2>5. /\ Cardinality(On("context")) \in Nat /\ Cardinality(On("box")) \in Nat
        /\ Cardinality(On("context") \cup On("box"))
             = Cardinality(On("context")) + Cardinality(On("box"))
    <3>1. Cardinality(On("context")) \in Nat /\ Cardinality(On("box")) \in Nat
      BY <2>1, FS_CardinalityType
    <3>2. QED
      BY <2>2, <2>3, <3>1
  <2>6. QED
    BY <2>1, <2>2, <2>5
<1>7. Cardinality((On("context") \cup On("box")) \cup On("step"))
        = Len(f["context"]) + Len(f["box"]) + Len(f["step"])
  <2> DEFINE U == On("context") \cup On("box")
  <2>1. IsFiniteSet(On("step")) /\ Cardinality(On("step")) = Len(f["step"])
    BY <1>1, <1>3
  <2>2. IsFiniteSet(U) /\ Cardinality(U) = Len(f["context"]) + Len(f["box"])
        /\ U \cap On("step") = {}
    BY <1>5, <1>6
  <2> HIDE DEF U
  <2>3. Cardinality(U \cup On("step"))
          = Cardinality(U) + Cardinality(On("step")) - Cardinality(U \cap On("step"))
    BY <2>1, <2>2, FS_Union
  <2>4. Cardinality(U \cap On("step")) = 0
    BY <2>2, FS_EmptySet
  <2>5. Cardinality(U \cup On("step")) = Cardinality(U) + Cardinality(On("step"))
    <3>1. Cardinality(U) \in Nat /\ Cardinality(On("step")) \in Nat
      BY <2>1, <2>2, FS_CardinalityType
    <3>2. QED
      BY <2>3, <2>4, <3>1
  <2>6. Cardinality(U \cup On("step")) = Len(f["context"]) + Len(f["box"]) + Len(f["step"])
    BY <2>1, <2>2, <2>5
  <2>7. QED
    BY <2>6 DEF U
<1>8. Cardinality(1 .. k) = k
  BY FS_Interval
<1>9. QED
  BY <1>4, <1>7, <1>8

-----------------------------------------------------------------------------
(* The blocks carved, listed and in use.                                   *)
Typed ==
  /\ carved \in 0 .. MaxBlocks /\ free \in Lists /\ ListedOf(free) \subseteq Carved
  /\ DOMAIN mem = Blocks

\* The block that is taken was not in use.
LEMMA Taken ==
  ASSUME Typed, OnceOf(free), NEW class \in Classes, HasBlock(class), NEW contents,
         Take(class, contents)
  PROVE  LET b == NextBlock(class) IN
         /\ Typed' /\ OnceOf(free')
         /\ b \in Blocks /\ b \notin InUse /\ InUse' = InUse \cup {b}
         /\ mem' = [mem EXCEPT ![b] = contents]
<1> DEFINE b == NextBlock(class)
<1>1. /\ carved \in Nat /\ MaxBlocks \in Nat /\ carved <= MaxBlocks
      /\ free \in Lists /\ ListedOf(free) \subseteq 1 .. carved /\ DOMAIN mem = Blocks
  BY BudgetAssumption DEF Typed, Carved
<1>2. mem' = [mem EXCEPT ![b] = contents] /\ DOMAIN mem' = Blocks
  BY <1>1 DEF Take
<1>3. /\ InUse = (1 .. carved) \ ListedOf(free)
      /\ InUse' = (1 .. carved') \ ListedOf(free')
  BY DEF InUse, Carved, Listed, ListedOf
<1>4. CASE free[class] # <<>>
  <2>1. b = Head(free[class]) /\ free' = TakeOff(free, class) /\ carved' = carved
    BY <1>4 DEF Take, NextBlock, TakeOff
  <2>2. /\ free' \in Lists /\ OnceOf(free') /\ b \in ListedOf(free)
        /\ ListedOf(free') = ListedOf(free) \ {b}
    BY <1>1, <1>4, <2>1, TakingOff
  <2>3. Typed'
    BY <1>1, <1>2, <2>1, <2>2 DEF Typed, Carved
  <2>4. b \in 1 .. carved /\ b \in Blocks
    BY <1>1, <2>2 DEF Blocks
  <2>5. QED
    BY <1>2, <1>3, <2>1, <2>2, <2>3, <2>4
<1>5. CASE free[class] = <<>>
  <2>1. b = carved + 1 /\ free' = free /\ carved' = carved + 1 /\ carved < MaxBlocks
    BY <1>5 DEF Take, NextBlock, HasBlock
  <2>2. /\ b \in Blocks /\ b \notin 1 .. carved
        /\ 1 .. carved' = (1 .. carved) \cup {b} /\ carved' \in 0 .. MaxBlocks
    BY <1>1, <2>1 DEF Blocks
  <2>3. Typed'
    BY <1>1, <1>2, <2>1, <2>2 DEF Typed, Carved
  <2>4. QED
    BY <1>1, <1>2, <1>3, <2>1, <2>2, <2>3
<1>6. QED
  BY <1>4, <1>5

\* A block in use that is given back is in use no more.
LEMMA Released ==
  ASSUME Typed, OnceOf(free), NEW class \in Classes, NEW b \in InUse, Release(class, b), UNCHANGED carved
  PROVE  Typed' /\ OnceOf(free') /\ InUse' = InUse \ {b}
<1>1. free \in Lists /\ b \in Nat /\ b \notin ListedOf(free) /\ b \in Carved
  BY DEF Typed, InUse, Carved, Listed, ListedOf
<1>2. free' = PutBack(free, class, b)
  BY DEF Release, PutBack
<1>3. free' \in Lists /\ OnceOf(free') /\ ListedOf(free') = ListedOf(free) \cup {b}
  BY <1>1, <1>2, PuttingBack
<1>4. DOMAIN mem' = DOMAIN mem
  BY DEF Release
<1>5. Typed'
  BY <1>1, <1>3, <1>4 DEF Typed, Carved
<1>6. InUse = Carved \ ListedOf(free) /\ InUse' = Carved \ ListedOf(free')
  BY DEF InUse, Carved, Listed, ListedOf
<1>7. QED
  BY <1>3, <1>5, <1>6

\* A step and the record it resumes are given back together.
LEMMA ReleasedBoth ==
  ASSUME Typed, OnceOf(free), NEW step \in InUse, NEW tick \in InUse, step # tick,
         DOMAIN mem' = DOMAIN mem, UNCHANGED carved,
         free' = [free EXCEPT !["step"] = <<step>> \o @, !["context"] = <<tick>> \o @]
  PROVE  Typed' /\ OnceOf(free') /\ InUse' = InUse \ {step, tick}
<1> DEFINE g == PutBack(free, "step", step)
<1>1. /\ free \in Lists /\ step \in Nat /\ step \notin ListedOf(free) /\ step \in Carved
      /\ tick \in Nat /\ tick \notin ListedOf(free) /\ tick \in Carved
      /\ "step" \in Classes /\ "context" \in Classes
  BY DEF Typed, InUse, Carved, Listed, ListedOf, Classes
<1>2. g \in Lists /\ OnceOf(g) /\ ListedOf(g) = ListedOf(free) \cup {step}
  BY <1>1, PuttingBack
<1>3. free' = PutBack(g, "context", tick)
  BY DEF PutBack
<1> HIDE DEF g
<1>4. tick \notin ListedOf(g)
  BY <1>1, <1>2
<1>5. free' \in Lists /\ OnceOf(free') /\ ListedOf(free') = ListedOf(g) \cup {tick}
  <2>1. /\ PutBack(g, "context", tick) \in Lists /\ OnceOf(PutBack(g, "context", tick))
        /\ ListedOf(PutBack(g, "context", tick)) = ListedOf(g) \cup {tick}
    BY <1>1, <1>2, <1>4, PuttingBack
  <2>2. QED
    BY <1>3, <2>1
<1>6. Typed'
  BY <1>1, <1>2, <1>5 DEF Typed, Carved
<1>7. InUse = Carved \ ListedOf(free) /\ InUse' = Carved \ ListedOf(free')
  BY DEF InUse, Carved, Listed, ListedOf
<1>8. QED
  BY <1>2, <1>5, <1>6, <1>7

-----------------------------------------------------------------------------
(* The records in use, numbered from the outermost.                        *)
Chain(n, c) ==
  /\ n \in Nat /\ c \in [Nat -> Nat] /\ c[0] = FinishedK /\ control.to = c[n]
  /\ \A i \in 1 .. n :
       /\ c[i] \in InUse /\ mem[c[i]].to = c[i - 1] /\ mem[c[i]].tag # "garbage"
       /\ mem[c[i]].tag = "ask" => i > 1
       /\ mem[c[i]].tag = "finished" => i = 1
  /\ \A i, j \in 1 .. n : c[i] = c[j] => i = j
  /\ \A b \in InUse : \E i \in 1 .. n : b = c[i]
  /\ control.do \in {"poll", "step"} => n > 0
  /\ control.do = "stop" => n = 0

IInv ==
  /\ Typed /\ OnceOf(free)
  /\ \/ control.do = "stop" /\ oom = TRUE /\ NoneReadAfterRelease
     \/ \E n \in Nat, c \in [Nat -> Nat] : Chain(n, c)

LEMMA UsedNotLast == ASSUME Typed PROVE \A b \in InUse : b \in Blocks /\ b # FinishedK
BY BudgetAssumption DEF Typed, InUse, Carved, Blocks, FinishedK

\* With a numbering, no record that will be read has been given back.
LEMMA ChainSafe == ASSUME Typed, NEW n, NEW c, Chain(n, c) PROVE NoneReadAfterRelease
<1>1. \A i \in 0 .. n : c[i] \in InUse \cup {FinishedK}
  BY DEF Chain
<1>2. \A i \in 0 .. n : \A j \in 0 .. n : c[i] = c[j] /\ c[i] # FinishedK => i = j
  BY UsedNotLast DEF Chain
<1>3. ASSUME NEW b \in InUse
      PROVE  \E i \in 1 .. n : b = c[i] /\ mem[b].to = c[i - 1] /\ mem[b].tag # "garbage"
  BY DEF Chain
<1>4. n \in 0 .. n /\ \A i \in 1 .. n : i \in 0 .. n /\ i - 1 \in 0 .. n /\ i - 1 # n
  BY DEF Chain
<1>5. control.to = c[n] /\ control.to \in InUse \cup {FinishedK}
  BY <1>1, <1>4 DEF Chain
<1>6. ASSUME NEW b \in InUse
      PROVE  /\ mem[b].tag # "garbage" /\ mem[b].to \in InUse \cup {FinishedK}
             /\ mem[b].to # FinishedK => mem[b].to # control.to
  <2>1. PICK i \in 1 .. n : b = c[i] /\ mem[b].to = c[i - 1] /\ mem[b].tag # "garbage"
    BY <1>3
  <2>2. QED
    BY <1>1, <1>2, <1>4, <1>5, <2>1
<1>7. ASSUME NEW a \in InUse, NEW b \in InUse, mem[a].to = mem[b].to, mem[a].to # FinishedK
      PROVE  a = b
  <2>1. PICK i \in 1 .. n : a = c[i] /\ mem[a].to = c[i - 1]
    BY <1>3
  <2>2. PICK j \in 1 .. n : b = c[j] /\ mem[b].to = c[j - 1]
    BY <1>3
  <2>3. i - 1 = j - 1
    BY <1>2, <1>4, <1>7, <2>1, <2>2
  <2>4. QED
    BY <2>1, <2>2, <2>3
<1>8. QED
  BY <1>5, <1>6, <1>7 DEF NoneReadAfterRelease

\* A record that goes on to the one about to be called becomes the last.
LEMMA Pushed ==
  ASSUME Typed, NEW n, NEW c, Chain(n, c), NEW b \in Blocks, b \notin InUse,
         InUse' = InUse \cup {b}, NEW contents, mem' = [mem EXCEPT ![b] = contents],
         contents.to = control.to, contents.tag # "garbage",
         contents.tag = "ask" => n > 0, contents.tag = "finished" => n = 0,
         control'.to = b, control'.do # "stop"
  PROVE  \E k \in Nat, d \in [Nat -> Nat] : Chain(k, d)'
<1> DEFINE d == [c EXCEPT ![n + 1] = b]
<1>1. n \in Nat /\ c \in [Nat -> Nat] /\ b \in Nat /\ n + 1 \in Nat /\ n + 1 > 0 /\ DOMAIN mem = Blocks
  <2>1. n \in Nat /\ c \in [Nat -> Nat]
    BY DEF Chain
  <2>2. b \in Nat
    BY BudgetAssumption DEF Blocks
  <2>3. DOMAIN mem = Blocks
    BY DEF Typed
  <2>4. QED
    BY <2>1, <2>2, <2>3
<1>2. d \in [Nat -> Nat] /\ d[n + 1] = b /\ \A i \in 0 .. n : d[i] = c[i]
  BY <1>1
<1>3. \A x \in InUse : mem'[x] = mem[x] /\ x # b
  BY <1>1, UsedNotLast
<1>4. mem'[b] = contents
  BY <1>1
<1>5. ASSUME NEW i \in 1 .. n + 1
      PROVE  /\ d[i] \in InUse' /\ mem'[d[i]].to = d[i - 1] /\ mem'[d[i]].tag # "garbage"
             /\ mem'[d[i]].tag = "ask" => i > 1
             /\ mem'[d[i]].tag = "finished" => i = 1
  <2>1. CASE i = n + 1
    <3>1. d[i - 1] = c[n] /\ control.to = c[n]
      BY <1>1, <1>2, <2>1 DEF Chain
    <3>2. QED
      BY <1>1, <1>2, <1>4, <2>1, <3>1
  <2>2. CASE i # n + 1
    <3>1. i \in 1 .. n /\ i \in 0 .. n /\ i - 1 \in 0 .. n
      BY <1>1, <2>2
    <3>2. d[i] = c[i] /\ d[i - 1] = c[i - 1] /\ c[i] \in InUse
      BY <1>2, <3>1 DEF Chain
    <3>3. QED
      BY <1>3, <3>1, <3>2 DEF Chain
  <2>3. QED
    BY <2>1, <2>2
<1>6. ASSUME NEW i \in 1 .. n + 1, NEW j \in 1 .. n + 1, d[i] = d[j] PROVE i = j
  <2>1. \A k \in 1 .. n + 1 :
          \/ k = n + 1 /\ d[k] = b
          \/ k \in 1 .. n /\ d[k] = c[k] /\ c[k] # b
    <3>1. \A k \in 1 .. n : c[k] # b /\ d[k] = c[k]
      BY <1>1, <1>2, <1>3 DEF Chain
    <3>2. \A k \in 1 .. n + 1 : k = n + 1 \/ k \in 1 .. n
      BY <1>1
    <3>3. d[n + 1] = b
      BY <1>2
    <3> HIDE DEF d
    <3>4. ASSUME NEW k \in 1 .. n + 1
          PROVE  \/ k = n + 1 /\ d[k] = b
                 \/ k \in 1 .. n /\ d[k] = c[k] /\ c[k] # b
      <4>1. CASE k = n + 1
        BY <3>3, <4>1
      <4>2. CASE k \in 1 .. n
        BY <3>1, <4>2
      <4>3. QED
        BY <3>2, <4>1, <4>2
    <3>5. QED
      BY <3>4
  <2>2. CASE d[i] = b
    BY <1>6, <2>1, <2>2
  <2>3. CASE d[i] # b
    <3>1. i \in 1 .. n /\ j \in 1 .. n /\ c[i] = c[j]
      BY <1>6, <2>1, <2>3
    <3>2. QED
      BY <3>1 DEF Chain
  <2>4. QED
    BY <2>2, <2>3
<1>7. ASSUME NEW x \in InUse' PROVE \E i \in 1 .. n + 1 : x = d[i]
  <2>1. CASE x = b
    BY <1>1, <1>2, <2>1
  <2>2. CASE x \in InUse
    <3>1. PICK i \in 1 .. n : x = c[i]
      BY <2>2 DEF Chain
    <3>2. QED
      BY <1>1, <1>2, <3>1
  <2>3. QED
    BY <2>1, <2>2
<1>8. d[0] = FinishedK
  BY <1>1, <1>2 DEF Chain
<1> HIDE DEF d
<1>9. Chain(n + 1, d)'
  BY <1>1, <1>2, <1>5, <1>6, <1>7, <1>8 DEF Chain
<1>10. QED
  BY <1>1, <1>2, <1>9

\* The last records are dropped.
LEMMA Dropped ==
  ASSUME Typed, NEW n, NEW c, Chain(n, c), NEW k \in 0 .. n,
         InUse' = InUse \ {c[i] : i \in k + 1 .. n}, \A x \in InUse' : mem'[x] = mem[x],
         control'.to = c[k], control'.do \notin {"poll", "step"},
         control'.do = "stop" => k = 0
  PROVE  \E m \in Nat, d \in [Nat -> Nat] : Chain(m, d)'
<1>1. n \in Nat /\ k \in Nat /\ c \in [Nat -> Nat] /\ c[0] = FinishedK
  BY DEF Chain
<1>2. \A i \in 1 .. k : i \in 1 .. n /\ i \notin k + 1 .. n
  BY <1>1
<1>3. \A i \in 1 .. k : c[i] \in InUse'
  <2> SUFFICES ASSUME NEW i \in 1 .. k, NEW j \in k + 1 .. n PROVE c[i] # c[j]
    BY <1>2 DEF Chain
  <2>1. j \in 1 .. n /\ i # j
    BY <1>1
  <2>2. QED
    BY <1>2, <2>1 DEF Chain
<1>4. ASSUME NEW x \in InUse' PROVE \E i \in 1 .. k : x = c[i]
  <2>1. PICK i \in 1 .. n : x = c[i]
    BY DEF Chain
  <2>2. i \notin k + 1 .. n
    BY <2>1
  <2>3. i \in 1 .. k
    BY <1>1, <2>2
  <2>4. QED
    BY <2>1, <2>3
<1>5. ASSUME NEW i \in 1 .. k
      PROVE  /\ c[i] \in InUse' /\ mem'[c[i]].to = c[i - 1] /\ mem'[c[i]].tag # "garbage"
             /\ mem'[c[i]].tag = "ask" => i > 1
             /\ mem'[c[i]].tag = "finished" => i = 1
  BY <1>2, <1>3 DEF Chain
<1>6. \A i, j \in 1 .. k : c[i] = c[j] => i = j
  BY <1>2 DEF Chain
<1>7. Chain(k, c)'
  BY <1>1, <1>4, <1>5, <1>6 DEF Chain
<1>8. QED
  BY <1>1, <1>7

\* The call about to be made changes, but not where it goes on to.
LEMMA Kept ==
  ASSUME Typed, NEW n, NEW c, Chain(n, c), NoHeapChange, control'.to = control.to,
         control'.do \notin {"poll", "step", "stop"}
  PROVE  \E m \in Nat, d \in [Nat -> Nat] : Chain(m, d)'
<1>1. InUse' = InUse /\ mem' = mem
  BY DEF NoHeapChange, InUse, Carved, Listed
<1>2. Chain(n, c)'
  BY <1>1 DEF Chain
<1>3. QED
  BY <1>2 DEF Chain

LEMMA HeapKept ==
  ASSUME Typed, OnceOf(free), NoHeapChange
  PROVE  Typed' /\ OnceOf(free')
BY DEF NoHeapChange, Typed, Carved, Blocks

\* A step that gives back nothing and keeps where the call goes on to.
LEMMA StepKept ==
  ASSUME Typed, OnceOf(free), NEW n, NEW c, Chain(n, c), NoHeapChange,
         control'.to = control.to, control'.do \notin {"poll", "step", "stop"}
  PROVE  IInv'
<1>1. Typed' /\ OnceOf(free')
  BY HeapKept
<1>2. \E m \in Nat, d \in [Nat -> Nat] : Chain(m, d)'
  BY Kept
<1>3. QED
  BY <1>1, <1>2 DEF IInv

\* A run that ends without memory leaves its records where they are.
LEMMA StepLost ==
  ASSUME Typed, OnceOf(free), NoneReadAfterRelease, NEW e, WithoutMemory(Stop(e))
  PROVE  IInv'
<1>1. Typed' /\ OnceOf(free')
  BY HeapKept DEF WithoutMemory
<1>2. InUse' = InUse /\ mem' = mem
  BY DEF WithoutMemory, NoHeapChange, InUse, Carved, Listed
<1>3. control' = Stop(e) /\ oom' = TRUE
  BY DEF WithoutMemory
<1>4. control'.do = "stop" /\ control'.to = FinishedK
  BY <1>3 DEF Stop
<1>5. NoneReadAfterRelease'
  BY <1>2, <1>4 DEF NoneReadAfterRelease
<1>6. QED
  BY <1>1, <1>3, <1>4, <1>5 DEF IInv

\* The initial states have no record.
LEMMA InitIInv == Init => IInv
<1> SUFFICES ASSUME Init PROVE IInv
  OBVIOUS
<1>1. /\ carved = 0 /\ free = [c \in Classes |-> <<>>] /\ mem = [b \in Blocks |-> Garbage]
      /\ control.do = "start" /\ control.to = FinishedK
  BY DEF Init, Start
<1>2. free \in Lists /\ \A c \in Classes : DOMAIN free[c] = {}
  BY <1>1 DEF Lists
<1>3. ListedOf(free) = {} /\ OnceOf(free)
  BY <1>2 DEF ListedOf, OnceOf
<1>4. Carved = {} /\ InUse = {}
  BY <1>1 DEF Carved, InUse
<1>5. Typed
  BY <1>1, <1>2, <1>3, BudgetAssumption DEF Typed
<1>6. Chain(0, [i \in Nat |-> FinishedK])
  BY <1>1, <1>4 DEF Chain, FinishedK
<1>7. QED
  BY <1>3, <1>5, <1>6 DEF IInv, FinishedK

-----------------------------------------------------------------------------
(* The steps, one lemma for each action.                                   *)
Numbered == Typed /\ OnceOf(free) /\ \E n \in Nat, c \in [Nat -> Nat] : Chain(n, c)

LEMMA StartReadyInv == ASSUME Numbered, StartReady PROVE IInv'
<1>1. PICK n \in Nat, c \in [Nat -> Nat] : Chain(n, c)
  BY DEF Numbered
<1>2. NoHeapChange /\ control'.to = control.to /\ control'.do \notin {"poll", "step", "stop"}
  BY DEF StartReady, Return
<1>3. QED
  BY <1>1, <1>2, StepKept DEF Numbered

\* A record is taken, and becomes the last.
LEMMA StepPushed ==
  ASSUME Numbered, NEW class \in Classes, HasBlock(class), NEW contents, Take(class, contents),
         contents.to = control.to, contents.tag # "garbage",
         contents.tag = "ask" => control.do = "poll",
         contents.tag = "finished" => control.to = FinishedK,
         control'.to = NextBlock(class), control'.do # "stop"
  PROVE  IInv'
<1>1. PICK n \in Nat, c \in [Nat -> Nat] : Chain(n, c)
  BY DEF Numbered
<1> DEFINE b == NextBlock(class)
<1>2. /\ Typed' /\ OnceOf(free') /\ b \in Blocks /\ b \notin InUse /\ InUse' = InUse \cup {b}
      /\ mem' = [mem EXCEPT ![b] = contents]
  BY Taken DEF Numbered
<1>3. contents.tag = "ask" => n > 0
  BY <1>1 DEF Chain
<1>4. contents.tag = "finished" => n = 0
  <2>1. n # 0 => c[n] \in InUse /\ control.to = c[n]
    BY <1>1 DEF Chain
  <2>2. QED
    BY <2>1, UsedNotLast DEF Numbered
<1>5. \E m \in Nat, d \in [Nat -> Nat] : Chain(m, d)'
  <2>1. control'.to = b /\ Typed
    BY DEF Numbered
  <2> HIDE DEF b
  <2>2. QED
    BY <1>1, <1>2, <1>3, <1>4, <2>1, Pushed
<1>6. QED
  BY <1>2, <1>5 DEF IInv

LEMMA StepWithout ==
  ASSUME Numbered, NEW e, WithoutMemory(Return(e, control.to)) PROVE IInv'
<1>1. PICK n \in Nat, c \in [Nat -> Nat] : Chain(n, c)
  BY DEF Numbered
<1>2. NoHeapChange /\ control'.to = control.to /\ control'.do \notin {"poll", "step", "stop"}
  BY DEF WithoutMemory, Return
<1>3. QED
  BY <1>1, <1>2, StepKept DEF Numbered

LEMMA StartLaterInv == ASSUME Numbered, StartLater PROVE IInv'
<1> DEFINE kind == control.comp.kind   class == ClassOf(kind)
           contents == Block(kind, control.comp.then, control.to, Done(<<>>))
<1>1. kind \in {"bind", "recover", "attempt"} /\ class \in Classes
  BY DEF StartLater, ClassOf, Classes
<1>2. CASE HasBlock(class) /\ Take(class, contents)
           /\ control' = Start(control.comp.of, NextBlock(class))
  <2>1. /\ contents.to = control.to /\ contents.tag \notin {"garbage", "ask", "finished"}
    BY <1>1 DEF Block
  <2>2. control'.to = NextBlock(class) /\ control'.do # "stop"
    BY <1>2 DEF Start
  <2> HIDE DEF class, contents
  <2>3. QED
    BY <1>1, <1>2, <2>1, <2>2, StepPushed
<1>3. CASE WithoutMemory(Return(Fail("oom"), control.to))
  BY <1>3, StepWithout
<1>4. QED
  BY <1>2, <1>3 DEF StartLater

LEMMA StartTickInv == ASSUME Numbered, StartTick PROVE IInv'
<1> DEFINE contents == Block("tick", <<>>, control.to, Done(<<>>))
<1>1. CASE HasBlock("context") /\ Take("context", contents)
           /\ control'.do = "poll" /\ control'.to = NextBlock("context")
  <2>1. /\ contents.to = control.to /\ contents.tag \notin {"garbage", "ask", "finished"}
        /\ "context" \in Classes
    BY DEF Block, Classes
  <2> HIDE DEF contents
  <2>2. QED
    BY <1>1, <2>1, StepPushed
<1>2. CASE WithoutMemory(Return(Fail("oom"), control.to))
  BY <1>2, StepWithout
<1>3. QED
  BY <1>1, <1>2 DEF StartTick

\* A new step, or the end of the run.
LEMMA StepMade ==
  ASSUME Numbered, NEW contents, MakeStep(contents),
         contents.to = control.to, contents.tag # "garbage",
         contents.tag = "ask" => control.do = "poll",
         contents.tag = "finished" => control.to = FinishedK
  PROVE  IInv'
<1>1. CASE HasBlock("step") /\ Take("step", contents) /\ control' = AtStep(NextBlock("step"))
  <2>1. control'.to = NextBlock("step") /\ control'.do # "stop" /\ "step" \in Classes
    BY <1>1 DEF AtStep, Classes
  <2>2. QED
    BY <1>1, <2>1, StepPushed
<1>2. CASE WithoutMemory(Stop(Fail("oom")))
  <2>1. Typed /\ OnceOf(free) /\ NoneReadAfterRelease
    BY ChainSafe DEF Numbered
  <2>2. QED
    BY <1>2, <2>1, StepLost
<1>3. QED
  BY <1>1, <1>2 DEF MakeStep

LEMMA MakePollInv == ASSUME Numbered, MakePoll PROVE IInv'
<1> DEFINE contents == Block("ask", <<>>, control.to, Done(<<>>))
<1>1. MakeStep(contents) /\ control.do = "poll"
  BY DEF MakePoll
<1>2. contents.to = control.to /\ contents.tag = "ask"
  BY DEF Block
<1> HIDE DEF contents
<1>3. QED
  BY <1>1, <1>2, StepMade

LEMMA MakeFinishedInv == ASSUME Numbered, MakeFinished PROVE IInv'
<1> DEFINE contents == Block("finished", <<>>, FinishedK, control.result)
<1>1. MakeStep(contents) /\ control.to = FinishedK
  BY DEF MakeFinished
<1>2. contents.to = control.to /\ contents.tag = "finished"
  BY <1>1 DEF Block
<1> HIDE DEF contents
<1>3. QED
  BY <1>1, <1>2, StepMade

\* The record about to be called is given back, and the call goes on to where it went.
LEMMA StepPopped ==
  ASSUME Numbered, control.to # FinishedK, NEW class \in Classes, Release(class, control.to),
         UNCHANGED carved, control'.to = mem[control.to].to,
         control'.do \notin {"poll", "step"},
         control'.do = "stop" => mem[control.to].tag = "finished"
  PROVE  IInv'
<1>1. PICK n \in Nat, c \in [Nat -> Nat] : Chain(n, c)
  BY DEF Numbered
<1>2. control.to = c[n] /\ n # 0 /\ n - 1 \in 0 .. n /\ n \in 1 .. n
  BY <1>1 DEF Chain
<1>3. c[n] \in InUse /\ mem[c[n]].to = c[n - 1] /\ (mem[c[n]].tag = "finished" => n = 1)
  BY <1>1, <1>2 DEF Chain
<1>4. Typed' /\ OnceOf(free') /\ InUse' = InUse \ {c[n]}
  BY <1>2, <1>3, Released DEF Numbered
<1>5. \A x \in InUse' : mem'[x] = mem[x]
  <2>1. ASSUME NEW x \in InUse' PROVE mem'[x] = mem[x]
    <3>1. x # c[n] /\ x \in DOMAIN mem
      BY <1>4, UsedNotLast DEF Numbered, Typed
    <3>2. QED
      BY <1>2, <3>1 DEF Release
  <2>2. QED
    BY <2>1
<1>6. InUse' = InUse \ {c[i] : i \in (n - 1) + 1 .. n}
  <2>1. (n - 1) + 1 .. n = {n}
    BY <1>2
  <2>2. {c[i] : i \in (n - 1) + 1 .. n} = {c[n]}
    BY <2>1
  <2>3. QED
    BY <1>4, <2>2
<1>7. control'.to = c[n - 1] /\ (control'.do = "stop" => n - 1 = 0)
  BY <1>2, <1>3
<1>8. \E m \in Nat, d \in [Nat -> Nat] : Chain(m, d)'
  <2>1. Typed
    BY DEF Numbered
  <2>2. QED
    BY <1>1, <1>2, <1>5, <1>6, <1>7, <2>1, Dropped
<1>9. QED
  BY <1>4, <1>8 DEF IInv

LEMMA BindDoneInv == ASSUME Numbered, BindDone PROVE IInv'
<1>1. control'.to = mem[control.to].to /\ control'.do \notin {"poll", "step", "stop"}
  BY DEF BindDone, Return, Start
<1>2. control.to # FinishedK /\ Release("context", control.to) /\ carved' = carved
      /\ "context" \in Classes
  BY DEF BindDone, Classes
<1>3. QED
  BY <1>1, <1>2, StepPopped

LEMMA RecoverDoneInv == ASSUME Numbered, RecoverDone PROVE IInv'
<1>1. control'.to = mem[control.to].to /\ control'.do \notin {"poll", "step", "stop"}
  BY DEF RecoverDone, Return, Start
<1>2. control.to # FinishedK /\ Release("context", control.to) /\ carved' = carved
      /\ "context" \in Classes
  BY DEF RecoverDone, Classes
<1>3. QED
  BY <1>1, <1>2, StepPopped

LEMMA AttemptDoneInv == ASSUME Numbered, AttemptDone PROVE IInv'
<1>1. control'.to = mem[control.to].to /\ control'.do \notin {"poll", "step", "stop"}
  BY DEF AttemptDone, Return
<1>2. control.to # FinishedK /\ Release("box", control.to) /\ carved' = carved /\ "box" \in Classes
  BY DEF AttemptDone, Classes
<1>3. QED
  BY <1>1, <1>2, StepPopped

LEMMA FinishInv == ASSUME Numbered, Finish PROVE IInv'
<1>1. PICK n \in Nat, c \in [Nat -> Nat] : Chain(n, c)
  BY DEF Numbered
<1>2. n > 0 /\ n \in 1 .. n /\ control.to = c[n] /\ mem[control.to].tag = "finished"
  BY <1>1 DEF Finish, Chain
<1>3. n = 1 /\ c[n] \in InUse /\ mem[c[n]].to = c[n - 1]
  BY <1>1, <1>2 DEF Chain
<1>4. mem[control.to].to = FinishedK /\ control.to # FinishedK
  BY <1>1, <1>2, <1>3, UsedNotLast DEF Chain, Numbered
<1>5. control'.to = mem[control.to].to /\ control'.do = "stop"
  BY <1>4 DEF Finish, Stop
<1>6. Release("step", control.to) /\ carved' = carved /\ "step" \in Classes
  BY DEF Finish, Classes
<1>7. QED
  BY <1>2, <1>4, <1>5, <1>6, StepPopped

\* An answered poll gives back its step and the record behind it.
LEMMA ResumeInv == ASSUME Numbered, Resume PROVE IInv'
<1>1. PICK n \in Nat, c \in [Nat -> Nat] : Chain(n, c)
  BY DEF Numbered
<1> DEFINE step == control.to   tick == mem[control.to].to
<1>2. n > 0 /\ n \in 1 .. n /\ step = c[n] /\ mem[c[n]].tag = "ask"
  BY <1>1 DEF Resume, Chain
<1>3. n > 1 /\ c[n] \in InUse /\ tick = c[n - 1]
  BY <1>1, <1>2 DEF Chain
<1>4. n - 1 \in 1 .. n /\ n - 2 \in 0 .. n /\ n - 1 # n /\ (n - 1) - 1 = n - 2
  BY <1>3
<1>5. tick \in InUse /\ mem[tick].to = c[n - 2] /\ step # tick
  BY <1>1, <1>2, <1>3, <1>4 DEF Chain
<1>6. /\ mem' = [mem EXCEPT ![step] = Garbage, ![tick] = Garbage]
      /\ free' = [free EXCEPT !["step"] = <<step>> \o @, !["context"] = <<tick>> \o @]
      /\ carved' = carved
      /\ control'.to = mem[tick].to /\ control'.do = "return"
  BY DEF Resume, Return
<1>7. step \in InUse
  BY <1>2, <1>3
<1> HIDE DEF step, tick
<1>8. Typed' /\ OnceOf(free') /\ InUse' = InUse \ {step, tick}
  <2>1. DOMAIN mem' = DOMAIN mem
    BY <1>6
  <2>2. QED
    BY <1>5, <1>6, <1>7, <2>1, ReleasedBoth DEF Numbered
<1>9. \A x \in InUse' : mem'[x] = mem[x]
  <2>1. ASSUME NEW x \in InUse' PROVE mem'[x] = mem[x]
    <3>1. x # step /\ x # tick /\ x \in DOMAIN mem
      BY <1>8, UsedNotLast DEF Numbered, Typed
    <3>2. QED
      BY <1>6, <3>1
  <2>2. QED
    BY <2>1
<1>10. InUse' = InUse \ {c[i] : i \in (n - 2) + 1 .. n}
  <2>1. (n - 2) + 1 .. n = {n - 1, n}
    BY <1>3
  <2>2. {c[i] : i \in (n - 2) + 1 .. n} = {step, tick}
    BY <1>2, <1>3, <2>1
  <2>3. QED
    BY <1>8, <2>2
<1>11. control'.to = c[n - 2]
  BY <1>5, <1>6
<1>12. \E m \in Nat, d \in [Nat -> Nat] : Chain(m, d)'
  <2>1. Typed
    BY DEF Numbered
  <2>2. QED
    BY <1>1, <1>4, <1>6, <1>9, <1>10, <1>11, <2>1, Dropped
<1>13. QED
  BY <1>8, <1>12 DEF IInv

LEMMA CallbackFailsInv == ASSUME Numbered, CallbackFails PROVE IInv'
<1>1. Typed /\ OnceOf(free) /\ NoneReadAfterRelease
  BY ChainSafe DEF Numbered
<1>2. WithoutMemory(Stop(Fail("oom")))
  BY DEF CallbackFails
<1>3. QED
  BY <1>1, <1>2, StepLost

-----------------------------------------------------------------------------
LEMMA NextIInv == IInv /\ [Next]_vars => IInv'
<1> SUFFICES ASSUME IInv, [Next]_vars PROVE IInv'
  OBVIOUS
<1>1. CASE UNCHANGED vars
  <2>1. InUse' = InUse /\ ListedOf(free') = ListedOf(free) /\ Carved' = Carved
    BY <1>1 DEF vars, InUse, Carved, Listed
  <2>2. Typed' /\ OnceOf(free')
    BY <1>1, <2>1 DEF vars, IInv, Typed
  <2>3. NoneReadAfterRelease => NoneReadAfterRelease'
    BY <1>1, <2>1 DEF vars, NoneReadAfterRelease
  <2>4. \A n, c : Chain(n, c) => Chain(n, c)'
    BY <1>1, <2>1 DEF vars, Chain
  <2>5. QED
    BY <1>1, <2>2, <2>3, <2>4 DEF vars, IInv
<1>2. CASE Next
  <2>1. control.do # "stop"
    BY <1>2 DEF Next, StartReady, StartLater, StartTick, MakePoll, MakeFinished, BindDone,
                RecoverDone, AttemptDone, Resume, CallbackFails, Finish
  <2>2. Numbered
    BY <2>1 DEF IInv, Numbered
  <2>3. QED
    BY <1>2, <2>2, StartReadyInv, StartLaterInv, StartTickInv, MakePollInv, MakeFinishedInv,
       BindDoneInv, RecoverDoneInv, AttemptDoneInv, ResumeInv, CallbackFailsInv, FinishInv
       DEF Next
<1>3. QED
  BY <1>1, <1>2

LEMMA Invariance == Spec => []IInv
BY InitIInv, NextIInv, PTL DEF Spec

\* No continuation or step of budget.c is read after its block went back to a free list:
\* the chain of pending records is whole, whatever the program, the budget and the memory.
THEOREM RecordsWhole == Spec => []NoneReadAfterRelease
<1>1. IInv => NoneReadAfterRelease
  BY ChainSafe DEF IInv
<1>2. QED
  BY <1>1, Invariance, PTL

\* Every block is on the free lists once at most, and a run that ends with its memory has
\* given every one of them back.
THEOREM ReleasedOnce == Spec => []EachReleasedOnce
<1>1. IInv => EachReleasedOnce
  <2> SUFFICES ASSUME IInv PROVE EachReleasedOnce
    OBVIOUS
  <2>1. OnceOf(free) /\ Typed
    BY DEF IInv
  <2>2. ASSUME control.do = "stop", ~oom
        PROVE  carved = Len(free["context"]) + Len(free["box"]) + Len(free["step"])
    <3>1. PICK n \in Nat, c \in [Nat -> Nat] : Chain(n, c)
      BY <2>2 DEF IInv
    <3>2. InUse = {}
      BY <2>2, <3>1 DEF Chain
    <3>3. ListedOf(free) = 1 .. carved /\ free \in Lists /\ carved \in Nat
      BY <2>1, <3>2, BudgetAssumption DEF Typed, InUse, Carved, Listed, ListedOf
    <3>4. QED
      BY <2>1, <3>3, LengthsOf
  <2>3. QED
    BY <2>1, <2>2 DEF EachReleasedOnce, OnceOf
<1>2. QED
  BY <1>1, Invariance, PTL
=============================================================================
