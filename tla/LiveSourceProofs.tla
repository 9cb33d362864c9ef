---------------------------- MODULE LiveSourceProofs ----------------------------
(***************************************************************************)
(* Proofs about LiveSource: what live-accept does to a file undoes what    *)
(* live-wrap, live-insert and the agent have done to it, for every file,   *)
(* element, position and number of variants.                               *)
(***************************************************************************)
EXTENDS LiveSource, FiniteSetTheorems, SequenceTheorems,
        WellFoundedInduction, TLAPS

\* A set of numbers that has 0 and all successors of its own has them all.
LEMMA SetInduction ==
  ASSUME NEW S \in SUBSET Nat, 0 \in S, \A n \in S : n+1 \in S
  PROVE  S = Nat
  <1>1. SUFFICES ASSUME Nat \ S # {} PROVE FALSE
    OBVIOUS
  <1> DEFINE R == OpToRel(<, Nat)
  <1>2. IsWellFoundedOn(R, Nat)
    BY NatLessThanWellFounded
  <1> HIDE DEF R
  <1>3. PICK x \in Nat \ S : \A y \in Nat \ S : <<y, x>> \notin R
    BY ONLY <1>1, <1>2, WFMin, Nat \ S \subseteq Nat
  <1>4. x # 0 /\ x-1 \in Nat /\ x - 1 \notin S
    BY <1>3
  <1>5. <<x-1,x>> \in R
    BY <1>4, <1>3 DEF R, OpToRel
  <1>6. QED
    BY <1>3, <1>4, <1>5

-----------------------------------------------------------------------------
(* Counting tags (live-accept.mjs, live-wrap.mjs).                         *)

\* What a line adds to the depth.
Height(l) == IF Opens(l) THEN 1 ELSE IF Closes(l) THEN -1 ELSE 0

LEMMA HeightInt == \A l : Height(l) \in Int
  BY DEF Height

LEMMA DepthEmpty ==
  ASSUME NEW f, NEW i \in Int, NEW j \in Int, j < i
  PROVE  Depth(f, i, j) = 0
  <1>1. {x \in i .. j : Opens(f[x])} = {} /\ {x \in i .. j : Closes(f[x])} = {}
    OBVIOUS
  <1>2. Cardinality({}) = 0
    BY FS_EmptySet
  <1>3. QED
    BY <1>1, <1>2 DEF Depth

LEMMA DepthInt ==
  ASSUME NEW f, NEW i \in Int, NEW j \in Int
  PROVE  Depth(f, i, j) \in Int
  <1> DEFINE O == {x \in i .. j : Opens(f[x])}
             C == {x \in i .. j : Closes(f[x])}
  <1>1. IsFiniteSet(i .. j)
    BY FS_Interval
  <1>2. IsFiniteSet(O) /\ IsFiniteSet(C)
    BY <1>1, FS_Subset, O \subseteq i .. j, C \subseteq i .. j
  <1>3. Cardinality(O) \in Nat /\ Cardinality(C) \in Nat
    BY <1>2, FS_CardinalityType
  <1>4. Depth(f, i, j) = Cardinality(O) - Cardinality(C)
    BY DEF Depth
  <1> HIDE DEF O, C
  <1>5. QED
    BY <1>3, <1>4

\* One line more.
LEMMA DepthStep ==
  ASSUME NEW f, NEW i \in Int, NEW j \in Int, i <= j + 1
  PROVE  Depth(f, i, j + 1) = Depth(f, i, j) + Height(f[j + 1])
  <1> DEFINE O == {x \in i .. j : Opens(f[x])}
             C == {x \in i .. j : Closes(f[x])}
             O1 == {x \in i .. (j + 1) : Opens(f[x])}
             C1 == {x \in i .. (j + 1) : Closes(f[x])}
  <1>1. IsFiniteSet(i .. j)
    BY FS_Interval
  <1>2. IsFiniteSet(O) /\ IsFiniteSet(C)
    BY <1>1, FS_Subset, O \subseteq i .. j, C \subseteq i .. j
  <1>3. Cardinality(O) \in Nat /\ Cardinality(C) \in Nat
    BY <1>2, FS_CardinalityType
  <1>4. i .. (j + 1) = (i .. j) \cup {j + 1} /\ j + 1 \notin i .. j
    OBVIOUS
  <1>5. Depth(f, i, j) = Cardinality(O) - Cardinality(C)
        /\ Depth(f, i, j + 1) = Cardinality(O1) - Cardinality(C1)
    BY DEF Depth
  <1>6. j + 1 \notin O /\ j + 1 \notin C
    OBVIOUS
  <1>7. Cardinality(O \cup {j + 1}) = Cardinality(O) + 1
        /\ Cardinality(C \cup {j + 1}) = Cardinality(C) + 1
    BY ONLY <1>2, <1>6, FS_AddElement
  <1>8. CASE Opens(f[j + 1])
    <2>1. ~Closes(f[j + 1])
      BY <1>8 DEF Opens, Closes
    <2>2. O1 = O \cup {j + 1} /\ C1 = C
      BY <1>4, <1>8, <2>1
    <2> HIDE DEF O, C, O1, C1
    <2>3. QED
      BY <1>3, <1>5, <1>7, <1>8, <2>2 DEF Height
  <1>9. CASE ~Opens(f[j + 1]) /\ Closes(f[j + 1])
    <2>2. C1 = C \cup {j + 1} /\ O1 = O
      BY <1>4, <1>9
    <2> HIDE DEF O, C, O1, C1
    <2>3. QED
      BY <1>3, <1>5, <1>7, <1>9, <2>2 DEF Height
  <1>10. CASE ~Opens(f[j + 1]) /\ ~Closes(f[j + 1])
    <2>2. C1 = C /\ O1 = O
      BY <1>4, <1>10
    <2> HIDE DEF O, C, O1, C1
    <2>3. QED
      BY <1>3, <1>5, <1>10, <2>2 DEF Height
  <1>11. QED
    BY <1>8, <1>9, <1>10

\* The depth over a range is that of its two parts.
LEMMA DepthSplit ==
  ASSUME NEW f, NEW i \in Int, NEW j \in Int, NEW k \in Int,
         i <= j + 1, j <= k
  PROVE  Depth(f, i, k) = Depth(f, i, j) + Depth(f, j + 1, k)
  <1> DEFINE P(n) == Depth(f, i, j + n) = Depth(f, i, j) + Depth(f, j + 1, j + n)
             S == {n \in Nat : P(n)}
  <1>1. 0 \in S
    BY DepthEmpty, DepthInt
  <1>2. ASSUME NEW n \in S PROVE n + 1 \in S
    <2>1. Depth(f, i, (j + n) + 1) = Depth(f, i, j + n) + Height(f[(j + n) + 1])
      BY DepthStep, i <= (j + n) + 1, j + n \in Int
    <2>2. Depth(f, j + 1, (j + n) + 1)
            = Depth(f, j + 1, j + n) + Height(f[(j + n) + 1])
      BY DepthStep, j + 1 <= (j + n) + 1, j + n \in Int, j + 1 \in Int
    <2>3. P(n) /\ (j + n) + 1 = j + (n + 1)
      OBVIOUS
    <2>4. Depth(f, i, j) \in Int /\ Depth(f, j + 1, j + n) \in Int
          /\ Height(f[(j + n) + 1]) \in Int
      BY DepthInt, HeightInt, j + n \in Int, j + 1 \in Int
    <2>5. P(n + 1)
      BY <2>1, <2>2, <2>3, <2>4
    <2>6. QED
      BY <2>5
  <1> HIDE DEF S
  <1>3. S = Nat
    BY ONLY <1>1, <1>2, SetInduction, S \in SUBSET Nat DEF S
  <1>4. P(k - j)
    BY <1>3, k - j \in Nat DEF S
  <1>5. QED
    BY <1>4

LEMMA DepthOne ==
  ASSUME NEW f, NEW i \in Int
  PROVE  Depth(f, i, i) = Height(f[i])
  <1>1. Depth(f, i, (i - 1) + 1) = Depth(f, i, i - 1) + Height(f[(i - 1) + 1])
    BY DepthStep, i - 1 \in Int, i <= (i - 1) + 1
  <1>2. Depth(f, i, i - 1) = 0
    BY DepthEmpty, i - 1 \in Int
  <1>3. QED
    BY <1>1, <1>2, HeightInt

\* One line at the top.
LEMMA DepthHead ==
  ASSUME NEW f, NEW i \in Int, NEW j \in Int, i <= j
  PROVE  Depth(f, i, j) = Height(f[i]) + Depth(f, i + 1, j)
  BY DepthSplit, DepthOne

\* Lines that stand elsewhere count the same.
LEMMA DepthShift ==
  ASSUME NEW f, NEW g, NEW p \in Int, NEW n \in Nat,
         \A x \in 1 .. n : f[p + x] = g[x]
  PROVE  \A m \in 0 .. n : Depth(f, p + 1, p + m) = Depth(g, 1, m)
  <1> DEFINE P(m) == m <= n => Depth(f, p + 1, p + m) = Depth(g, 1, m)
             S == {m \in Nat : P(m)}
  <1>1. 0 \in S
    BY DepthEmpty
  <1>2. ASSUME NEW m \in S PROVE m + 1 \in S
    <2>1. Depth(f, p + 1, (p + m) + 1)
            = Depth(f, p + 1, p + m) + Height(f[(p + m) + 1])
      BY DepthStep, p + 1 <= (p + m) + 1, p + m \in Int, p + 1 \in Int
    <2>2. Depth(g, 1, m + 1) = Depth(g, 1, m) + Height(g[m + 1])
      BY DepthStep
    <2>3. (p + m) + 1 = p + (m + 1)
      OBVIOUS
    <2>4. m + 1 <= n => f[p + (m + 1)] = g[m + 1]
      OBVIOUS
    <2>5. P(m + 1)
      BY <2>1, <2>2, <2>3, <2>4
    <2>6. QED
      BY <2>5
  <1> HIDE DEF S
  <1>3. S = Nat
    BY ONLY <1>1, <1>2, SetInduction, S \in SUBSET Nat DEF S
  <1>4. QED
    BY <1>3 DEF S
-----------------------------------------------------------------------------
(* The least of a set of numbers, and the lines an index finds.            *)

\* How the least and the greatest of a set are found.
LEMMA MinIs ==
  ASSUME NEW S \in SUBSET Int, NEW m \in S, \A x \in S : m <= x
  PROVE  Min(S) = m
  <1>1. \E x \in S : \A y \in S : x <= y
    OBVIOUS
  <1>2. Min(S) \in S /\ \A y \in S : Min(S) <= y
    BY <1>1 DEF Min
  <1>3. Min(S) <= m /\ m <= Min(S) /\ Min(S) \in Int /\ m \in Int
    BY <1>2
  <1>4. QED
    BY <1>3

LEMMA MaxIs ==
  ASSUME NEW S \in SUBSET Int, NEW m \in S, \A x \in S : m >= x
  PROVE  Max(S) = m
  <1>1. \E x \in S : \A y \in S : x >= y
    OBVIOUS
  <1>2. Max(S) \in S /\ \A y \in S : Max(S) >= y
    BY <1>1 DEF Max
  <1>3. Max(S) <= m /\ m <= Max(S) /\ Max(S) \in Int /\ m \in Int
    BY <1>2
  <1>4. QED
    BY <1>3

LEMMA MinExists ==
  ASSUME NEW S \in SUBSET Nat, S # {}
  PROVE  Min(S) \in S /\ \A y \in S : Min(S) <= y
  <1> DEFINE T == {n \in Nat : \A m \in S : n < m}
  <1>1. ASSUME \A x \in S : \E y \in S : ~(x <= y) PROVE FALSE
    <2>1. CASE 0 \notin T
      <3>1. PICK m \in S : ~(0 < m)
        BY <2>1
      <3>2. \A y \in S : m <= y
        BY <3>1
      <3>3. QED
        BY <1>1, <3>2
    <2>2. CASE 0 \in T
      <3>1. ASSUME NEW n \in T, n + 1 \notin T PROVE FALSE
        <4>1. PICK m \in S : ~(n + 1 < m)
          BY <3>1
        <4>2. \A y \in S : m <= y
          BY <3>1, <4>1
        <4>3. QED
          BY <1>1, <4>2
      <3>2. \A n \in T : n + 1 \in T
        BY <3>1
      <3> HIDE DEF T
      <3>3. T = Nat
        BY ONLY <2>2, <3>2, SetInduction, T \in SUBSET Nat DEF T
      <3>4. PICK m \in S : TRUE
        OBVIOUS
      <3>5. m \in T
        BY <3>3
      <3>6. m < m
        BY <3>5 DEF T
      <3>7. QED
        BY <3>6
    <2>3. QED
      BY <2>1, <2>2
  <1>2. \E x \in S : \A y \in S : x <= y
    BY <1>1
  <1>3. QED
    BY <1>2 DEF Min

\* What the scripts find of a marker is its first line, or nothing.
LEMMA IndexIs ==
  ASSUME NEW f, Len(f) \in Nat, NEW k, NEW c, NEW p \in 1 .. Len(f),
         f[p] = Line(k, c), \A x \in 1 .. p - 1 : f[x] # Line(k, c)
  PROVE  IndexOf(f, k, c) = p
  <1> DEFINE I == {x \in 1 .. Len(f) : f[x] = Line(k, c)}
  <1>1. IndexOf(f, k, c) = IF I # {} THEN Min(I) ELSE 0
    BY DEF IndexOf, SelectInSeq
  <1>2. p \in I /\ I \in SUBSET Int
    OBVIOUS
  <1>3. \A x \in I : p <= x
    OBVIOUS
  <1> HIDE DEF I
  <1>4. Min(I) = p
    BY ONLY <1>2, <1>3, MinIs
  <1>5. QED
    BY <1>1, <1>2, <1>4

LEMMA IndexFound ==
  ASSUME NEW f, Len(f) \in Nat, NEW k, NEW c, IndexOf(f, k, c) # 0
  PROVE  /\ IndexOf(f, k, c) \in 1 .. Len(f)
         /\ f[IndexOf(f, k, c)] = Line(k, c)
  <1> DEFINE I == {x \in 1 .. Len(f) : f[x] = Line(k, c)}
  <1>1. IndexOf(f, k, c) = IF I # {} THEN Min(I) ELSE 0
    BY DEF IndexOf, SelectInSeq
  <1>2. I # {} /\ I \in SUBSET Nat
    BY <1>1
  <1>3. Min(I) \in I
    BY ONLY <1>2, MinExists
  <1>4. QED
    BY <1>1, <1>2, <1>3

LEMMA IndexAbsent ==
  ASSUME NEW f, NEW k, NEW c, \A x \in 1 .. Len(f) : f[x] # Line(k, c)
  PROVE  IndexOf(f, k, c) = 0
  BY DEF IndexOf, SelectInSeq

-----------------------------------------------------------------------------
(* Ranges whose tags balance.                                              *)

Even(f, i, j) == /\ Depth(f, i, j) = 0
                 /\ \A x \in i .. j : Depth(f, i, x) >= 0

LEMMA EvenEmpty ==
  ASSUME NEW f, NEW i \in Int, NEW j \in Int, j < i
  PROVE  Even(f, i, j)
  BY DepthEmpty DEF Even

\* Two even stretches in a row, and a stretch that stands in another file.
LEMMA EvenJoin ==
  ASSUME NEW f, NEW i \in Int, NEW j \in Int, NEW k \in Int,
         i <= j + 1, j <= k, Even(f, i, j), Even(f, j + 1, k)
  PROVE  Even(f, i, k)
  <1>1. Depth(f, i, k) = 0
    BY DepthSplit DEF Even
  <1>2. ASSUME NEW x \in i .. k PROVE Depth(f, i, x) >= 0
    <2>1. CASE x <= j
      BY <2>1 DEF Even
    <2>2. CASE x > j
      <3>1. Depth(f, i, x) = Depth(f, i, j) + Depth(f, j + 1, x)
        BY <2>2, DepthSplit
      <3>2. Depth(f, i, j) = 0 /\ Depth(f, j + 1, x) >= 0
        BY <2>2 DEF Even
      <3>3. Depth(f, j + 1, x) \in Int
        BY DepthInt
      <3>4. QED
        BY <3>1, <3>2, <3>3
    <2>3. QED
      BY <2>1, <2>2
  <1>3. QED
    BY <1>1, <1>2 DEF Even

\* A line that neither opens nor closes.
LEMMA EvenMark ==
  ASSUME NEW f, NEW i \in Int, Height(f[i]) = 0
  PROVE  Even(f, i, i)
  BY DepthOne DEF Even

\* A tag around a range that balances.
LEMMA EvenTag ==
  ASSUME NEW f, NEW i \in Int, NEW j \in Int, i < j,
         Opens(f[i]), Closes(f[j]), Even(f, i + 1, j - 1)
  PROVE  /\ Even(f, i, j)
         /\ \A x \in i .. j - 1 : Depth(f, i, x) >= 1
  <1>1. Height(f[i]) = 1 /\ Height(f[j]) = -1
    BY DEF Height, Opens, Closes
  <1>2. ASSUME NEW x \in i .. j - 1 PROVE Depth(f, i, x) >= 1
    <2>1. CASE x = i
      BY <2>1, <1>1, DepthOne
    <2>2. CASE x > i
      <3>1. Depth(f, i, x) = 1 + Depth(f, i + 1, x)
        BY <1>1, <2>2, DepthHead
      <3>2. Depth(f, i + 1, x) >= 0 /\ Depth(f, i + 1, x) \in Int
        BY <2>2, DepthInt DEF Even
      <3>3. QED
        BY <3>1, <3>2
    <2>3. QED
      BY <2>1, <2>2
  <1>3. Depth(f, i, j - 1) = 1
    <2>1. Depth(f, i, j - 1) = Depth(f, i, i) + Depth(f, i + 1, j - 1)
      BY DepthSplit, j - 1 \in Int
    <2>2. QED
      BY <2>1, <1>1, DepthOne DEF Even
  <1>4. Depth(f, i, (j - 1) + 1) = Depth(f, i, j - 1) + Height(f[(j - 1) + 1])
    BY DepthStep, j - 1 \in Int
  <1>5. (j - 1) + 1 = j
    OBVIOUS
  <1>6. Depth(f, i, j) = 0
    BY <1>1, <1>3, <1>4, <1>5
  <1>7. \A x \in i .. j : Depth(f, i, x) >= 0
    <2> SUFFICES ASSUME NEW x \in i .. j PROVE Depth(f, i, x) >= 0
      OBVIOUS
    <2>1. CASE x = j
      BY <2>1, <1>6
    <2>2. CASE x # j
      BY <2>2, <1>2, DepthInt
    <2>3. QED
      BY <2>1, <2>2
  <1>8. QED
    BY <1>2, <1>6, <1>7 DEF Even

LEMMA EvenShift ==
  ASSUME NEW f, NEW g, NEW p \in Int, NEW n \in Nat,
         \A x \in 1 .. n : f[p + x] = g[x], Even(g, 1, n)
  PROVE  Even(f, p + 1, p + n)
  <1>1. \A m \in 0 .. n : Depth(f, p + 1, p + m) = Depth(g, 1, m)
    BY DepthShift
  <1>2. Depth(f, p + 1, p + n) = 0
    BY <1>1 DEF Even
  <1>3. ASSUME NEW x \in p + 1 .. p + n PROVE Depth(f, p + 1, x) >= 0
    <2>1. x - p \in 1 .. n /\ p + (x - p) = x
      OBVIOUS
    <2>2. Depth(f, p + 1, p + (x - p)) = Depth(g, 1, x - p)
      BY <1>1, <2>1
    <2>3. QED
      BY <2>1, <2>2 DEF Even
  <1>4. QED
    BY <1>2, <1>3 DEF Even

\* The line that closes a tag is the first one that balances it.
LEMMA ClosingIs ==
  ASSUME NEW f, Len(f) \in Nat, NEW i \in Nat, NEW j \in Int, i < j,
         j <= Len(f), Opens(f[i]), Closes(f[j]), Even(f, i + 1, j - 1)
  PROVE  closingLine(f, i) = j
  <1> DEFINE S == {x \in i + 1 .. Len(f) : Depth(f, i, x) <= 0} \cup {Len(f) + 1}
  <1>1. Even(f, i, j) /\ \A x \in i .. j - 1 : Depth(f, i, x) >= 1
    BY ONLY EvenTag, i \in Int, j \in Int, i < j, Opens(f[i]), Closes(f[j]),
            Even(f, i + 1, j - 1)
  <1>2. j \in S /\ S \in SUBSET Int
    BY <1>1 DEF Even
  <1>3. \A x \in S : j <= x
    <2> SUFFICES ASSUME NEW x \in S, x < j PROVE FALSE
      OBVIOUS
    <2>1. x \in i .. j - 1 /\ Depth(f, i, x) <= 0
      OBVIOUS
    <2>2. Depth(f, i, x) \in Int
      BY DepthInt
    <2>3. QED
      BY <2>1, <2>2, <1>1
  <1> HIDE DEF S
  <1>4. Min(S) = j
    BY ONLY <1>2, <1>3, MinIs
  <1>5. QED
    BY <1>4 DEF closingLine, S

\* An element that is closed in the file balances.
LEMMA ElementEven ==
  ASSUME NEW f, Len(f) \in Nat, NEW i \in 1 .. Len(f), Opens(f[i]),
         closingLine(f, i) <= Len(f)
  PROVE  /\ closingLine(f, i) \in i + 1 .. Len(f)
         /\ Even(f, i, closingLine(f, i))
  <1> DEFINE S == {x \in i + 1 .. Len(f) : Depth(f, i, x) <= 0} \cup {Len(f) + 1}
             j == Min(S)
  <1>1. S # {} /\ S \in SUBSET Nat
    OBVIOUS
  <1> HIDE DEF S
  <1>2. Min(S) \in S /\ \A y \in S : Min(S) <= y
    BY ONLY <1>1, MinExists
  <1>3. closingLine(f, i) = j
    BY DEF closingLine, S
  <1>4. j \in i + 1 .. Len(f) /\ Depth(f, i, j) <= 0
    BY <1>2, <1>3 DEF S
  <1>5. ASSUME NEW x \in i .. j - 1 PROVE Depth(f, i, x) >= 1
    <2>1. CASE x = i
      BY <2>1, DepthOne DEF Height
    <2>2. CASE x # i
      <3>1. x \in i + 1 .. Len(f) /\ x \notin S
        BY <2>2, <1>2, <1>4
      <3>2. ~(Depth(f, i, x) <= 0) /\ Depth(f, i, x) \in Int
        BY <3>1, DepthInt DEF S
      <3>3. QED
        BY <3>2
    <2>3. QED
      BY <2>1, <2>2
  <1>6. Depth(f, i, j) = 0
    <2>1. j - 1 \in i .. j - 1 /\ (j - 1) + 1 = j
      BY <1>4
    <2>2. Depth(f, i, j - 1) >= 1 /\ Depth(f, i, j - 1) \in Int
      BY <2>1, <1>5, DepthInt
    <2>3. Depth(f, i, (j - 1) + 1) = Depth(f, i, j - 1) + Height(f[(j - 1) + 1])
      BY <2>1, DepthStep
    <2>4. Height(f[j]) \in {-1, 0, 1}
      BY DEF Height
    <2>5. QED
      BY <1>4, <2>1, <2>2, <2>3, <2>4
  <1>7. \A x \in i .. j : Depth(f, i, x) >= 0
    <2> SUFFICES ASSUME NEW x \in i .. j PROVE Depth(f, i, x) >= 0
      OBVIOUS
    <2>1. CASE x = j
      BY <2>1, <1>6
    <2>2. CASE x # j
      BY <2>2, <1>4, <1>5, DepthInt
    <2>3. QED
      BY <2>1, <2>2
  <1>8. QED
    BY <1>3, <1>4, <1>6, <1>7 DEF Even

-----------------------------------------------------------------------------
(* A scaffold in a file.                                                   *)

\* A scaffold that keeps the lines kept, with the lines below after its slot.
Top(s, jsx) ==
  IF jsx THEN <<Line("wrapper", <<s, 0>>), Line("start", <<s, 0>>)>>
         ELSE <<Line("start", <<s, 0>>), Line("wrapper", <<s, 0>>)>>
Foot(s, jsx) == IF jsx THEN <<Line("end", <<s, 0>>), EndDiv>>
                       ELSE <<EndDiv, Line("end", <<s, 0>>)>>

Scaffold(s, kept, below, jsx) ==
  Top(s, jsx) \o kept \o <<Line("slot", <<s, 0>>)>> \o below \o Foot(s, jsx)

\* Where the lines are of a file that has such a scaffold between a and b.
Stands(f, a, s, kept, below, b, jsx) ==
  LET p == Len(a)
      q == p + Len(kept) + 3
      r == q + Len(below)
      mark(k) == Line(k, <<s, 0>>)
  IN  /\ Len(f) = r + 2 + Len(b)
      /\ \A x \in 1 .. Len(a) : f[x] = a[x]
      /\ f[p + 1] = mark(IF jsx THEN "wrapper" ELSE "start")
      /\ f[p + 2] = mark(IF jsx THEN "start" ELSE "wrapper")
      /\ \A x \in 1 .. Len(kept) : f[p + 2 + x] = kept[x]
      /\ f[q] = mark("slot")
      /\ \A x \in 1 .. Len(below) : f[q + x] = below[x]
      /\ f[r + 1] = IF jsx THEN mark("end") ELSE EndDiv
      /\ f[r + 2] = IF jsx THEN EndDiv ELSE mark("end")
      /\ \A x \in 1 .. Len(b) : f[r + 2 + x] = b[x]

LEMMA Joined ==
  ASSUME NEW S, NEW u \in Seq(S), NEW v \in Seq(S)
  PROVE  /\ u \o v \in Seq(S)
         /\ Len(u \o v) = Len(u) + Len(v)
         /\ \A x \in 1 .. Len(u) : (u \o v)[x] = u[x]
         /\ \A x \in 1 .. Len(v) : (u \o v)[Len(u) + x] = v[x]
  <1>1. Len(u) \in Nat /\ Len(v) \in Nat
    BY LenProperties
  <1>2. /\ u \o v \in Seq(S)
        /\ Len(u \o v) = Len(u) + Len(v)
        /\ \A i \in 1 .. Len(u) + Len(v) :
             (u \o v)[i] = IF i <= Len(u) THEN u[i] ELSE v[i - Len(u)]
    BY ONLY ConcatProperties, u \in Seq(S), v \in Seq(S)
  <1>3. ASSUME NEW x \in 1 .. Len(v) PROVE (u \o v)[Len(u) + x] = v[x]
    <2> DEFINE n == Len(u)
               m == Len(v)
               w == u \o v
    <2>1. n \in Nat /\ m \in Nat /\ x \in 1 .. m
          /\ \A i \in 1 .. n + m : w[i] = IF i <= n THEN u[i] ELSE v[i - n]
      BY <1>1, <1>2
    <2> HIDE DEF n, m, w
    <2>2. n + x \in 1 .. n + m /\ ~(n + x <= n) /\ (n + x) - n = x
      BY <2>1
    <2>3. w[n + x] = v[x]
      BY <2>1, <2>2
    <2>4. QED
      BY <2>3 DEF n, m, w
  <1>4. ASSUME NEW x \in 1 .. Len(u) PROVE (u \o v)[x] = u[x]
    <2> DEFINE n == Len(u)
               m == Len(v)
               w == u \o v
    <2>1. n \in Nat /\ m \in Nat /\ x \in 1 .. n
          /\ \A i \in 1 .. n + m : w[i] = IF i <= n THEN u[i] ELSE v[i - n]
      BY <1>1, <1>2
    <2> HIDE DEF n, m, w
    <2>2. w[x] = u[x]
      BY <2>1
    <2>3. QED
      BY <2>2 DEF w
  <1>5. QED
    BY <1>2, <1>3, <1>4

LEMMA Pair ==
  ASSUME NEW S, NEW l \in S, NEW m \in S
  PROVE  /\ <<l, m>> \in Seq(S) /\ Len(<<l, m>>) = 2
         /\ <<l, m>>[1] = l /\ <<l, m>>[2] = m
  OBVIOUS

LEMMA Single ==
  ASSUME NEW S, NEW l \in S
  PROVE  /\ <<l>> \in Seq(S) /\ Len(<<l>>) = 1 /\ <<l>>[1] = l
  OBVIOUS

\* Where the lines are of a file made of seven pieces.
Pieces(f, a, t, k, m, w, e, b) ==
  LET p == Len(a)
      q == p + Len(k) + 3
      r == q + Len(w)
  IN  /\ Len(f) = r + 2 + Len(b)
      /\ \A x \in 1 .. Len(a) : f[x] = a[x]
      /\ f[p + 1] = t[1] /\ f[p + 2] = t[2]
      /\ \A x \in 1 .. Len(k) : f[p + 2 + x] = k[x]
      /\ f[q] = m[1]
      /\ \A x \in 1 .. Len(w) : f[q + x] = w[x]
      /\ f[r + 1] = e[1] /\ f[r + 2] = e[2]
      /\ \A x \in 1 .. Len(b) : f[r + 2 + x] = b[x]

\* The lines of a file of seven parts.
LEMMA SevenPieces ==
  ASSUME NEW S, NEW a \in Seq(S), NEW t \in Seq(S), NEW k \in Seq(S),
         NEW m \in Seq(S), NEW w \in Seq(S), NEW e \in Seq(S), NEW b \in Seq(S),
         NEW f, f = a \o (t \o k \o m \o w \o e) \o b,
         Len(t) = 2, Len(m) = 1, Len(e) = 2
  PROVE  f \in Seq(S) /\ Pieces(f, a, t, k, m, w, e, b)
  <1> DEFINE g1 == t \o k
             g2 == g1 \o m
             g3 == g2 \o w
             g4 == g3 \o e
             g5 == a \o g4
             p == Len(a)
             n == Len(k)
             c == Len(w)
             l == Len(b)
  <1>0. p \in Nat /\ n \in Nat /\ c \in Nat /\ l \in Nat
    BY LenProperties
  <1>1. /\ g1 \in Seq(S) /\ Len(g1) = Len(t) + n
        /\ \A x \in 1 .. Len(t) : g1[x] = t[x]
        /\ \A x \in 1 .. n : g1[Len(t) + x] = k[x]
    BY ONLY Joined, t \in Seq(S), k \in Seq(S)
  <1> HIDE DEF g1
  <1>2. /\ g2 \in Seq(S) /\ Len(g2) = Len(g1) + Len(m)
        /\ \A x \in 1 .. Len(g1) : g2[x] = g1[x]
        /\ \A x \in 1 .. Len(m) : g2[Len(g1) + x] = m[x]
    <2>1. g1 \in Seq(S)
      BY <1>1
    <2>2. QED
      BY ONLY Joined, <2>1, m \in Seq(S)
  <1> HIDE DEF g2
  <1>3. /\ g3 \in Seq(S) /\ Len(g3) = Len(g2) + c
        /\ \A x \in 1 .. Len(g2) : g3[x] = g2[x]
        /\ \A x \in 1 .. c : g3[Len(g2) + x] = w[x]
    <2>1. g2 \in Seq(S)
      BY <1>2
    <2>2. QED
      BY ONLY Joined, <2>1, w \in Seq(S)
  <1> HIDE DEF g3
  <1>4. /\ g4 \in Seq(S) /\ Len(g4) = Len(g3) + Len(e)
        /\ \A x \in 1 .. Len(g3) : g4[x] = g3[x]
        /\ \A x \in 1 .. Len(e) : g4[Len(g3) + x] = e[x]
    <2>1. g3 \in Seq(S)
      BY <1>3
    <2>2. QED
      BY ONLY Joined, <2>1, e \in Seq(S)
  <1> HIDE DEF g4
  <1>5. /\ g5 \in Seq(S) /\ Len(g5) = p + Len(g4)
        /\ \A x \in 1 .. p : g5[x] = a[x]
        /\ \A x \in 1 .. Len(g4) : g5[p + x] = g4[x]
    <2>1. g4 \in Seq(S)
      BY <1>4
    <2>2. QED
      BY ONLY Joined, <2>1, a \in Seq(S)
  <1>6. f = g5 \o b
    BY DEF g1, g2, g3, g4
  <1> HIDE DEF g5
  <1>7. /\ f \in Seq(S) /\ Len(f) = Len(g5) + l
        /\ \A x \in 1 .. Len(g5) : f[x] = g5[x]
        /\ \A x \in 1 .. l : f[Len(g5) + x] = b[x]
    <2>1. g5 \in Seq(S)
      BY <1>5
    <2>2. QED
      BY ONLY Joined, <2>1, <1>6, b \in Seq(S)
  <1> HIDE DEF p, n, c, l
  <1>8. /\ Len(g1) = 2 + n /\ Len(g2) = 3 + n /\ Len(g3) = 3 + n + c
        /\ Len(g4) = 5 + n + c /\ Len(g5) = p + (5 + n + c)
    <2>1. Len(g1) = 2 + n
      BY <1>1
    <2>2. Len(g2) = 3 + n
      BY <1>0, <1>2, <2>1
    <2>3. Len(g3) = 3 + n + c
      BY <1>3, <2>2
    <2>4. Len(g4) = 5 + n + c
      BY <1>0, <1>4, <2>3
    <2>5. Len(g5) = p + (5 + n + c)
      BY <1>5, <2>4
    <2>6. QED
      BY <2>1, <2>2, <2>3, <2>4, <2>5
  <1>9. \A x \in 1 .. 5 + n + c : f[p + x] = g4[x]
    <2> SUFFICES ASSUME NEW x \in 1 .. 5 + n + c PROVE f[p + x] = g4[x]
      OBVIOUS
    <2>1. g5[p + x] = g4[x]
      BY <1>5, <1>8
    <2>2. p + x \in 1 .. Len(g5)
      BY <1>0, <1>8
    <2>3. QED
      BY <1>7, <2>1, <2>2
  <1>10. \A x \in 1 .. p : f[x] = a[x]
    <2> SUFFICES ASSUME NEW x \in 1 .. p PROVE f[x] = a[x]
      OBVIOUS
    <2>1. g5[x] = a[x] /\ x \in 1 .. Len(g5)
      BY <1>0, <1>5, <1>8
    <2>2. QED
      BY <1>7, <2>1
  <1>11. \A x \in 1 .. 2 + n : f[p + x] = g1[x]
    <2> SUFFICES ASSUME NEW x \in 1 .. 2 + n PROVE f[p + x] = g1[x]
      OBVIOUS
    <2>1. x \in 1 .. Len(g1) /\ x \in 1 .. Len(g2) /\ x \in 1 .. Len(g3)
          /\ x \in 1 .. 5 + n + c
      BY <1>0, <1>8
    <2>2. f[p + x] = g4[x]
      BY <2>1, <1>9
    <2>3. g4[x] = g3[x]
      BY <2>1, <1>4
    <2>4. g3[x] = g2[x] /\ g2[x] = g1[x]
      BY <2>1, <1>2, <1>3
    <2>5. QED
      BY <2>2, <2>3, <2>4
  <1>12. f[p + 1] = t[1] /\ f[p + 2] = t[2]
    <2>1. g1[1] = t[1] /\ g1[2] = t[2]
      BY <1>1
    <2>2. 1 \in 1 .. 2 + n /\ 2 \in 1 .. 2 + n
      BY <1>0
    <2>3. QED
      BY <2>1, <2>2, <1>11
  <1>13. \A x \in 1 .. n : f[p + 2 + x] = k[x]
    <2> SUFFICES ASSUME NEW x \in 1 .. n PROVE f[p + 2 + x] = k[x]
      OBVIOUS
    <2>1. 2 + x \in 1 .. 2 + n /\ p + (2 + x) = p + 2 + x
      BY <1>0
    <2>2. g1[2 + x] = k[x]
      BY <1>1
    <2>3. QED
      BY <2>1, <2>2, <1>11
  <1>14. f[p + n + 3] = m[1]
    <2>1. g2[3 + n] = m[1]
      <3>1. g2[Len(g1) + 1] = m[1]
        BY <1>2
      <3>2. Len(g1) + 1 = 3 + n
        BY <1>0, <1>8
      <3>3. QED
        BY <3>1, <3>2
    <2>2. 3 + n \in 1 .. Len(g2) /\ 3 + n \in 1 .. Len(g3)
          /\ 3 + n \in 1 .. 5 + n + c /\ p + (3 + n) = p + n + 3
      BY <1>0, <1>8
    <2>3. f[p + (3 + n)] = g4[3 + n] /\ g4[3 + n] = g3[3 + n]
          /\ g3[3 + n] = g2[3 + n]
      BY <2>2, <1>3, <1>4, <1>9
    <2>4. QED
      BY <2>1, <2>2, <2>3
  <1>15. \A x \in 1 .. c : f[p + n + 3 + x] = w[x]
    <2> SUFFICES ASSUME NEW x \in 1 .. c PROVE f[p + n + 3 + x] = w[x]
      OBVIOUS
    <2>1. g3[Len(g2) + x] = w[x]
      BY <1>3
    <2>2. Len(g2) + x \in 1 .. Len(g3) /\ Len(g2) + x \in 1 .. 5 + n + c
          /\ p + (Len(g2) + x) = p + n + 3 + x
      BY <1>0, <1>8
    <2>3. f[p + (Len(g2) + x)] = g4[Len(g2) + x]
          /\ g4[Len(g2) + x] = g3[Len(g2) + x]
      BY <2>2, <1>4, <1>9
    <2>4. QED
      BY <2>1, <2>2, <2>3
  <1>16. f[p + n + 3 + c + 1] = e[1] /\ f[p + n + 3 + c + 2] = e[2]
    <2>1. g4[Len(g3) + 1] = e[1] /\ g4[Len(g3) + 2] = e[2]
      BY <1>4
    <2>2. Len(g3) + 1 \in 1 .. 5 + n + c /\ Len(g3) + 2 \in 1 .. 5 + n + c
          /\ p + (Len(g3) + 1) = p + n + 3 + c + 1
          /\ p + (Len(g3) + 2) = p + n + 3 + c + 2
      BY <1>0, <1>8
    <2>3. f[p + (Len(g3) + 1)] = g4[Len(g3) + 1]
          /\ f[p + (Len(g3) + 2)] = g4[Len(g3) + 2]
      BY <2>2, <1>9
    <2>4. QED
      BY <2>1, <2>2, <2>3
  <1>17. \A x \in 1 .. l : f[p + n + 3 + c + 2 + x] = b[x]
    <2> SUFFICES ASSUME NEW x \in 1 .. l PROVE f[p + n + 3 + c + 2 + x] = b[x]
      OBVIOUS
    <2>1. f[Len(g5) + x] = b[x]
      BY <1>7
    <2>2. Len(g5) + x = p + n + 3 + c + 2 + x
      BY <1>0, <1>8
    <2>3. QED
      BY <2>1, <2>2
  <1>18. Len(f) = p + n + 3 + c + 2 + l
    BY <1>0, <1>7, <1>8
  <1>19. QED
    BY <1>7, <1>10, <1>12, <1>13, <1>14, <1>15, <1>16, <1>17, <1>18
       DEF p, n, c, l, Pieces

\* The lines a session writes.
Scaffolding(s) ==
  {Line(k, <<s, 0>>) : k \in {"wrapper", "start", "slot", "end", "original",
                              "style", "carbonize", "carbonize-start",
                              "carbonize-end"}}
    \cup {Line("variant", <<s, v>>) : v \in 1 .. N}
    \cup {Line("element", <<s, v>>) : v \in 1 .. N}
    \cup {EndDiv}

Writes(S, s) == Scaffolding(s) \subseteq S

\* A file in three parts.
Thirds(g, u, m, v) == g = u \o m \o v

\* A scaffold put into a file stands there.
LEMMA ScaffoldStands ==
  ASSUME NEW S, NEW s, Writes(S, s),
         NEW a \in Seq(S), NEW b \in Seq(S),
         NEW kept \in Seq(S), NEW below \in Seq(S), NEW jsx \in BOOLEAN,
         NEW f, Thirds(f, a, Scaffold(s, kept, below, jsx), b)
  PROVE  f \in Seq(S) /\ Stands(f, a, s, kept, below, b, jsx)
  <1> DEFINE w == Line("wrapper", <<s, 0>>)
             st == Line("start", <<s, 0>>)
             sl == Line("slot", <<s, 0>>)
             en == Line("end", <<s, 0>>)
             t1 == IF jsx THEN w ELSE st
             t2 == IF jsx THEN st ELSE w
             e1 == IF jsx THEN en ELSE EndDiv
             e2 == IF jsx THEN EndDiv ELSE en
             t == <<t1, t2>>
             m == <<sl>>
             e == <<e1, e2>>
  <1>1. w \in S /\ st \in S /\ sl \in S /\ en \in S /\ EndDiv \in S
    BY DEF Writes, Scaffolding
  <1>2. f = a \o (t \o kept \o m \o below \o e) \o b
    BY DEF Scaffold, Top, Foot, Thirds
  <1> HIDE DEF w, st, sl, en
  <1>3. t1 \in S /\ t2 \in S /\ e1 \in S /\ e2 \in S
    BY <1>1
  <1> HIDE DEF t1, t2, e1, e2
  <1>4. t1 \in S
    BY <1>3
  <1>5. t2 \in S
    BY <1>3
  <1>6. t \in Seq(S) /\ Len(t) = 2 /\ t[1] = t1 /\ t[2] = t2
    BY ONLY Pair, <1>4, <1>5
  <1>7. e1 \in S
    BY <1>3
  <1>8. e2 \in S
    BY <1>3
  <1>9. e \in Seq(S) /\ Len(e) = 2 /\ e[1] = e1 /\ e[2] = e2
    BY ONLY Pair, <1>7, <1>8
  <1>10. sl \in S
    BY <1>1
  <1>11. m \in Seq(S) /\ Len(m) = 1 /\ m[1] = sl
    BY ONLY Single, <1>10
  <1> HIDE DEF t, m, e
  <1>12. t \in Seq(S)
    BY <1>6
  <1>13. e \in Seq(S)
    BY <1>9
  <1>14. m \in Seq(S)
    BY <1>11
  <1>15. Len(t) = 2
    BY <1>6
  <1>16. Len(e) = 2
    BY <1>9
  <1>17. Len(m) = 1
    BY <1>11
  <1>18. f \in Seq(S) /\ Pieces(f, a, t, kept, m, below, e, b)
    BY ONLY <1>2, <1>12, <1>13, <1>14, <1>15, <1>16, <1>17, SevenPieces,
            a \in Seq(S), b \in Seq(S), kept \in Seq(S), below \in Seq(S)
  <1>19. t[1] = t1 /\ t[2] = t2 /\ m[1] = sl /\ e[1] = e1 /\ e[2] = e2
    BY <1>6, <1>9, <1>11
  <1>20. /\ t1 = Line(IF jsx THEN "wrapper" ELSE "start", <<s, 0>>)
         /\ t2 = Line(IF jsx THEN "start" ELSE "wrapper", <<s, 0>>)
    BY DEF t1, t2, w, st
  <1>21. sl = Line("slot", <<s, 0>>)
    BY DEF sl
  <1>22. /\ e1 = IF jsx THEN Line("end", <<s, 0>>) ELSE EndDiv
         /\ e2 = IF jsx THEN EndDiv ELSE Line("end", <<s, 0>>)
    BY DEF e1, e2, en
  <1>23. QED
    BY <1>18, <1>19, <1>20, <1>21, <1>22 DEF Stands, Pieces

\* None of the lines of g is one of these of session s.
Foreign(g, s, K) == \A x \in 1 .. Len(g), k \in K : g[x] # Line(k, <<s, 0>>)

Frame == {"wrapper", "start", "slot", "end"}

\* A file with a scaffold in it whose lines are told apart from the others,
\* and whose tags balance.
Parts(f, a, s, kept, below, b, jsx) ==
  /\ Stands(f, a, s, kept, below, b, jsx)
  /\ Len(a) \in Nat /\ Len(kept) \in Nat /\ Len(below) \in Nat /\ Len(b) \in Nat
  /\ Foreign(a, s, Frame) /\ Foreign(kept, s, Frame)
  /\ Foreign(below, s, Frame)
  /\ Even(kept, 1, Len(kept)) /\ Even(below, 1, Len(below))

LEMMA OtherLine ==
  /\ \A k1, k2, c : k1 # k2 => Line(k1, c) # Line(k2, c)
  /\ \A k, c : k # "/div" => EndDiv # Line(k, c)
  BY DEF EndDiv, Line

\* The lines of a file with a scaffold, one by one.
Layout(f, a, s, kept, below, jsx, p, q, r) ==
  /\ p \in Nat /\ q \in Nat /\ r \in Nat /\ p + 3 <= q /\ q <= r
  /\ Len(f) \in Nat /\ r + 2 <= Len(f)
  /\ \A x \in 1 .. p : x \in 1 .. Len(a) /\ f[x] = a[x]
  /\ jsx => f[p + 1] = Line("wrapper", <<s, 0>>)
            /\ f[p + 2] = Line("start", <<s, 0>>)
            /\ f[r + 1] = Line("end", <<s, 0>>) /\ f[r + 2] = EndDiv
  /\ ~jsx => f[p + 1] = Line("start", <<s, 0>>)
             /\ f[p + 2] = Line("wrapper", <<s, 0>>)
             /\ f[r + 1] = EndDiv /\ f[r + 2] = Line("end", <<s, 0>>)
  /\ f[q] = Line("slot", <<s, 0>>)
  /\ \A x \in p + 3 .. q - 1 : x - (p + 2) \in 1 .. Len(kept)
                               /\ f[x] = kept[x - (p + 2)]
  /\ \A x \in q + 1 .. r : x - q \in 1 .. Len(below) /\ f[x] = below[x - q]

\* The last line above the scaffold, its slot, and the last line below that.
Places(p, q, r, a, kept, below) ==
  /\ p = Len(a) /\ q = p + Len(kept) + 3 /\ r = q + Len(below)

\* The lines of such a file.
LEMMA FileLines ==
  ASSUME NEW f, NEW a, NEW s, NEW kept, NEW below, NEW b, NEW jsx \in BOOLEAN,
         Parts(f, a, s, kept, below, b, jsx),
         NEW p, NEW q, NEW r,
         Places(p, q, r, a, kept, below)
  PROVE  Layout(f, a, s, kept, below, jsx, p, q, r)
  <1> DEFINE n == Len(kept)
             c == Len(below)
             l == Len(b)
  <1>0. p = Len(a) /\ q = p + Len(kept) + 3 /\ r = q + Len(below)
    BY DEF Places
  <1>1. p \in Nat /\ n \in Nat /\ c \in Nat /\ l \in Nat
    BY <1>0 DEF Parts
  <1>2. /\ Len(f) = r + 2 + l
        /\ \A x \in 1 .. p : f[x] = a[x]
        /\ f[p + 1] = Line(IF jsx THEN "wrapper" ELSE "start", <<s, 0>>)
        /\ f[p + 2] = Line(IF jsx THEN "start" ELSE "wrapper", <<s, 0>>)
        /\ \A x \in 1 .. n : f[p + 2 + x] = kept[x]
        /\ f[q] = Line("slot", <<s, 0>>)
        /\ \A x \in 1 .. c : f[q + x] = below[x]
        /\ f[r + 1] = IF jsx THEN Line("end", <<s, 0>>) ELSE EndDiv
        /\ f[r + 2] = IF jsx THEN EndDiv ELSE Line("end", <<s, 0>>)
    BY <1>0 DEF Parts, Stands
  <1>3. q = p + n + 3 /\ r = q + c
    BY <1>0
  <1> HIDE DEF n, c, l
  <1>4. p \in Nat /\ q \in Nat /\ r \in Nat /\ p + 3 <= q /\ q <= r
        /\ Len(f) \in Nat /\ r + 2 <= Len(f)
    BY <1>1, <1>2, <1>3
  <1>5. ASSUME NEW x \in p + 3 .. q - 1
        PROVE  x - (p + 2) \in 1 .. n /\ f[x] = kept[x - (p + 2)]
    <2>1. x - (p + 2) \in 1 .. n /\ p + 2 + (x - (p + 2)) = x
      BY <1>1, <1>3
    <2>2. QED
      BY <1>2, <2>1
  <1>6. ASSUME NEW x \in q + 1 .. r
        PROVE  x - q \in 1 .. c /\ f[x] = below[x - q]
    <2>1. x - q \in 1 .. c /\ q + (x - q) = x
      BY <1>1, <1>3
    <2>2. QED
      BY <1>2, <2>1
  <1>7. jsx => f[p + 1] = Line("wrapper", <<s, 0>>)
               /\ f[p + 2] = Line("start", <<s, 0>>)
               /\ f[r + 1] = Line("end", <<s, 0>>) /\ f[r + 2] = EndDiv
    BY <1>2
  <1>8. ~jsx => f[p + 1] = Line("start", <<s, 0>>)
                /\ f[p + 2] = Line("wrapper", <<s, 0>>)
                /\ f[r + 1] = EndDiv /\ f[r + 2] = Line("end", <<s, 0>>)
    BY <1>2
  <1>9. QED
    BY <1>0, <1>2, <1>4, <1>5, <1>6, <1>7, <1>8 DEF n, c, Layout

\* The markers are found.
LEMMA MarkersFound ==
  ASSUME NEW f, NEW a, NEW s, NEW kept, NEW below, NEW b, NEW jsx \in BOOLEAN,
         Parts(f, a, s, kept, below, b, jsx),
         NEW p, NEW q, NEW r,
         Places(p, q, r, a, kept, below)
  PROVE  findMarkerBlock(f, s) = [start |-> IF jsx THEN p + 2 ELSE p + 1,
                                  end   |-> IF jsx THEN r + 1 ELSE r + 2]
  <1> DEFINE m == Line("start", <<s, 0>>)
             e == Line("end", <<s, 0>>)
             w == Line("wrapper", <<s, 0>>)
             d == Line("slot", <<s, 0>>)
  <1>1. /\ p \in Nat /\ q \in Nat /\ r \in Nat /\ p + 3 <= q /\ q <= r
        /\ Len(f) \in Nat /\ r + 2 <= Len(f)
        /\ \A x \in 1 .. p : x \in 1 .. Len(a) /\ f[x] = a[x]
        /\ jsx => f[p + 1] = w /\ f[p + 2] = m /\ f[r + 1] = e /\ f[r + 2] = EndDiv
        /\ ~jsx => f[p + 1] = m /\ f[p + 2] = w /\ f[r + 1] = EndDiv /\ f[r + 2] = e
        /\ f[q] = d
        /\ \A x \in p + 3 .. q - 1 : x - (p + 2) \in 1 .. Len(kept)
                                     /\ f[x] = kept[x - (p + 2)]
        /\ \A x \in q + 1 .. r : x - q \in 1 .. Len(below)
                                 /\ f[x] = below[x - q]
    <2>1. Layout(f, a, s, kept, below, jsx, p, q, r)
      BY FileLines
    <2>2. QED
      BY <2>1 DEF Layout
  <1>2. /\ \A x \in 1 .. Len(a) : a[x] # m /\ a[x] # e
        /\ \A x \in 1 .. Len(kept) : kept[x] # m /\ kept[x] # e
        /\ \A x \in 1 .. Len(below) : below[x] # m /\ below[x] # e
    BY DEF Parts, Foreign, Frame
  <1>3. m # e /\ m # w /\ e # w /\ d # m /\ d # e /\ EndDiv # m /\ EndDiv # e
    BY OtherLine
  <1> HIDE DEF m, e, w, d
  <1>4. \A x \in 1 .. p : f[x] # m /\ f[x] # e
    BY <1>1, <1>2
  <1>5. \A x \in p + 3 .. r : f[x] # e
    <2> SUFFICES ASSUME NEW x \in p + 3 .. r PROVE f[x] # e
      OBVIOUS
    <2>1. x \in p + 3 .. q - 1 \/ x = q \/ x \in q + 1 .. r
      BY <1>1
    <2>2. CASE x \in p + 3 .. q - 1
      <3>1. x - (p + 2) \in 1 .. Len(kept) /\ f[x] = kept[x - (p + 2)]
        BY <2>2, <1>1
      <3>2. QED
        BY <3>1, <1>2
    <2>3. CASE x \in q + 1 .. r
      <3>1. x - q \in 1 .. Len(below) /\ f[x] = below[x - q]
        BY <2>3, <1>1
      <3>2. QED
        BY <3>1, <1>2
    <2>4. QED
      BY <2>1, <2>2, <2>3, <1>1, <1>3
  <1>6. \A x \in 1 .. r : f[x] # e
    <2> SUFFICES ASSUME NEW x \in 1 .. r PROVE f[x] # e
      OBVIOUS
    <2>1. x \in 1 .. p \/ x = p + 1 \/ x = p + 2 \/ x \in p + 3 .. r
      <3>1. p \in Nat /\ r \in Nat
        BY <1>1
      <3>2. QED
        BY <3>1
    <2>2. f[p + 1] # e /\ f[p + 2] # e
      BY <1>1, <1>3
    <2>3. QED
      BY <2>1, <2>2, <1>4, <1>5
  <1>7. CASE jsx
    <2>1. p + 2 \in 1 .. Len(f) /\ r + 1 \in 1 .. Len(f)
      BY <1>1
    <2>2. \A x \in 1 .. (p + 2) - 1 : f[x] # m
      <3> SUFFICES ASSUME NEW x \in 1 .. (p + 2) - 1 PROVE f[x] # m
        OBVIOUS
      <3>1. x \in 1 .. p \/ x = p + 1
        BY <1>1
      <3>2. QED
        BY <3>1, <1>1, <1>3, <1>4, <1>7
    <2>3. IndexOf(f, "start", <<s, 0>>) = p + 2
      <3>1. f[p + 2] = Line("start", <<s, 0>>)
        BY <1>1, <1>7 DEF m
      <3>2. \A x \in 1 .. (p + 2) - 1 : f[x] # Line("start", <<s, 0>>)
        BY <2>2 DEF m
      <3>3. Len(f) \in Nat
        BY <1>1
      <3>4. QED
        BY ONLY <2>1, <3>1, <3>2, <3>3, IndexIs
    <2>4. IndexOf(f, "end", <<s, 0>>) = r + 1
      <3>1. f[r + 1] = Line("end", <<s, 0>>)
        BY <1>1, <1>7 DEF e
      <3>2. \A x \in 1 .. (r + 1) - 1 : f[x] # Line("end", <<s, 0>>)
        <4>1. (r + 1) - 1 = r
          BY <1>1
        <4>2. QED
          BY <4>1, <1>6 DEF e
      <3>3. Len(f) \in Nat
        BY <1>1
      <3>4. QED
        BY ONLY <2>1, <3>1, <3>2, <3>3, IndexIs
    <2>5. QED
      BY <1>7, <2>3, <2>4 DEF findMarkerBlock
  <1>8. CASE ~jsx
    <2>1. p + 1 \in 1 .. Len(f) /\ r + 2 \in 1 .. Len(f)
      BY <1>1
    <2>2. \A x \in 1 .. (p + 1) - 1 : f[x] # m
      BY <1>1, <1>4
    <2>3. IndexOf(f, "start", <<s, 0>>) = p + 1
      <3>1. f[p + 1] = Line("start", <<s, 0>>)
        BY <1>1, <1>8 DEF m
      <3>2. \A x \in 1 .. (p + 1) - 1 : f[x] # Line("start", <<s, 0>>)
        BY <2>2 DEF m
      <3>3. Len(f) \in Nat
        BY <1>1
      <3>4. QED
        BY ONLY <2>1, <3>1, <3>2, <3>3, IndexIs
    <2>4. IndexOf(f, "end", <<s, 0>>) = r + 2
      <3>1. f[r + 2] = Line("end", <<s, 0>>)
        BY <1>1, <1>8 DEF e
      <3>2. \A x \in 1 .. (r + 2) - 1 : f[x] # Line("end", <<s, 0>>)
        <4> SUFFICES ASSUME NEW x \in 1 .. (r + 2) - 1 PROVE f[x] # e
          BY DEF e
        <4>1. x \in 1 .. r \/ x = r + 1
          BY <1>1
        <4>2. QED
          BY <4>1, <1>1, <1>3, <1>6, <1>8
      <3>3. Len(f) \in Nat
        BY <1>1
      <3>4. QED
        BY ONLY <2>1, <3>1, <3>2, <3>3, IndexIs
    <2>5. QED
      BY <1>8, <2>3, <2>4 DEF findMarkerBlock
  <1>9. QED
    BY <1>7, <1>8

\* What the frame of a scaffold encloses balances.
LEMMA InsideEven ==
  ASSUME NEW f, NEW a, NEW s, NEW kept, NEW below, NEW b, NEW jsx \in BOOLEAN,
         Parts(f, a, s, kept, below, b, jsx),
         NEW p, NEW q, NEW r,
         Places(p, q, r, a, kept, below)
  PROVE  Even(f, p + 3, q - 1) /\ Even(f, q + 1, r) /\ Even(f, p + 3, r)
  <1>0. p = Len(a) /\ q = p + Len(kept) + 3 /\ r = q + Len(below)
    BY DEF Places
  <1>1. Layout(f, a, s, kept, below, jsx, p, q, r)
    BY FileLines
  <1>2. /\ p \in Int /\ q \in Int /\ r \in Int /\ p + 3 <= q /\ q <= r
        /\ Len(kept) \in Nat /\ Len(below) \in Nat
        /\ Even(kept, 1, Len(kept)) /\ Even(below, 1, Len(below))
        /\ f[q] = Line("slot", <<s, 0>>)
    BY <1>1 DEF Layout, Parts
  <1>3. /\ \A x \in 1 .. Len(kept) : f[(p + 2) + x] = kept[x]
        /\ \A x \in 1 .. Len(below) : f[q + x] = below[x]
    BY <1>0 DEF Parts, Stands
  <1>4. Even(f, (p + 2) + 1, (p + 2) + Len(kept))
    <2>1. p + 2 \in Int
      BY <1>2
    <2>2. \A x \in 1 .. Len(kept) : f[(p + 2) + x] = kept[x]
      BY <1>3
    <2>3. Len(kept) \in Nat
      BY <1>2
    <2>4. Even(kept, 1, Len(kept))
      BY <1>2
    <2>5. QED
      BY ONLY <2>1, <2>2, <2>3, <2>4, EvenShift
  <1>5. Even(f, q + 1, q + Len(below))
    <2>1. q \in Int
      BY <1>2
    <2>2. \A x \in 1 .. Len(below) : f[q + x] = below[x]
      BY <1>3
    <2>3. Len(below) \in Nat
      BY <1>2
    <2>4. Even(below, 1, Len(below))
      BY <1>2
    <2>5. QED
      BY ONLY <2>1, <2>2, <2>3, <2>4, EvenShift
  <1>6. (p + 2) + 1 = p + 3 /\ (p + 2) + Len(kept) = q - 1
        /\ q + Len(below) = r
    BY <1>0, <1>2
  <1>7. Even(f, p + 3, q - 1)
    BY <1>4, <1>6
  <1>8. Even(f, q + 1, r)
    BY <1>5, <1>6
  <1>9. Height(f[q]) = 0
    BY <1>2 DEF Height, Opens, Closes, Line
  <1>10. Even(f, q, q)
    BY <1>2, <1>9, EvenMark
  <1>11. Even(f, p + 3, q)
    <2>1. (q - 1) + 1 = q /\ p + 3 \in Int /\ q - 1 \in Int /\ q \in Int
          /\ p + 3 <= (q - 1) + 1 /\ q - 1 <= q
      BY <1>2
    <2>2. Even(f, (q - 1) + 1, q)
      BY <2>1, <1>10
    <2>3. QED
      BY <2>1, <2>2, <1>7, EvenJoin
  <1>12. Even(f, p + 3, r)
    <2>1. p + 3 \in Int /\ p + 3 <= q + 1
      BY <1>2
    <2>2. QED
      BY <2>1, <1>2, <1>8, <1>11, EvenJoin
  <1>13. QED
    BY <1>7, <1>8, <1>12

\* The range that is replaced is the whole scaffold, and nothing else.
LEMMA RangeFound ==
  ASSUME NEW f, NEW a, NEW s, NEW kept, NEW below, NEW b, NEW jsx \in BOOLEAN,
         Parts(f, a, s, kept, below, b, jsx),
         NEW p, NEW q, NEW r,
         Places(p, q, r, a, kept, below)
  PROVE  expandReplaceRange(f, s, jsx) = [start |-> p + 1, end |-> r + 2]
  <1>1. Layout(f, a, s, kept, below, jsx, p, q, r)
    BY FileLines
  <1>2. findMarkerBlock(f, s) = [start |-> IF jsx THEN p + 2 ELSE p + 1,
                                 end   |-> IF jsx THEN r + 1 ELSE r + 2]
    BY MarkersFound
  <1>3. CASE ~jsx
    BY <1>2, <1>3 DEF expandReplaceRange
  <1>4. CASE jsx
    <2> DEFINE w == Line("wrapper", <<s, 0>>)
               openers == {i \in 1 .. p + 2 - 1 : f[i] = w}
               top == Max(openers \cup {0})
               ends == {j \in r + 1 .. Len(f) : Depth(f, p + 1, j) <= 0}
    <2>1. /\ p \in Nat /\ q \in Nat /\ r \in Nat /\ p + 3 <= q /\ q <= r
          /\ Len(f) \in Nat /\ r + 2 <= Len(f)
          /\ \A x \in 1 .. p : x \in 1 .. Len(a) /\ f[x] = a[x]
          /\ f[p + 1] = w /\ f[p + 2] = Line("start", <<s, 0>>)
          /\ f[r + 1] = Line("end", <<s, 0>>) /\ f[r + 2] = EndDiv
      BY <1>1, <1>4 DEF Layout
    <2>2. \A x \in 1 .. Len(a) : a[x] # w
      BY DEF Parts, Foreign, Frame
    <2>3. openers = {p + 1}
      <3> HIDE DEF w
      <3>1. \A x \in 1 .. p : f[x] # w
        BY <2>1, <2>2
      <3>2. \A x \in 1 .. p + 2 - 1 : x \in 1 .. p \/ x = p + 1
        BY <2>1
      <3>3. p + 1 \in 1 .. p + 2 - 1
        BY <2>1
      <3>4. QED
        BY <2>1, <3>1, <3>2, <3>3
    <2>4. top = p + 1
      <3> DEFINE T == openers \cup {0}
      <3>1. T = {p + 1, 0}
        BY <2>3
      <3> HIDE DEF openers, T
      <3>2. p + 1 \in T /\ T \in SUBSET Int /\ \A x \in T : p + 1 >= x
        BY <2>1, <3>1
      <3>3. Max(T) = p + 1
        BY ONLY <3>2, MaxIs
      <3>4. QED
        BY <3>3 DEF T
    <2>5. Even(f, p + 2, r + 1)
      <3>1. Height(f[p + 2]) = 0 /\ Height(f[r + 1]) = 0
        BY <2>1 DEF Height, Opens, Closes, Line
      <3>2. p + 2 \in Int /\ r + 1 \in Int /\ r \in Int /\ p + 3 \in Int
            /\ (p + 2) + 1 = p + 3 /\ p + 2 <= (p + 2) + 1 /\ p + 2 <= r
            /\ p + 2 <= r + 1 /\ r <= r + 1
        BY <2>1
      <3>3. Even(f, p + 2, p + 2)
        BY <3>1, <3>2, EvenMark
      <3>4. Even(f, r + 1, r + 1)
        BY <3>1, <3>2, EvenMark
      <3>5. Even(f, (p + 2) + 1, r)
        BY <3>2, InsideEven
      <3>6. Even(f, p + 2, r)
        BY ONLY <3>2, <3>3, <3>5, EvenJoin
      <3>7. QED
        BY ONLY <3>2, <3>4, <3>6, EvenJoin
    <2>6. /\ Even(f, p + 1, r + 2)
          /\ \A x \in p + 1 .. r + 1 : Depth(f, p + 1, x) >= 1
      <3>1. p + 1 \in Int /\ r + 2 \in Int /\ p + 1 < r + 2
            /\ (p + 1) + 1 = p + 2 /\ (r + 2) - 1 = r + 1
        BY <2>1
      <3>2. Opens(f[p + 1]) /\ Closes(f[r + 2])
        BY <2>1 DEF Opens, Closes, EndDiv, Line
      <3>3. Even(f, (p + 1) + 1, (r + 2) - 1)
        BY <3>1, <2>5
      <3>4. /\ Even(f, p + 1, r + 2)
            /\ \A x \in p + 1 .. (r + 2) - 1 : Depth(f, p + 1, x) >= 1
        BY ONLY <3>1, <3>2, <3>3, EvenTag
      <3>5. QED
        BY <3>1, <3>4
    <2>7. Min(ends \cup {Len(f)}) = r + 2
      <3> DEFINE T == ends \cup {Len(f)}
      <3>1. r + 2 \in T
        BY <2>1, <2>6 DEF Even
      <3>2. T \in SUBSET Int
        BY <2>1
      <3>3. \A x \in T : r + 2 <= x
        <4> SUFFICES ASSUME NEW x \in T, x < r + 2 PROVE FALSE
          BY <3>2, <2>1
        <4>1. x = r + 1 /\ Depth(f, p + 1, x) <= 0
          BY <2>1
        <4>2. x \in p + 1 .. r + 1
          BY <2>1, <4>1
        <4>3. p + 1 \in Int /\ x \in Int
          BY <2>1, <4>1
        <4>4. Depth(f, p + 1, x) >= 1
          BY ONLY <2>6, <4>2
        <4>5. Depth(f, p + 1, x) \in Int
          BY ONLY <4>3, DepthInt
        <4>6. QED
          BY ONLY <4>1, <4>4, <4>5
      <3> HIDE DEF T
      <3>4. Min(T) = r + 2
        BY ONLY <3>1, <3>2, <3>3, MinIs
      <3>5. QED
        BY <3>4 DEF T
    <2>8. openers # {}
      BY <2>3
    <2>9. expandReplaceRange(f, s, TRUE)
            = [start |-> top, end |-> Min({j \in r + 1 .. Len(f) :
                                Depth(f, top, j) <= 0} \cup {Len(f)})]
      <3> DEFINE m == findMarkerBlock(f, s)
      <3>1. m.start = p + 2 /\ m.end = r + 1
        BY <1>2, <1>4
      <3> HIDE DEF m
      <3>2. {i \in 1 .. m.start - 1 : f[i] = Line("wrapper", <<s, 0>>)} = openers
        <4>1. \A i : i \in 1 .. m.start - 1 <=> i \in 1 .. p + 2 - 1
          BY <2>1, <3>1
        <4> HIDE DEF w
        <4>2. {i \in 1 .. m.start - 1 : f[i] = w} = openers
          BY <4>1
        <4>3. QED
          BY <4>2 DEF w
      <3> HIDE DEF openers
      <3>3. QED
        BY <3>1, <3>2, <2>8 DEF expandReplaceRange, m
    <2> HIDE DEF top
    <2>10. QED
      BY <1>4, <2>4, <2>7, <2>9
  <1>5. QED
    BY <1>3, <1>4

-----------------------------------------------------------------------------
(* Cutting a file up.                                                      *)

\* A sequence of two is cut where they meet.
LEMMA CutInTwo ==
  ASSUME NEW S, NEW u \in Seq(S), NEW v \in Seq(S),
         NEW g, g = u \o v, NEW n, n = Len(u)
  PROVE  SubSeq(g, 1, n) = u /\ SubSeq(g, n + 1, Len(g)) = v
  <1> DEFINE m == Len(v)
  <1>1. n \in Nat /\ m \in Nat
    BY LenProperties
  <1>2. /\ u \o v \in Seq(S)
        /\ Len(u \o v) = Len(u) + Len(v)
        /\ \A x \in 1 .. Len(u) : (u \o v)[x] = u[x]
        /\ \A x \in 1 .. Len(v) : (u \o v)[Len(u) + x] = v[x]
    BY ONLY Joined, u \in Seq(S), v \in Seq(S)
  <1>3. /\ g \in Seq(S) /\ Len(g) = n + m
        /\ \A x \in 1 .. n : g[x] = u[x]
        /\ \A x \in 1 .. m : g[n + x] = v[x]
    BY <1>2
  <1>4. \A x \in 1 .. n : u[x] \in S
    BY ElementOfSeq
  <1>5. \A x \in 1 .. m : v[x] \in S
    BY ElementOfSeq
  <1> HIDE DEF m
  <1>6. SubSeq(g, 1, n) = u
    <2> DEFINE w == SubSeq(g, 1, n)
    <2>1. \A x \in 1 .. n : g[x] \in S
      BY <1>3, <1>4
    <2>2. 1 \in Int /\ n \in Int
      BY <1>1
    <2>3. /\ w \in Seq(S) /\ Len(w) = IF 1 <= n THEN n - 1 + 1 ELSE 0
          /\ \A x \in 1 .. n - 1 + 1 : w[x] = g[1 + x - 1]
      BY ONLY <2>1, <2>2, SubSeqProperties
    <2> HIDE DEF w
    <2>4. w \in Seq(S) /\ Len(w) = Len(u)
      BY <1>1, <2>3
    <2>5. \A x \in 1 .. Len(w) : w[x] = u[x]
      <3> SUFFICES ASSUME NEW x \in 1 .. n PROVE w[x] = u[x]
        BY <2>4
      <3>1. x \in 1 .. n - 1 + 1 /\ 1 + x - 1 = x
        BY <1>1
      <3>2. w[x] = g[x]
        BY <2>3, <3>1
      <3>3. QED
        BY <3>2, <1>3
    <2>6. w \in Seq(S)
      BY <2>4
    <2>7. Len(w) = Len(u)
      BY <2>4
    <2>8. w = u
      BY ONLY <2>5, <2>6, <2>7, u \in Seq(S), SeqEqual
    <2>9. QED
      BY <2>8 DEF w
  <1>7. SubSeq(g, n + 1, Len(g)) = v
    <2> DEFINE h == n + 1
               k == n + m
               w == SubSeq(g, h, k)
    <2>1. \A x \in h .. k : g[x] \in S
      <3> SUFFICES ASSUME NEW x \in n + 1 .. n + m PROVE g[x] \in S
        OBVIOUS
      <3>1. x - n \in 1 .. m /\ n + (x - n) = x
        BY <1>1
      <3>2. QED
        BY <3>1, <1>3, <1>5
    <2>2. h \in Int /\ k \in Int /\ h = n + 1 /\ k = n + m
      BY <1>1
    <2> HIDE DEF h, k
    <2>3. /\ w \in Seq(S) /\ Len(w) = IF h <= k THEN k - h + 1 ELSE 0
          /\ \A x \in 1 .. k - h + 1 : w[x] = g[h + x - 1]
      BY ONLY <2>1, <2>2, SubSeqProperties
    <2> HIDE DEF w
    <2>4. w \in Seq(S) /\ Len(w) = m
      BY <1>1, <2>2, <2>3
    <2>5. \A x \in 1 .. Len(w) : w[x] = v[x]
      <3> SUFFICES ASSUME NEW x \in 1 .. m PROVE w[x] = v[x]
        BY <2>4
      <3>1. x \in 1 .. k - h + 1 /\ h + x - 1 = n + x
        BY <1>1, <2>2
      <3>2. w[x] = g[n + x]
        BY <2>3, <3>1
      <3>3. QED
        BY <3>2, <1>3
    <2>6. w \in Seq(S)
      BY <2>4
    <2>7. Len(w) = Len(v)
      BY <2>4 DEF m
    <2>8. w = v
      BY ONLY <2>5, <2>6, <2>7, v \in Seq(S), SeqEqual
    <2>9. QED
      BY <2>8, <1>3, <2>2 DEF w
  <1>8. QED
    BY <1>6, <1>7

\* Three pieces, the one in the middle replaced.
Spans(i, j, u, m) == i = Len(u) + 1 /\ j = Len(u) + Len(m)
Replaced(g, i, j, new, u, v) == Replace(g, i, j, new) = u \o new \o v

\* Cutting out the middle of a file of three parts.
LEMMA ReplaceMiddle ==
  ASSUME NEW S, NEW u \in Seq(S), NEW m \in Seq(S), NEW v \in Seq(S),
         NEW new, NEW g, Thirds(g, u, m, v),
         NEW i, NEW j, Spans(i, j, u, m)
  PROVE  Replaced(g, i, j, new, u, v)
  <1>1. Len(u) \in Nat /\ Len(m) \in Nat /\ u \o m \in Seq(S)
        /\ m \o v \in Seq(S) /\ Len(u \o m) = Len(u) + Len(m)
    BY LenProperties, ConcatProperties
  <1>2. g = u \o (m \o v)
    BY ConcatAssociative DEF Thirds
  <1>3. m \o v \in Seq(S)
    BY <1>1
  <1>4. SubSeq(g, 1, Len(u)) = u
    BY ONLY <1>2, <1>3, u \in Seq(S), CutInTwo
  <1>5. u \o m \in Seq(S)
    BY <1>1
  <1>6. g = (u \o m) \o v
    BY DEF Thirds
  <1>7. SubSeq(g, Len(u \o m) + 1, Len(g)) = v
    BY ONLY <1>5, <1>6, v \in Seq(S), CutInTwo
  <1>8. i - 1 = Len(u) /\ j + 1 = Len(u \o m) + 1
    BY <1>1 DEF Spans
  <1>9. QED
    BY <1>4, <1>7, <1>8 DEF Replace, Replaced

\* A middle piece is what stands there.
LEMMA MiddleIs ==
  ASSUME NEW S, NEW f \in Seq(S), NEW g \in Seq(S), NEW p \in Nat,
         p + Len(g) <= Len(f), \A x \in 1 .. Len(g) : f[p + x] = g[x],
         NEW i, i = p + 1, NEW j, j = p + Len(g)
  PROVE  SubSeq(f, i, j) = g
  <1> DEFINE w == SubSeq(f, i, j)
             n == Len(g)
  <1>1. n \in Nat
    BY LenProperties
  <1>2. \A x \in 1 .. n : g[x] \in S
    BY ElementOfSeq
  <1>3. \A x \in 1 .. n : f[p + x] = g[x]
    OBVIOUS
  <1>4. i = p + 1 /\ j = p + n
    OBVIOUS
  <1>5. i \in Int /\ j \in Int
    BY <1>1
  <1> HIDE DEF n
  <1>6. \A x \in i .. j : f[x] \in S
    <2> SUFFICES ASSUME NEW x \in i .. j PROVE f[x] \in S
      OBVIOUS
    <2>1. x - p \in 1 .. n /\ p + (x - p) = x
      BY <1>1, <1>4
    <2>2. QED
      BY <2>1, <1>2, <1>3
  <1>7. /\ w \in Seq(S) /\ Len(w) = IF i <= j THEN j - i + 1 ELSE 0
        /\ \A x \in 1 .. j - i + 1 : w[x] = f[i + x - 1]
    BY ONLY <1>5, <1>6, SubSeqProperties
  <1> HIDE DEF w
  <1>8. w \in Seq(S)
    BY <1>7
  <1>9. Len(w) = Len(g)
    BY <1>1, <1>4, <1>7 DEF n
  <1>10. \A x \in 1 .. Len(w) : w[x] = g[x]
    <2> SUFFICES ASSUME NEW x \in 1 .. n PROVE w[x] = g[x]
      BY <1>9 DEF n
    <2>1. x \in 1 .. j - i + 1 /\ i + x - 1 = p + x
      BY <1>1, <1>4
    <2>2. w[x] = f[p + x]
      BY <1>7, <2>1
    <2>3. QED
      BY <2>2, <1>3
  <1>11. w = g
    BY ONLY <1>8, <1>9, <1>10, g \in Seq(S), SeqEqual
  <1>12. QED
    BY <1>11 DEF w

-----------------------------------------------------------------------------
(* What is extracted from a scaffold.                                      *)

\* The first tag (k, c) between lines u and v is line i, which line j closes.
Tagged(f, k, c, u, v, i, j) ==
  /\ Len(f) \in Nat /\ u \in Nat /\ v \in Nat /\ j \in Int
  /\ i \in u .. v - 1 /\ f[i] = Line(k, c) /\ Opens(f[i])
  /\ \A x \in u .. i - 1 : f[x] # Line(k, c)
  /\ i < j /\ j <= Len(f) /\ Closes(f[j]) /\ Even(f, i + 1, j - 1)

Block(f, s, u, v) == findMarkerBlock(f, s) = [start |-> u, end |-> v]

\* What the scripts extract by a tag: what stands in it, or nothing.
LEMMA ExtractIs ==
  ASSUME NEW f, NEW s, NEW k, NEW c, NEW u, NEW v, NEW i, NEW j,
         Block(f, s, u, v), Tagged(f, k, c, u, v, i, j)
  PROVE  extractInner(f, s, k, c) = SubSeq(f, i + 1, j - 1)
  <1> DEFINE T == {x \in u .. v : f[x] = Line(k, c)} \cup {v}
  <1>0. /\ Len(f) \in Nat /\ u \in Nat /\ v \in Nat /\ j \in Int
        /\ i \in u .. v - 1 /\ f[i] = Line(k, c) /\ Opens(f[i])
        /\ \A x \in u .. i - 1 : f[x] # Line(k, c)
        /\ i < j /\ j <= Len(f) /\ Closes(f[j]) /\ Even(f, i + 1, j - 1)
    BY DEF Tagged
  <1>1. i \in Nat
    BY <1>0
  <1>2. closingLine(f, i) = j
    BY <1>0, <1>1, ClosingIs
  <1>3. i \in T
    BY <1>0
  <1>4. T \in SUBSET Int
    BY <1>0
  <1>5. \A x \in T : i <= x
    BY <1>0
  <1> HIDE DEF T
  <1>6. Min(T) = i
    BY ONLY <1>3, <1>4, <1>5, MinIs
  <1> DEFINE m == findMarkerBlock(f, s)
  <1>7. m.start = u /\ m.end = v
    BY DEF Block
  <1> HIDE DEF m
  <1>8. Min({x \in m.start .. m.end : f[x] = Line(k, c)} \cup {m.end}) = i
    BY <1>6, <1>7 DEF T
  <1>9. QED
    BY <1>0, <1>2, <1>8 DEF extractInner, m

LEMMA ExtractNone ==
  ASSUME NEW f, NEW s, NEW k, NEW c, NEW u \in Nat, NEW v \in Nat, u <= v,
         Block(f, s, u, v), \A x \in u .. v : f[x] # Line(k, c)
  PROVE  extractInner(f, s, k, c) = <<>>
  <1> DEFINE T == {x \in u .. v : f[x] = Line(k, c)} \cup {v}
  <1>1. T = {v}
    OBVIOUS
  <1>2. v \in T /\ T \in SUBSET Int /\ \A x \in T : v <= x
    BY <1>1
  <1>3. Min(T) = v
    BY ONLY <1>2, MinIs
  <1>4. f[v] # Line(k, c)
    OBVIOUS
  <1>5. QED
    BY <1>3, <1>4 DEF extractInner, Block

\* The lines a scaffold is made of, and how many they are.
LEMMA ScaffoldLines ==
  ASSUME NEW S, NEW s, Writes(S, s), NEW jsx \in BOOLEAN
  PROVE  /\ Top(s, jsx) \in Seq(S) /\ Len(Top(s, jsx)) = 2
         /\ Foot(s, jsx) \in Seq(S) /\ Len(Foot(s, jsx)) = 2
         /\ <<Line("slot", <<s, 0>>)>> \in Seq(S)
         /\ Len(<<Line("slot", <<s, 0>>)>>) = 1
  <1> DEFINE w == Line("wrapper", <<s, 0>>)
             st == Line("start", <<s, 0>>)
             sl == Line("slot", <<s, 0>>)
             en == Line("end", <<s, 0>>)
  <1>1. w \in S
    BY DEF Writes, Scaffolding
  <1>2. st \in S
    BY DEF Writes, Scaffolding
  <1>3. sl \in S
    BY DEF Writes, Scaffolding
  <1>4. en \in S
    BY DEF Writes, Scaffolding
  <1>5. EndDiv \in S
    BY DEF Writes, Scaffolding
  <1>6. Top(s, jsx) = IF jsx THEN <<w, st>> ELSE <<st, w>>
    BY DEF Top
  <1>7. Foot(s, jsx) = IF jsx THEN <<en, EndDiv>> ELSE <<EndDiv, en>>
    BY DEF Foot
  <1> HIDE DEF w, st, sl, en
  <1>8. Top(s, jsx) \in Seq(S) /\ Len(Top(s, jsx)) = 2
    BY <1>1, <1>2, <1>6, Pair
  <1>9. Foot(s, jsx) \in Seq(S) /\ Len(Foot(s, jsx)) = 2
    BY <1>4, <1>5, <1>7, Pair
  <1>10. <<sl>> \in Seq(S) /\ Len(<<sl>>) = 1
    BY <1>3, Single
  <1>11. QED
    BY <1>8, <1>9, <1>10 DEF sl

LEMMA ScaffoldSeq ==
  ASSUME NEW S, NEW s, Writes(S, s),
         NEW kept \in Seq(S), NEW below \in Seq(S), NEW jsx \in BOOLEAN
  PROVE  /\ Scaffold(s, kept, below, jsx) \in Seq(S)
         /\ Len(Scaffold(s, kept, below, jsx)) = Len(kept) + Len(below) + 5
  <1> DEFINE t == Top(s, jsx)
             m == <<Line("slot", <<s, 0>>)>>
             e == Foot(s, jsx)
  <1>1. t \in Seq(S) /\ Len(t) = 2 /\ e \in Seq(S) /\ Len(e) = 2
        /\ m \in Seq(S) /\ Len(m) = 1
    BY ScaffoldLines
  <1>2. Scaffold(s, kept, below, jsx) = t \o kept \o m \o below \o e
    BY DEF Scaffold
  <1>3. Len(kept) \in Nat /\ Len(below) \in Nat
    BY LenProperties
  <1> HIDE DEF t, m, e
  <1> DEFINE g1 == t \o kept
             g2 == g1 \o m
             g3 == g2 \o below
             g4 == g3 \o e
  <1>4. t \in Seq(S)
    BY <1>1
  <1>5. m \in Seq(S)
    BY <1>1
  <1>6. e \in Seq(S)
    BY <1>1
  <1>7. g1 \in Seq(S) /\ Len(g1) = Len(t) + Len(kept)
    BY ONLY <1>4, kept \in Seq(S), Joined
  <1>8. g1 \in Seq(S)
    BY <1>7
  <1> HIDE DEF g1
  <1>9. g2 \in Seq(S) /\ Len(g2) = Len(g1) + Len(m)
    BY ONLY <1>8, <1>5, Joined
  <1>10. g2 \in Seq(S)
    BY <1>9
  <1> HIDE DEF g2
  <1>11. g3 \in Seq(S) /\ Len(g3) = Len(g2) + Len(below)
    BY ONLY <1>10, below \in Seq(S), Joined
  <1>12. g3 \in Seq(S)
    BY <1>11
  <1> HIDE DEF g3
  <1>13. g4 \in Seq(S) /\ Len(g4) = Len(g3) + Len(e)
    BY ONLY <1>12, <1>6, Joined
  <1>14. Scaffold(s, kept, below, jsx) = g4
    BY <1>2 DEF g1, g2, g3
  <1> HIDE DEF g4
  <1>15. QED
    BY <1>1, <1>3, <1>7, <1>9, <1>11, <1>13, <1>14

\* A file with one scaffold of session s in it, and what may stand around,
\* inside and below.
InFile(S, f, a, s, kept, below, b, jsx) ==
  /\ Writes(S, s)
  /\ a \in Seq(S) /\ kept \in Seq(S) /\ below \in Seq(S) /\ b \in Seq(S)
  /\ f = a \o Scaffold(s, kept, below, jsx) \o b
  /\ Foreign(a, s, Frame) /\ Foreign(kept, s, Frame) /\ Foreign(below, s, Frame)
  /\ Even(kept, 1, Len(kept)) /\ Even(below, 1, Len(below))

\* A file with a scaffold is a sequence of lines.
LEMMA InFileParts ==
  ASSUME NEW S, NEW f, NEW a, NEW s, NEW kept, NEW below, NEW b,
         NEW jsx \in BOOLEAN, InFile(S, f, a, s, kept, below, b, jsx)
  PROVE  f \in Seq(S) /\ Parts(f, a, s, kept, below, b, jsx)
  <1>1. Writes(S, s)
    BY DEF InFile
  <1>2. a \in Seq(S)
    BY DEF InFile
  <1>3. b \in Seq(S)
    BY DEF InFile
  <1>4. kept \in Seq(S)
    BY DEF InFile
  <1>5. below \in Seq(S)
    BY DEF InFile
  <1>6. Thirds(f, a, Scaffold(s, kept, below, jsx), b)
    BY DEF InFile, Thirds
  <1>7. f \in Seq(S) /\ Stands(f, a, s, kept, below, b, jsx)
    BY ONLY <1>1, <1>2, <1>3, <1>4, <1>5, <1>6, jsx \in BOOLEAN, ScaffoldStands
  <1>8. Len(a) \in Nat /\ Len(kept) \in Nat /\ Len(below) \in Nat
        /\ Len(b) \in Nat
    BY <1>2, <1>3, <1>4, <1>5, LenProperties
  <1>9. QED
    BY <1>7, <1>8 DEF InFile, Parts

\* Replacing the range that is found leaves what stands around it.
Swapped(f, s, jsx, new) ==
  LET x == expandReplaceRange(f, s, jsx) IN Replace(f, x.start, x.end, new)

\* Whatever takes the place of the range the script expands to takes the
\* place of the scaffold, marker, wrapper and all.
LEMMA ScaffoldReplaced ==
  ASSUME NEW S, NEW f, NEW a, NEW s, NEW kept, NEW below, NEW b,
         NEW jsx \in BOOLEAN, InFile(S, f, a, s, kept, below, b, jsx),
         NEW new \in Seq(S)
  PROVE  Swapped(f, s, jsx, new) = a \o new \o b
  <1> DEFINE x == expandReplaceRange(f, s, jsx)
             m == Scaffold(s, kept, below, jsx)
             p == Len(a)
             q == p + Len(kept) + 3
             r == q + Len(below)
  <1>1. Parts(f, a, s, kept, below, b, jsx)
    BY InFileParts
  <1>2. x = [start |-> p + 1, end |-> r + 2]
    <2>1. Places(p, q, r, a, kept, below)
      BY DEF Places
    <2>2. QED
      BY ONLY <1>1, <2>1, jsx \in BOOLEAN, RangeFound
  <1>3. x.start = p + 1 /\ x.end = r + 2
    BY <1>2
  <1>4. a \in Seq(S)
    BY DEF InFile
  <1>5. b \in Seq(S)
    BY DEF InFile
  <1>6. m \in Seq(S) /\ Len(m) = Len(kept) + Len(below) + 5
    <2>1. Writes(S, s)
      BY DEF InFile
    <2>2. kept \in Seq(S)
      BY DEF InFile
    <2>3. below \in Seq(S)
      BY DEF InFile
    <2>4. QED
      BY ONLY <2>1, <2>2, <2>3, jsx \in BOOLEAN, ScaffoldSeq
  <1>7. Len(a) \in Nat /\ Len(kept) \in Nat /\ Len(below) \in Nat
    BY <1>1 DEF Parts
  <1> DEFINE i == x.start
             j == x.end
  <1>8. i = Len(a) + 1
    BY <1>3
  <1>9. j = Len(a) + Len(m)
    BY <1>3, <1>6, <1>7
  <1>10. f = a \o m \o b
    BY DEF InFile
  <1>11. m \in Seq(S)
    BY <1>6
  <1> HIDE DEF m, i, j
  <1>12. Replaced(f, i, j, new, a, b)
    <2>1. Spans(i, j, a, m)
      BY <1>8, <1>9 DEF Spans
    <2>2. Thirds(f, a, m, b)
      BY <1>10 DEF Thirds
    <2>3. QED
      BY ONLY <1>4, <1>5, <1>11, <2>1, <2>2, ReplaceMiddle
  <1>13. QED
    BY <1>12 DEF i, j, Swapped, Replaced

-----------------------------------------------------------------------------
(* Discarding.                                                             *)

\* The scaffold keeps the lines inner as its original.
Keeps(kept, s, inner) ==
  kept = <<Line("original", <<s, 0>>)>> \o inner \o <<EndDiv>>

LEMMA KeptLines ==
  ASSUME NEW S, NEW s, Writes(S, s), NEW inner \in Seq(S),
         NEW kept, Keeps(kept, s, inner)
  PROVE  /\ kept \in Seq(S) /\ Len(kept) = Len(inner) + 2
         /\ kept[1] = Line("original", <<s, 0>>)
         /\ \A x \in 1 .. Len(inner) : kept[1 + x] = inner[x]
         /\ kept[Len(inner) + 2] = EndDiv
  <1> DEFINE o == Line("original", <<s, 0>>)
             g == <<o>> \o inner
             n == Len(inner)
  <1>1. o \in S
    BY DEF Writes, Scaffolding
  <1>2. EndDiv \in S
    BY DEF Writes, Scaffolding
  <1>3. kept = g \o <<EndDiv>>
    BY DEF Keeps
  <1> HIDE DEF o
  <1>4. <<o>> \in Seq(S) /\ Len(<<o>>) = 1 /\ <<o>>[1] = o
    BY ONLY <1>1, Single
  <1>5. <<EndDiv>> \in Seq(S) /\ Len(<<EndDiv>>) = 1 /\ <<EndDiv>>[1] = EndDiv
    BY ONLY <1>2, Single
  <1>6. <<o>> \in Seq(S)
    BY <1>4
  <1>7. <<EndDiv>> \in Seq(S)
    BY <1>5
  <1>8. /\ g \in Seq(S) /\ Len(g) = Len(<<o>>) + n
        /\ \A x \in 1 .. Len(<<o>>) : g[x] = <<o>>[x]
        /\ \A x \in 1 .. n : g[Len(<<o>>) + x] = inner[x]
    BY ONLY <1>6, inner \in Seq(S), Joined
  <1>9. g \in Seq(S)
    BY <1>8
  <1> HIDE DEF g
  <1>10. /\ kept \in Seq(S) /\ Len(kept) = Len(g) + Len(<<EndDiv>>)
         /\ \A x \in 1 .. Len(g) : kept[x] = g[x]
         /\ \A x \in 1 .. Len(<<EndDiv>>) : kept[Len(g) + x] = <<EndDiv>>[x]
    BY ONLY <1>3, <1>7, <1>9, Joined
  <1>11. n \in Nat
    BY LenProperties
  <1> HIDE DEF n
  <1>12. Len(g) = 1 + n /\ Len(kept) = n + 2
    BY <1>4, <1>5, <1>8, <1>10, <1>11
  <1>13. kept[1] = o
    <2>1. kept[1] = g[1]
      BY <1>10, <1>11, <1>12
    <2>2. g[1] = o
      BY <1>4, <1>8
    <2>3. QED
      BY <2>1, <2>2
  <1>14. \A x \in 1 .. n : kept[1 + x] = inner[x]
    <2> SUFFICES ASSUME NEW x \in 1 .. n PROVE kept[1 + x] = inner[x]
      OBVIOUS
    <2>1. 1 + x \in 1 .. Len(g)
      BY <1>11, <1>12
    <2>2. g[1 + x] = inner[x]
      BY <1>4, <1>8
    <2>3. QED
      BY <1>10, <2>1, <2>2
  <1>15. kept[n + 2] = EndDiv
    <2>1. kept[Len(g) + 1] = <<EndDiv>>[1]
      BY <1>5, <1>10
    <2>2. Len(g) + 1 = n + 2
      BY <1>11, <1>12
    <2>3. QED
      BY <1>5, <2>1, <2>2
  <1>16. QED
    BY <1>10, <1>12, <1>13, <1>14, <1>15 DEF o, n

\* What a scaffold keeps is found again.
LEMMA OriginalFound ==
  ASSUME NEW S, NEW f, NEW a, NEW s, NEW kept, NEW below, NEW b,
         NEW jsx \in BOOLEAN, InFile(S, f, a, s, kept, below, b, jsx),
         NEW inner \in Seq(S), Keeps(kept, s, inner), Even(inner, 1, Len(inner))
  PROVE  extractOriginal(f, s) = inner
  <1> DEFINE p == Len(a)
             n == Len(inner)
             q == p + Len(kept) + 3
             r == q + Len(below)
             c == <<s, 0>>
             u == IF jsx THEN p + 2 ELSE p + 1
             v == IF jsx THEN r + 1 ELSE r + 2
             i == p + 3
             j == q - 1
  <1>1. f \in Seq(S) /\ Parts(f, a, s, kept, below, b, jsx)
    BY InFileParts
  <1>p. Parts(f, a, s, kept, below, b, jsx)
    BY <1>1
  <1>q. Places(p, q, r, a, kept, below)
    BY DEF Places
  <1>2. Layout(f, a, s, kept, below, jsx, p, q, r)
    BY ONLY <1>p, <1>q, jsx \in BOOLEAN, FileLines
  <1>3. Block(f, s, u, v)
    <2> HIDE DEF p, q, r
    <2>1. findMarkerBlock(f, s) = [start |-> IF jsx THEN p + 2 ELSE p + 1,
                                   end   |-> IF jsx THEN r + 1 ELSE r + 2]
      BY ONLY <1>p, <1>q, jsx \in BOOLEAN, MarkersFound
    <2>2. QED
      BY <2>1 DEF Block
  <1>4. Writes(S, s)
    BY DEF InFile
  <1>5. /\ Len(kept) = n + 2
        /\ kept[1] = Line("original", c)
        /\ \A x \in 1 .. n : kept[1 + x] = inner[x]
        /\ kept[n + 2] = EndDiv
    BY <1>4, KeptLines
  <1>6. p \in Nat /\ n \in Nat /\ r \in Nat
        /\ Len(f) \in Nat /\ r + 2 <= Len(f) /\ q <= r
    BY <1>2, LenProperties DEF Layout
  <1>7. \A x \in 1 .. Len(kept) : f[p + 2 + x] = kept[x]
    BY <1>1 DEF Parts, Stands
  <1>8. q = p + n + 5 /\ p + n + 5 <= r
    BY <1>5, <1>6
  <1>9. f[p + 1] # Line("original", c) /\ f[p + 2] # Line("original", c)
    BY <1>2 DEF Layout, Line
  <1> HIDE DEF n, q, r
  <1>10. f[i] = Line("original", c)
    <2>1. p + 2 + 1 = i /\ 1 \in 1 .. Len(kept)
      BY <1>5, <1>6
    <2>2. QED
      BY <1>5, <1>7, <2>1
  <1>11. f[j] = EndDiv
    <2>1. p + 2 + (n + 2) = j /\ n + 2 \in 1 .. Len(kept)
      BY <1>5, <1>6, <1>8
    <2>2. QED
      BY <1>5, <1>7, <2>1
  <1>12. \A x \in 1 .. n : f[i + x] = inner[x]
    <2> SUFFICES ASSUME NEW x \in 1 .. n PROVE f[i + x] = inner[x]
      OBVIOUS
    <2>1. p + 2 + (1 + x) = i + x /\ 1 + x \in 1 .. Len(kept)
      BY <1>5, <1>6
    <2>2. QED
      BY <1>5, <1>7, <2>1
  <1>13. Even(f, i + 1, i + n)
    <2>1. Even(inner, 1, n)
      BY DEF n
    <2>2. i \in Int
      BY <1>6
    <2>3. n \in Nat
      BY <1>6
    <2>4. QED
      BY ONLY <1>12, <2>1, <2>2, <2>3, EvenShift
  <1>14. u \in Nat /\ v \in Nat /\ i \in u .. v - 1 /\ j \in Int /\ i < j
         /\ j <= Len(f) /\ j - 1 = i + n
    BY <1>6, <1>8
  <1>15. \A x \in u .. i - 1 : f[x] # Line("original", c)
    <2> SUFFICES ASSUME NEW x \in u .. i - 1 PROVE f[x] # Line("original", c)
      OBVIOUS
    <2>1. x = p + 1 \/ x = p + 2
      BY <1>6
    <2>2. QED
      BY <1>9, <2>1
  <1>16. Opens(f[i]) /\ Closes(f[j])
    BY <1>10, <1>11 DEF Opens, Closes, EndDiv, Line
  <1> HIDE DEF u, v, i, j
  <1>17. extractInner(f, s, "original", c) = SubSeq(f, i + 1, j - 1)
    <2>1. Tagged(f, "original", c, u, v, i, j)
      BY <1>6, <1>10, <1>13, <1>14, <1>15, <1>16 DEF Tagged
    <2>2. QED
      BY ONLY <1>3, <2>1, ExtractIs
  <1>18. SubSeq(f, i + 1, j - 1) = inner
    <2>1. f \in Seq(S)
      BY <1>1
    <2>2. i \in Nat
      BY <1>6 DEF i
    <2>3. i + Len(inner) <= Len(f)
      BY <1>6, <1>8 DEF i, n
    <2>4. \A x \in 1 .. Len(inner) : f[i + x] = inner[x]
      BY <1>12 DEF n
    <2>5. SubSeq(f, i + 1, i + Len(inner)) = inner
      BY ONLY <2>1, <2>2, <2>3, <2>4, inner \in Seq(S), MiddleIs
    <2>6. QED
      BY <2>5, <1>14 DEF n
  <1>19. QED
    BY <1>17, <1>18 DEF extractOriginal

\* Discarding puts back the copy in the scaffold's upper part.
LEMMA DiscardKept ==
  ASSUME NEW S, NEW f, NEW a, NEW s, NEW kept, NEW below, NEW b,
         NEW jsx \in BOOLEAN, InFile(S, f, a, s, kept, below, b, jsx),
         NEW inner \in Seq(S), Keeps(kept, s, inner), Even(inner, 1, Len(inner))
  PROVE  handleDiscard(f, s, jsx) = a \o inner \o b
  <1>1. extractOriginal(f, s) = inner
    BY OriginalFound
  <1>2. Swapped(f, s, jsx, inner) = a \o inner \o b
    BY ONLY InFile(S, f, a, s, kept, below, b, jsx), jsx \in BOOLEAN,
            inner \in Seq(S), ScaffoldReplaced
  <1>3. QED
    BY <1>1, <1>2 DEF handleDiscard, Swapped

\* The scaffold of an inserted element keeps nothing.
LEMMA DiscardNothing ==
  ASSUME NEW S, NEW f, NEW a, NEW s, NEW below, NEW b,
         NEW jsx \in BOOLEAN, InFile(S, f, a, s, <<>>, below, b, jsx),
         Foreign(below, s, {"original"})
  PROVE  handleDiscard(f, s, jsx) = a \o b
  <1> DEFINE z == <<>>
  <1>a. InFile(S, f, a, s, z, below, b, jsx) /\ z = <<>> /\ Len(z) = 0
    OBVIOUS
  <1> HIDE DEF z
  <1>b. InFile(S, f, a, s, z, below, b, jsx)
    BY <1>a
  <1> DEFINE p == Len(a)
             q == p + Len(z) + 3
             r == q + Len(below)
             c == <<s, 0>>
             u == IF jsx THEN p + 2 ELSE p + 1
             v == IF jsx THEN r + 1 ELSE r + 2
  <1>1. f \in Seq(S) /\ Parts(f, a, s, z, below, b, jsx)
    BY ONLY <1>b, jsx \in BOOLEAN, InFileParts
  <1>p. Parts(f, a, s, z, below, b, jsx)
    BY <1>1
  <1>q. Places(p, q, r, a, z, below)
    BY DEF Places
  <1>2. Layout(f, a, s, z, below, jsx, p, q, r)
    BY ONLY <1>p, <1>q, jsx \in BOOLEAN, FileLines
  <1>3. Block(f, s, u, v)
    <2> HIDE DEF p, q, r
    <2>1. findMarkerBlock(f, s) = [start |-> IF jsx THEN p + 2 ELSE p + 1,
                                   end   |-> IF jsx THEN r + 1 ELSE r + 2]
      BY ONLY <1>p, <1>q, jsx \in BOOLEAN, MarkersFound
    <2>2. QED
      BY <2>1 DEF Block
  <1>4. p \in Nat /\ q \in Nat /\ r \in Nat /\ q <= r /\ q = p + 3
    BY <1>2, <1>a DEF Layout
  <1>5. f[p + 1] # Line("original", c) /\ f[p + 2] # Line("original", c)
        /\ f[q] # Line("original", c) /\ f[r + 1] # Line("original", c)
        /\ f[r + 2] # Line("original", c)
    BY <1>2 DEF Layout, Line, EndDiv
  <1>6. \A x \in q + 1 .. r : f[x] # Line("original", c)
    <2> SUFFICES ASSUME NEW x \in q + 1 .. r PROVE f[x] # Line("original", c)
      OBVIOUS
    <2>1. x - q \in 1 .. Len(below) /\ f[x] = below[x - q]
      BY <1>2 DEF Layout
    <2>2. QED
      BY <2>1 DEF Foreign
  <1> HIDE DEF q, r
  <1>7. \A x \in u .. v : f[x] # Line("original", c)
    <2> SUFFICES ASSUME NEW x \in u .. v PROVE f[x] # Line("original", c)
      OBVIOUS
    <2>1. x = p + 1 \/ x = p + 2 \/ x = q \/ x \in q + 1 .. r \/ x = r + 1
          \/ x = r + 2
      BY <1>4
    <2>2. QED
      BY <2>1, <1>5, <1>6
  <1>8. u \in Nat /\ v \in Nat /\ u <= v
    BY <1>4
  <1> HIDE DEF u, v
  <1>9. extractInner(f, s, "original", c) = z
    <2>1. u \in Nat
      BY <1>8
    <2>2. v \in Nat
      BY <1>8
    <2>3. u <= v
      BY <1>8
    <2>4. QED
      BY ONLY <1>3, <1>7, <1>a, <2>1, <2>2, <2>3, ExtractNone
  <1>10. Swapped(f, s, jsx, z) = a \o z \o b
    <2>1. z \in Seq(S)
      BY <1>a, EmptySeq
    <2>2. QED
      BY ONLY <1>b, jsx \in BOOLEAN,
              <2>1, ScaffoldReplaced
  <1>11. a \o z = a
    BY <1>a, ConcatEmptySeq DEF InFile
  <1>12. QED
    BY <1>a, <1>9, <1>10, <1>11 DEF handleDiscard, extractOriginal, Swapped

-----------------------------------------------------------------------------
(* Wrapping.                                                               *)

\* No line of the file is of session s.
Free(f, s) == \A x \in 1 .. Len(f) : f[x].of[1] # s

LEMMA FreeForeign ==
  ASSUME NEW f, NEW s, Free(f, s), NEW g, NEW p \in Nat, Len(g) \in Nat,
         p + Len(g) <= Len(f), Len(f) \in Nat,
         \A x \in 1 .. Len(g) : f[p + x] = g[x]
  PROVE  Free(g, s) /\ \A K : Foreign(g, s, K)
  <1>1. ASSUME NEW x \in 1 .. Len(g) PROVE g[x].of[1] # s
    <2>1. p + x \in 1 .. Len(f) /\ f[p + x] = g[x]
      OBVIOUS
    <2>2. QED
      BY <2>1 DEF Free
  <1>2. \A k : Line(k, <<s, 0>>).of[1] = s
    BY DEF Line
  <1>3. ASSUME NEW K, NEW x \in 1 .. Len(g), NEW k \in K
        PROVE  g[x] # Line(k, <<s, 0>>)
    BY <1>1, <1>2
  <1>4. QED
    BY <1>1, <1>3 DEF Free, Foreign

\* A file is what stands above line i, lines i to j, and what stands below.
Cuts(f, i, j, a, m, b) ==
  /\ a = SubSeq(f, 1, i - 1) /\ m = SubSeq(f, i, j)
  /\ b = SubSeq(f, j + 1, Len(f))

InThree(S, f, i, j, a, m, b) ==
  /\ a \in Seq(S) /\ Len(a) = i - 1
  /\ \A x \in 1 .. i - 1 : f[x] = a[x]
  /\ m \in Seq(S) /\ Len(m) = j - i + 1
  /\ \A x \in 1 .. j - i + 1 : f[i - 1 + x] = m[x]
  /\ b \in Seq(S) /\ Len(b) = Len(f) - j
  /\ \A x \in 1 .. Len(f) - j : f[j + x] = b[x]
  /\ f = a \o m \o b

LEMMA Cut ==
  ASSUME NEW S, NEW f \in Seq(S), NEW i \in 1 .. Len(f) + 1,
         NEW j \in i - 1 .. Len(f), NEW a, NEW m, NEW b, Cuts(f, i, j, a, m, b)
  PROVE  InThree(S, f, i, j, a, m, b)
  <1> DEFINE l == Len(f)
  <1>0. a = SubSeq(f, 1, i - 1) /\ m = SubSeq(f, i, j) /\ b = SubSeq(f, j + 1, l)
    BY DEF Cuts
  <1>1. l \in Nat /\ i \in 1 .. l + 1 /\ j \in i - 1 .. l
    BY LenProperties
  <1>2. \A x \in 1 .. l : f[x] \in S
    BY ElementOfSeq
  <1>3. /\ a \in Seq(S) /\ Len(a) = i - 1
        /\ \A x \in 1 .. i - 1 : f[x] = a[x]
    <2> DEFINE k == i - 1
    <2>1. k \in Int /\ k = i - 1
      BY <1>1
    <2>2. \A x \in 1 .. k : f[x] \in S
      BY <1>1, <1>2
    <2> HIDE DEF k, l
    <2>3. /\ SubSeq(f, 1, k) \in Seq(S)
          /\ Len(SubSeq(f, 1, k)) = IF 1 <= k THEN k - 1 + 1 ELSE 0
          /\ \A x \in 1 .. k - 1 + 1 : SubSeq(f, 1, k)[x] = f[1 + x - 1]
      <3>1. k \in Int
        BY <2>1
      <3>2. QED
        BY ONLY <2>2, <3>1, 1 \in Int, SubSeqProperties
    <2>4. k - 1 + 1 = k /\ k >= 0
      BY <1>1, <2>1
    <2>5. \A x \in 1 .. k : f[x] = SubSeq(f, 1, k)[x]
      <3> SUFFICES ASSUME NEW x \in 1 .. k PROVE f[x] = SubSeq(f, 1, k)[x]
        OBVIOUS
      <3>1. 1 + x - 1 = x /\ x \in 1 .. k - 1 + 1
        BY <2>1
      <3>2. QED
        BY <2>3, <3>1
    <2>6. Len(SubSeq(f, 1, k)) = k
      BY <2>1, <2>3, <2>4
    <2>7. QED
      BY <1>0, <2>1, <2>3, <2>5, <2>6
  <1>4. /\ m \in Seq(S) /\ Len(m) = j - i + 1
        /\ \A x \in 1 .. j - i + 1 : f[i - 1 + x] = m[x]
    <2>1. \A x \in i .. j : f[x] \in S
      BY <1>1, <1>2
    <2>2. i \in Int
      BY <1>1
    <2>3. j \in Int
      BY <1>1
    <2> HIDE DEF l
    <2>4. /\ m \in Seq(S) /\ Len(m) = IF i <= j THEN j - i + 1 ELSE 0
          /\ \A x \in 1 .. j - i + 1 : m[x] = f[i + x - 1]
      <3> DEFINE w == SubSeq(f, i, j)
      <3>1. /\ w \in Seq(S) /\ Len(w) = IF i <= j THEN j - i + 1 ELSE 0
            /\ \A x \in 1 .. j - i + 1 : w[x] = f[i + x - 1]
        BY ONLY <2>1, <2>2, <2>3, SubSeqProperties
      <3>2. m = w
        BY <1>0
      <3> HIDE DEF w
      <3>3. QED
        BY <3>1, <3>2
    <2>5. \A x \in 1 .. j - i + 1 : f[i - 1 + x] = m[x]
      <3> SUFFICES ASSUME NEW x \in 1 .. j - i + 1 PROVE f[i - 1 + x] = m[x]
        OBVIOUS
      <3>1. i - 1 + x = i + x - 1
        BY <2>2
      <3>2. QED
        BY <2>4, <3>1
    <2>6. Len(m) = j - i + 1
      BY <1>1, <2>4
    <2>7. QED
      BY <2>4, <2>5, <2>6
  <1>5. /\ b \in Seq(S) /\ Len(b) = l - j
        /\ \A x \in 1 .. l - j : f[j + x] = b[x]
    <2> DEFINE k == j + 1
    <2>1. k \in Int /\ k = j + 1
      BY <1>1
    <2>2. \A x \in k .. l : f[x] \in S
      BY <1>1, <1>2
    <2> HIDE DEF k, l
    <2>3. /\ SubSeq(f, k, l) \in Seq(S)
          /\ Len(SubSeq(f, k, l)) = IF k <= l THEN l - k + 1 ELSE 0
          /\ \A x \in 1 .. l - k + 1 : SubSeq(f, k, l)[x] = f[k + x - 1]
      <3>1. k \in Int
        BY <2>1
      <3>2. l \in Int
        BY <1>1
      <3>3. QED
        BY ONLY <2>2, <3>1, <3>2, SubSeqProperties
    <2>5. \A x \in 1 .. l - j : f[j + x] = SubSeq(f, k, l)[x]
      <3> SUFFICES ASSUME NEW x \in 1 .. l - j PROVE f[j + x] = SubSeq(f, k, l)[x]
        OBVIOUS
      <3>1. k + x - 1 = j + x /\ x \in 1 .. l - k + 1
        BY <1>1, <2>1
      <3>2. QED
        BY <2>3, <3>1
    <2>6. Len(SubSeq(f, k, l)) = l - j
      BY <1>1, <2>1, <2>3
    <2>7. QED
      BY <1>0, <2>1, <2>3, <2>5, <2>6
  <1>6. f = a \o m \o b
    <2>1. a \in Seq(S)
      BY <1>3
    <2>2. m \in Seq(S)
      BY <1>4
    <2>3. b \in Seq(S)
      BY <1>5
    <2>4. 1 \in 1 .. l + 1 /\ i - 1 \in 0 .. l /\ j \in i - 1 .. l
      BY <1>1
    <2>5. a \o m = SubSeq(f, 1, j)
      <3>1. (i - 1) + 1 = i
        BY <1>1
      <3>2. SubSeq(f, 1, i - 1) \o SubSeq(f, (i - 1) + 1, j) = SubSeq(f, 1, j)
        BY <2>4, ConcatAdjacentSubSeq
      <3>3. QED
        BY <1>0, <3>1, <3>2
    <2>6. SubSeq(f, 1, j) \o b = SubSeq(f, 1, l)
      <3>1. 1 \in 1 .. Len(f) + 1
        BY <1>1
      <3>2. j \in 1 - 1 .. Len(f)
        BY <1>1
      <3>3. Len(f) \in j .. Len(f)
        BY <1>1
      <3>4. SubSeq(f, 1, j) \o SubSeq(f, j + 1, Len(f)) = SubSeq(f, 1, Len(f))
        BY ONLY <3>1, <3>2, <3>3, f \in Seq(S), ConcatAdjacentSubSeq
      <3>5. QED
        BY <1>0, <3>4
    <2>7. SubSeq(f, 1, l) = f
      BY SubSeqFull
    <2>8. QED
      BY <2>5, <2>6, <2>7
  <1>7. QED
    BY <1>3, <1>4, <1>5, <1>6 DEF InThree

Assoc(x, y, z) == (x \o y) \o z = x \o (y \o z)

LEMMA AssocIs ==
  ASSUME NEW S, NEW x \in Seq(S), NEW y \in Seq(S), NEW z \in Seq(S)
  PROVE  Assoc(x, y, z)
  BY ConcatAssociative DEF Assoc

\* Five pieces around a sixth, grouped as the scripts write them.
Regrouped(a, x, w, e, b) == a \o (x \o w \o e) \o b = (a \o x) \o w \o (e \o b)

LEMMA Regroup ==
  ASSUME NEW S, NEW a \in Seq(S), NEW x \in Seq(S), NEW w \in Seq(S),
         NEW e \in Seq(S), NEW b \in Seq(S)
  PROVE  Regrouped(a, x, w, e, b)
  <1> DEFINE xw == x \o w
             ax == a \o x
             axw == ax \o w
             eb == e \o b
  <1>1. xw \in Seq(S)
    BY ConcatProperties
  <1>2. ax \in Seq(S)
    BY ConcatProperties
  <1>3. axw \in Seq(S)
    <2> HIDE DEF ax
    <2>1. QED
      BY <1>2, ConcatProperties
  <1>4. Assoc(a, x, w)
    BY ONLY AssocIs, a \in Seq(S), x \in Seq(S), w \in Seq(S)
  <1>5. a \o xw = axw
    BY <1>4 DEF Assoc
  <1> HIDE DEF xw, axw
  <1>6. (a \o xw) \o e = a \o (xw \o e)
    <2>1. Assoc(a, xw, e)
      BY ONLY AssocIs, a \in Seq(S), <1>1, e \in Seq(S)
    <2>2. QED
      BY <2>1 DEF Assoc
  <1>7. (axw \o e) \o b = axw \o (e \o b)
    <2>1. Assoc(axw, e, b)
      BY ONLY AssocIs, b \in Seq(S), <1>3, e \in Seq(S)
    <2>2. QED
      BY <2>1 DEF Assoc
  <1>8. a \o (xw \o e) \o b = axw \o (e \o b)
    BY <1>5, <1>6, <1>7
  <1>9. QED
    BY <1>8 DEF xw, axw, Regrouped

LEMMA OneTwo ==
  ASSUME NEW S, NEW x \in S, NEW y \in S, NEW z \in S
  PROVE  <<x>> \o <<y, z>> = <<x, y, z>>
  <1> DEFINE u == <<x>>
             v == <<y, z>>
             w == <<x, y, z>>
             g == u \o v
  <1>1. u \in Seq(S) /\ Len(u) = 1 /\ u[1] = x
    OBVIOUS
  <1>2. v \in Seq(S) /\ Len(v) = 2 /\ v[1] = y /\ v[2] = z
    OBVIOUS
  <1>3. w \in Seq(S) /\ Len(w) = 3 /\ w[1] = x /\ w[2] = y /\ w[3] = z
    OBVIOUS
  <1>4. u \in Seq(S)
    BY <1>1
  <1>5. v \in Seq(S)
    BY <1>2
  <1> HIDE DEF u, v, w
  <1>6. /\ g \in Seq(S) /\ Len(g) = Len(u) + Len(v)
        /\ \A i \in 1 .. Len(u) : g[i] = u[i]
        /\ \A i \in 1 .. Len(v) : g[Len(u) + i] = v[i]
    BY ONLY <1>4, <1>5, Joined
  <1> HIDE DEF g
  <1>7. g \in Seq(S)
    BY <1>6
  <1>8. w \in Seq(S)
    BY <1>3
  <1>9. Len(g) = Len(w)
    BY <1>1, <1>2, <1>3, <1>6
  <1>10. g[1] = x /\ g[2] = y /\ g[3] = z
    <2>1. g[1] = u[1]
      BY <1>1, <1>6
    <2>2. g[1 + 1] = v[1] /\ g[1 + 2] = v[2]
      BY <1>1, <1>2, <1>6
    <2>3. QED
      BY <2>1, <2>2, <1>1, <1>2
  <1>11. \A i \in 1 .. Len(g) : g[i] = w[i]
    <2>1. \A i \in 1 .. Len(g) : i = 1 \/ i = 2 \/ i = 3
      BY <1>3, <1>9
    <2>2. QED
      BY <2>1, <1>3, <1>10
  <1>12. g = w
    BY ONLY <1>7, <1>8, <1>9, <1>11, SeqEqual
  <1>13. QED
    BY <1>12 DEF g, u, v, w

\* The scripts' lines are a scaffold with nothing below its slot.
LEMMA WrapperIsScaffold ==
  ASSUME NEW S, NEW s, Writes(S, s), NEW inside \in Seq(S), NEW jsx \in BOOLEAN
  PROVE  wrapperLines(s, inside, jsx) = Scaffold(s, inside, <<>>, jsx)
  <1> DEFINE t == Top(s, jsx)
             m == <<Line("slot", <<s, 0>>)>>
             e == Foot(s, jsx)
             g == t \o inside
             h == g \o m
  <1>1. t \in Seq(S) /\ e \in Seq(S) /\ m \in Seq(S)
    BY ScaffoldLines
  <1>2. g \in Seq(S)
    <2>1. t \in Seq(S)
      BY <1>1
    <2> HIDE DEF t
    <2>2. QED
      BY <2>1, ConcatProperties
  <1>3. h \in Seq(S)
    <2>1. m \in Seq(S)
      BY <1>1
    <2> HIDE DEF g, m
    <2>2. QED
      BY <2>1, <1>2, ConcatProperties
  <1>4. h \o <<>> = h
    <2> HIDE DEF h
    <2>1. QED
      BY <1>3, ConcatEmptySeq
  <1>5. Scaffold(s, inside, <<>>, jsx) = h \o e
    BY <1>4 DEF Scaffold
  <1>6. h \o e = g \o (m \o e)
    <2>1. m \in Seq(S)
      BY <1>1
    <2>2. e \in Seq(S)
      BY <1>1
    <2> HIDE DEF g, m, e
    <2>3. (g \o m) \o e = g \o (m \o e)
      BY ONLY <1>2, <2>1, <2>2, ConcatAssociative
    <2>4. QED
      BY <2>3
  <1>7. m \o e = IF jsx THEN <<Line("slot", <<s, 0>>), Line("end", <<s, 0>>), EndDiv>>
                        ELSE <<Line("slot", <<s, 0>>), EndDiv, Line("end", <<s, 0>>)>>
    <2> DEFINE sl == Line("slot", <<s, 0>>)
               en == Line("end", <<s, 0>>)
    <2>1. e = IF jsx THEN <<en, EndDiv>> ELSE <<EndDiv, en>>
      BY DEF Foot
    <2>2. m = <<sl>>
      OBVIOUS
    <2>a. sl \in S
      BY DEF Writes, Scaffolding
    <2>b. en \in S
      BY DEF Writes, Scaffolding
    <2>c. EndDiv \in S
      BY DEF Writes, Scaffolding
    <2> HIDE DEF sl, en, e, m
    <2>3. <<sl>> \o <<en, EndDiv>> = <<sl, en, EndDiv>>
      BY ONLY <2>a, <2>b, <2>c, OneTwo
    <2>4. <<sl>> \o <<EndDiv, en>> = <<sl, EndDiv, en>>
      BY ONLY <2>a, <2>b, <2>c, OneTwo
    <2>5. m \o e = IF jsx THEN <<sl, en, EndDiv>> ELSE <<sl, EndDiv, en>>
      BY <2>1, <2>2, <2>3, <2>4
    <2>6. QED
      BY <2>5 DEF sl, en
  <1>8. wrapperLines(s, inside, jsx) = g \o (m \o e)
    <2> DEFINE me == m \o e
    <2>1. me = IF jsx THEN <<Line("slot", <<s, 0>>), Line("end", <<s, 0>>), EndDiv>>
                      ELSE <<Line("slot", <<s, 0>>), EndDiv, Line("end", <<s, 0>>)>>
      BY <1>7
    <2> HIDE DEF me
    <2>2. wrapperLines(s, inside, jsx) = (t \o inside) \o me
      BY <2>1 DEF wrapperLines, Top
    <2>3. QED
      BY <2>2 DEF me
  <1>9. QED
    BY <1>5, <1>6, <1>8

\* Lines i to j are element c, which is closed in the file.
Found(f, c, i, j) ==
  /\ i = IndexOf(f, "element", c) /\ i # 0
  /\ j = closingLine(f, i) /\ j <= Len(f)

\* A file that is cut, its pieces without a line of session s.
Apart(S, f, s, i, j, a, m, b) ==
  /\ a \in Seq(S) /\ m \in Seq(S) /\ b \in Seq(S) /\ f = a \o m \o b
  /\ Len(a) = i - 1 /\ Len(m) = j - i + 1
  /\ \A x \in 1 .. Len(m) : f[i - 1 + x] = m[x]
  /\ Free(a, s) /\ Free(m, s) /\ Free(b, s)
  /\ \A K : Foreign(a, s, K) /\ Foreign(m, s, K) /\ Foreign(b, s, K)

LEMMA CutApart ==
  ASSUME NEW S, NEW f \in Seq(S), NEW s, Free(f, s),
         NEW i \in 1 .. Len(f) + 1, NEW j \in i - 1 .. Len(f),
         NEW a, NEW m, NEW b, Cuts(f, i, j, a, m, b)
  PROVE  Apart(S, f, s, i, j, a, m, b)
  <1>1. /\ a \in Seq(S) /\ Len(a) = i - 1
        /\ \A x \in 1 .. i - 1 : f[x] = a[x]
        /\ m \in Seq(S) /\ Len(m) = j - i + 1
        /\ \A x \in 1 .. j - i + 1 : f[i - 1 + x] = m[x]
        /\ b \in Seq(S) /\ Len(b) = Len(f) - j
        /\ \A x \in 1 .. Len(f) - j : f[j + x] = b[x]
        /\ f = a \o m \o b
    <2>1. InThree(S, f, i, j, a, m, b)
      BY ONLY Cut, f \in Seq(S), i \in 1 .. Len(f) + 1, j \in i - 1 .. Len(f),
              Cuts(f, i, j, a, m, b)
    <2>2. QED
      BY <2>1 DEF InThree
  <1>2. Len(f) \in Nat /\ i \in Int /\ j \in Int
    BY LenProperties
  <1>3. Free(a, s) /\ \A K : Foreign(a, s, K)
    <2>1. \A x \in 1 .. Len(a) : f[0 + x] = a[x]
      BY <1>1, <1>2
    <2>2. 0 + Len(a) <= Len(f) /\ Len(a) \in Nat
      BY <1>1, <1>2
    <2>3. QED
      BY <2>1, <2>2, <1>2, FreeForeign
  <1>4. Free(m, s) /\ \A K : Foreign(m, s, K)
    <2> DEFINE p == i - 1
    <2>1. \A x \in 1 .. Len(m) : f[p + x] = m[x]
      BY <1>1
    <2>2. p + Len(m) <= Len(f) /\ Len(m) \in Nat /\ p \in Nat
      BY <1>1, <1>2
    <2> HIDE DEF p
    <2>3. QED
      BY <2>1, <2>2, <1>2, FreeForeign
  <1>5. Free(b, s) /\ \A K : Foreign(b, s, K)
    <2>1. \A x \in 1 .. Len(b) : f[j + x] = b[x]
      BY <1>1
    <2>2. j + Len(b) <= Len(f) /\ Len(b) \in Nat /\ j \in Nat
      BY <1>1, <1>2
    <2>3. QED
      BY <2>1, <2>2, <1>2, FreeForeign
  <1>6. QED
    BY <1>1, <1>3, <1>4, <1>5 DEF Apart

\* An element is cut out of the file, and its tags balance.
LEMMA ElementApart ==
  ASSUME NEW S, NEW f \in Seq(S), NEW s, Free(f, s), NEW c, NEW i, NEW j,
         Found(f, c, i, j), NEW a, NEW m, NEW b, Cuts(f, i, j, a, m, b)
  PROVE  /\ i \in 1 .. Len(f) /\ j \in i + 1 .. Len(f)
         /\ Apart(S, f, s, i, j, a, m, b) /\ Even(m, 1, Len(m))
  <1>1. Len(f) \in Nat
    BY LenProperties
  <1>2. i \in 1 .. Len(f) /\ f[i] = Line("element", c)
    BY <1>1, IndexFound DEF Found
  <1>3. Opens(f[i])
    BY <1>2 DEF Opens, Line
  <1>4. j \in i + 1 .. Len(f) /\ Even(f, i, j)
    BY <1>1, <1>2, <1>3, ElementEven DEF Found
  <1>5. i \in 1 .. Len(f) + 1
    BY <1>1, <1>2
  <1>6. j \in i - 1 .. Len(f)
    BY <1>1, <1>2, <1>4
  <1>7. Apart(S, f, s, i, j, a, m, b)
    BY <1>5, <1>6, CutApart
  <1>8. Even(m, 1, Len(m))
    <2> DEFINE n == Len(m)
               p == i - 1
    <2>1. n \in Nat /\ n = j - i + 1 /\ p \in Int
      BY <1>1, <1>2, <1>4, <1>7 DEF Apart
    <2>2. \A x \in 1 .. n : f[p + x] = m[x]
      BY <1>7 DEF Apart
    <2> HIDE DEF n
    <2>3. p + 1 = i /\ p + n = j
      BY <1>2, <1>4, <2>1
    <2> HIDE DEF p
    <2>4. p \in Int
      BY <2>1
    <2>5. n \in Nat
      BY <2>1
    <2>6. \A y \in 0 .. n : Depth(f, p + 1, p + y) = Depth(m, 1, y)
      BY ONLY <2>2, <2>4, <2>5, DepthShift
    <2>7. Depth(m, 1, n) = 0
      BY <1>4, <2>3, <2>5, <2>6 DEF Even
    <2>8. \A x \in 1 .. n : Depth(m, 1, x) >= 0
      <3> SUFFICES ASSUME NEW x \in 1 .. n PROVE Depth(m, 1, x) >= 0
        OBVIOUS
      <3>1. Depth(f, p + 1, p + x) = Depth(m, 1, x)
        BY <2>5, <2>6
      <3>2. p + x \in i .. j
        BY <1>2, <1>4, <2>3, <2>4, <2>5
      <3>3. Depth(f, i, p + x) >= 0
        BY <1>4, <3>2 DEF Even
      <3>4. QED
        BY <2>3, <3>1, <3>3
    <2>9. QED
      BY <2>7, <2>8 DEF Even, n
  <1>9. QED
    BY <1>2, <1>4, <1>7, <1>8

\* The lines a scaffold keeps are told from its own, and balance.
LEMMA KeptApart ==
  ASSUME NEW S, NEW s, Writes(S, s), NEW inner \in Seq(S), NEW kept,
         Keeps(kept, s, inner), Even(inner, 1, Len(inner)),
         \A K : Foreign(inner, s, K)
  PROVE  /\ kept \in Seq(S) /\ Even(kept, 1, Len(kept))
         /\ \A K : "original" \notin K /\ "/div" \notin K => Foreign(kept, s, K)
  <1> DEFINE n == Len(inner)
  <1>1. n \in Nat
    BY LenProperties
  <1>2. /\ kept \in Seq(S) /\ Len(kept) = n + 2
        /\ kept[1] = Line("original", <<s, 0>>)
        /\ \A x \in 1 .. n : kept[1 + x] = inner[x]
        /\ kept[n + 2] = EndDiv
    BY KeptLines
  <1>3. Even(inner, 1, n) /\ \A K : Foreign(inner, s, K)
    OBVIOUS
  <1>4. \A K : \A x \in 1 .. n, k \in K : inner[x] # Line(k, <<s, 0>>)
    BY DEF Foreign
  <1> HIDE DEF n
  <1>5. Even(kept, 1, n + 2)
    <2>1. Even(kept, 1 + 1, 1 + n)
      <3>1. Even(inner, 1, n)
        BY <1>3
      <3>2. \A x \in 1 .. n : kept[1 + x] = inner[x]
        BY <1>2
      <3>3. QED
        BY ONLY <3>1, <3>2, <1>1, 1 \in Int, EvenShift
    <2> DEFINE h == n + 2
    <2>2. h \in Int /\ 1 < h /\ h - 1 = 1 + n
      BY <1>1
    <2>3. kept[h] = EndDiv
      BY <1>2
    <2> HIDE DEF h
    <2>4. Opens(kept[1]) /\ Closes(kept[h])
      BY <1>2, <2>3 DEF Opens, Closes, EndDiv, Line
    <2>5. Even(kept, 1 + 1, h - 1)
      BY <2>1, <2>2
    <2>6. Even(kept, 1, h)
      <3>1. h \in Int
        BY <2>2
      <3>2. 1 < h
        BY <2>2
      <3>3. Opens(kept[1])
        BY <2>4
      <3>4. Closes(kept[h])
        BY <2>4
      <3>5. QED
        BY ONLY <2>5, <3>1, <3>2, <3>3, <3>4, 1 \in Int, EvenTag
    <2>7. QED
      BY <2>6 DEF h
  <1>6. ASSUME NEW K, "original" \notin K, "/div" \notin K
        PROVE  Foreign(kept, s, K)
    <2> SUFFICES ASSUME NEW x \in 1 .. Len(kept), NEW k \in K
                 PROVE  kept[x] # Line(k, <<s, 0>>)
      BY DEF Foreign
    <2>1. k # "original" /\ k # "/div"
      BY <1>6
    <2>2. x = 1 \/ x = n + 2 \/ (x - 1 \in 1 .. n /\ 1 + (x - 1) = x)
      BY <1>1, <1>2
    <2>3. CASE x = 1
      BY <1>2, <2>1, <2>3 DEF Line
    <2>4. CASE x = n + 2
      BY <1>2, <2>1, <2>4 DEF Line, EndDiv
    <2>5. CASE x - 1 \in 1 .. n /\ 1 + (x - 1) = x
      <3>1. kept[x] = inner[x - 1]
        BY <1>2, <2>5
      <3>2. QED
        BY <1>4, <2>5, <3>1
    <2>6. QED
      BY <2>2, <2>3, <2>4, <2>5
  <1>7. QED
    BY <1>2, <1>5, <1>6

\* Nothing is foreign to a session, and balances.
LEMMA NothingApart ==
  ASSUME NEW S, NEW s
  PROVE  /\ <<>> \in Seq(S) /\ Even(<<>>, 1, Len(<<>>))
         /\ \A K : Foreign(<<>>, s, K)
  <1>1. <<>> \in Seq(S) /\ Len(<<>>) = 0
    BY EmptySeq
  <1>2. Even(<<>>, 1, 0)
    BY EvenEmpty
  <1>3. QED
    BY <1>1, <1>2 DEF Foreign

\* live-wrap: the element is in the scaffold, the rest of the file around it.
LEMMA WrapIs ==
  ASSUME NEW S, NEW f \in Seq(S), NEW s, Writes(S, s), Free(f, s), NEW c,
         NEW i, NEW j, Found(f, c, i, j), NEW a, NEW m, NEW b,
         Cuts(f, i, j, a, m, b), NEW kept, Keeps(kept, s, m), NEW jsx \in BOOLEAN
  PROVE  InFile(S, wrapCli(f, s, c, jsx), a, s, kept, <<>>, b, jsx)
  <1>1. /\ i \in 1 .. Len(f) /\ j \in i + 1 .. Len(f)
        /\ Apart(S, f, s, i, j, a, m, b) /\ Even(m, 1, Len(m))
    BY ElementApart
  <1>2. m \in Seq(S)
    BY <1>1 DEF Apart
  <1>3. Even(m, 1, Len(m))
    BY <1>1
  <1>4. \A K : Foreign(m, s, K)
    BY <1>1 DEF Apart
  <1>5. /\ kept \in Seq(S) /\ Even(kept, 1, Len(kept))
        /\ \A K : "original" \notin K /\ "/div" \notin K => Foreign(kept, s, K)
    BY ONLY <1>2, <1>3, <1>4, Writes(S, s), Keeps(kept, s, m), KeptApart
  <1>6. Foreign(kept, s, Frame)
    BY <1>5 DEF Frame
  <1>7. kept \in Seq(S)
    BY <1>5
  <1>8. wrapperLines(s, kept, jsx) = Scaffold(s, kept, <<>>, jsx)
    BY ONLY <1>7, Writes(S, s), jsx \in BOOLEAN, WrapperIsScaffold
  <1> DEFINE new == wrapperLines(s, kept, jsx)
  <1>9. wrapCli(f, s, c, jsx) = Replace(f, i, j, new)
    <2>1. i = IndexOf(f, "element", c) /\ j = closingLine(f, i)
      BY DEF Found
    <2>2. kept = <<Line("original", <<s, 0>>)>> \o SubSeq(f, i, j) \o <<EndDiv>>
      BY DEF Keeps, Cuts
    <2>3. QED
      BY <2>1, <2>2 DEF wrapCli
  <1> HIDE DEF new
  <1>10. Replace(f, i, j, new) = a \o new \o b
    BY DEF Cuts, Replace
  <1>11. wrapCli(f, s, c, jsx) = a \o Scaffold(s, kept, <<>>, jsx) \o b
    BY <1>8, <1>9, <1>10 DEF new
  <1>12. a \in Seq(S) /\ b \in Seq(S) /\ Foreign(a, s, Frame)
    BY <1>1 DEF Apart
  <1>13. <<>> \in Seq(S) /\ Even(<<>>, 1, Len(<<>>)) /\ Foreign(<<>>, s, Frame)
    BY NothingApart
  <1>14. QED
    BY <1>5, <1>6, <1>11, <1>12, <1>13 DEF InFile

InsertsAt(f, c, position, i, j) ==
  i = computeInsertLine(f, c, position) /\ j = i - 1

\* live-insert: the scaffold stands where the element is to go, and keeps
\* nothing.
Inserted(S, f, w, s, a, b, jsx) ==
  InFile(S, w, a, s, <<>>, <<>>, b, jsx) /\ f = a \o b

\* What live-insert makes of a file.
LEMMA InsertIs ==
  ASSUME NEW S, NEW f \in Seq(S), NEW s, Writes(S, s), Free(f, s), NEW c,
         NEW i \in 1 .. Len(f) + 1, NEW position, NEW j,
         InsertsAt(f, c, position, i, j), NEW a, NEW m, NEW b,
         Cuts(f, i, j, a, m, b), NEW jsx \in BOOLEAN
  PROVE  Inserted(S, f, insertCli(f, s, c, position, jsx), s, a, b, jsx)
  <1>1. j = i - 1 /\ j \in i - 1 .. Len(f)
    BY LenProperties DEF InsertsAt
  <1>2. Apart(S, f, s, i, j, a, m, b)
    <2>1. j \in i - 1 .. Len(f)
      BY <1>1
    <2>2. QED
      BY ONLY <2>1, Cuts(f, i, j, a, m, b), f \in Seq(S), Free(f, s),
              i \in 1 .. Len(f) + 1, CutApart
  <1>3. <<>> \in Seq(S) /\ Even(<<>>, 1, Len(<<>>)) /\ Foreign(<<>>, s, Frame)
    BY NothingApart
  <1> DEFINE z == <<>>
             new == wrapperLines(s, z, jsx)
  <1>4. z \in Seq(S)
    BY <1>3
  <1> HIDE DEF z
  <1>5. new = Scaffold(s, z, <<>>, jsx)
    BY ONLY <1>4, Writes(S, s), jsx \in BOOLEAN, WrapperIsScaffold
  <1>6. insertCli(f, s, c, position, jsx) = Replace(f, i, i - 1, new)
    BY DEF insertCli, z, InsertsAt
  <1> HIDE DEF new
  <1>7. insertCli(f, s, c, position, jsx) = a \o Scaffold(s, <<>>, <<>>, jsx) \o b
    BY <1>1, <1>5, <1>6 DEF z, Cuts, Replace
  <1>8. a \in Seq(S) /\ b \in Seq(S) /\ Foreign(a, s, Frame)
    BY <1>2 DEF Apart
  <1>9. InFile(S, insertCli(f, s, c, position, jsx), a, s, <<>>, <<>>, b, jsx)
    BY <1>3, <1>7, <1>8 DEF InFile
  <1>10. f = a \o b
    <2>1. f = a \o m \o b /\ Len(m) = j - i + 1 /\ m \in Seq(S)
      BY <1>2 DEF Apart
    <2>2. Len(m) = 0
      <3>1. i \in Int
        BY LenProperties
      <3>2. i - 1 - i + 1 = 0
        BY <3>1
      <3>3. QED
        BY <1>1, <2>1, <3>2
    <2>3. m = <<>>
      BY <2>1, <2>2, EmptySeq
    <2>4. a \o <<>> = a
      BY <1>8, ConcatEmptySeq
    <2>5. QED
      BY <2>1, <2>3, <2>4
  <1>11. QED
    BY <1>9, <1>10 DEF Inserted

-----------------------------------------------------------------------------
(* The agent's variants.                                                   *)

LEMMA SlotFound ==
  ASSUME NEW f, NEW a, NEW s, NEW kept, NEW below, NEW b, NEW jsx \in BOOLEAN,
         Parts(f, a, s, kept, below, b, jsx), NEW p, NEW q, NEW r,
         Places(p, q, r, a, kept, below)
  PROVE  IndexOf(f, "slot", <<s, 0>>) = q
  <1> DEFINE d == Line("slot", <<s, 0>>)
  <1>1. Layout(f, a, s, kept, below, jsx, p, q, r)
    BY FileLines
  <1>2. /\ p \in Nat /\ q \in Nat /\ r \in Nat /\ p + 3 <= q /\ q <= r
        /\ Len(f) \in Nat /\ r + 2 <= Len(f) /\ f[q] = d
        /\ \A x \in 1 .. p : x \in 1 .. Len(a) /\ f[x] = a[x]
        /\ \A x \in p + 3 .. q - 1 : x - (p + 2) \in 1 .. Len(kept)
                                     /\ f[x] = kept[x - (p + 2)]
    BY <1>1 DEF Layout
  <1>3. f[p + 1] # d /\ f[p + 2] # d
    BY <1>1 DEF Layout, Line
  <1>4. /\ \A x \in 1 .. Len(a) : a[x] # d
        /\ \A x \in 1 .. Len(kept) : kept[x] # d
    BY DEF Parts, Foreign, Frame
  <1> HIDE DEF d
  <1>5. \A x \in 1 .. q - 1 : f[x] # d
    <2> SUFFICES ASSUME NEW x \in 1 .. q - 1 PROVE f[x] # d
      OBVIOUS
    <2>1. x \in 1 .. p \/ x = p + 1 \/ x = p + 2 \/ x \in p + 3 .. q - 1
      BY <1>2
    <2>2. CASE x \in 1 .. p
      BY <1>2, <1>4, <2>2
    <2>3. CASE x \in p + 3 .. q - 1
      BY <1>2, <1>4, <2>3
    <2>4. QED
      BY <2>1, <2>2, <2>3, <1>3
  <1>6. QED
    <2>1. f[q] = Line("slot", <<s, 0>>)
      BY <1>2 DEF d
    <2>2. \A x \in 1 .. q - 1 : f[x] # Line("slot", <<s, 0>>)
      BY <1>5 DEF d
    <2>3. Len(f) \in Nat
      BY <1>2
    <2>4. q \in 1 .. Len(f)
      BY <1>2
    <2>5. QED
      BY ONLY <2>1, <2>2, <2>3, <2>4, IndexIs

\* The lines the agent writes.
Fill(s, css) ==
  LET one(v) == <<Line("variant", <<s, v>>)>> \o Markup(<<s, v>>) \o <<EndDiv>>
      sheet == IF css THEN <<Line("style", <<s, 0>>)>> ELSE <<>>
  IN  sheet \o FlattenSeq([v \in 1 .. N |-> one(v)])

\* What the agent makes of the file.
LEMMA FillsIs ==
  ASSUME NEW S, NEW f, NEW a, NEW s, NEW kept, NEW b, NEW jsx \in BOOLEAN,
         InFile(S, f, a, s, kept, <<>>, b, jsx), NEW css, NEW new,
         new = Fill(s, css), new \in Seq(S), Foreign(new, s, Frame),
         Even(new, 1, Len(new))
  PROVE  InFile(S, AgentFills(f, s, css), a, s, kept, new, b, jsx)
  <1> DEFINE z == <<>>
             t == Top(s, jsx)
             m == <<Line("slot", <<s, 0>>)>>
             e == Foot(s, jsx)
             x == (t \o kept) \o m
  <1>1. z = <<>> /\ Len(z) = 0 /\ z \in Seq(S)
    BY EmptySeq
  <1>3. /\ Writes(S, s) /\ a \in Seq(S) /\ kept \in Seq(S) /\ b \in Seq(S)
        /\ f = a \o Scaffold(s, kept, z, jsx) \o b
        /\ Foreign(a, s, Frame) /\ Foreign(kept, s, Frame)
        /\ Even(kept, 1, Len(kept))
    BY DEF InFile
  <1>4. InFile(S, f, a, s, kept, z, b, jsx)
    OBVIOUS
  <1> HIDE DEF z
  <1>5. Parts(f, a, s, kept, z, b, jsx)
    BY ONLY <1>4, jsx \in BOOLEAN, InFileParts
  <1>6. /\ t \in Seq(S) /\ Len(t) = 2 /\ e \in Seq(S) /\ m \in Seq(S)
        /\ Len(m) = 1
    BY <1>3, ScaffoldLines
  <1>7. Len(a) \in Nat /\ Len(kept) \in Nat
    BY <1>3, LenProperties
  <1> DEFINE p == Len(a)
             q == p + Len(kept) + 3
             r == q + Len(z)
  <1>8. Places(p, q, r, a, kept, z)
    BY DEF Places
  <1> HIDE DEF r
  <1>9. IndexOf(f, "slot", <<s, 0>>) = q
    <2> HIDE DEF p, q
    <2>1. QED
      BY ONLY <1>5, <1>8, jsx \in BOOLEAN, SlotFound
  <1>10. \A g : Scaffold(s, kept, g, jsx) = x \o g \o e
    BY DEF Scaffold
  <1>11. t \in Seq(S)
    BY <1>6
  <1>12. e \in Seq(S)
    BY <1>6
  <1>13. m \in Seq(S)
    BY <1>6
  <1> HIDE DEF t, m, e
  <1>14. x \in Seq(S) /\ Len(x) = Len(kept) + 3
    <2> DEFINE g == t \o kept
    <2>1. kept \in Seq(S)
      BY <1>3
    <2>2. g \in Seq(S) /\ Len(g) = Len(t) + Len(kept)
      BY ONLY <1>11, <2>1, Joined
    <2>3. g \in Seq(S)
      BY <2>2
    <2> HIDE DEF g
    <2>4. g \o m \in Seq(S) /\ Len(g \o m) = Len(g) + Len(m)
      BY ONLY <1>13, <2>3, Joined
    <2>5. Len(g \o m) = Len(kept) + 3
      BY <1>6, <1>7, <2>2, <2>4
    <2>6. QED
      BY <2>4, <2>5 DEF g
  <1>15. x \in Seq(S)
    BY <1>14
  <1>16. a \in Seq(S)
    BY <1>3
  <1>17. b \in Seq(S)
    BY <1>3
  <1>18. z \in Seq(S)
    BY <1>1
  <1> HIDE DEF x
  <1> DEFINE ax == a \o x
             eb == e \o b
  <1>19. ax \in Seq(S) /\ Len(ax) = Len(a) + Len(x)
    BY ONLY <1>15, <1>16, Joined
  <1>20. ax \in Seq(S)
    BY <1>19
  <1>21. eb \in Seq(S)
    BY ONLY <1>12, <1>17, Joined
  <1>22. a \o (x \o z \o e) \o b = ax \o z \o eb
    <2>1. Regrouped(a, x, z, e, b)
      BY ONLY <1>12, <1>15, <1>16, <1>17, <1>18, Regroup
    <2>2. QED
      BY <2>1 DEF Regrouped
  <1>23. a \o (x \o new \o e) \o b = ax \o new \o eb
    <2>1. Regrouped(a, x, new, e, b)
      BY ONLY <1>12, <1>15, <1>16, <1>17, new \in Seq(S), Regroup
    <2>2. QED
      BY <2>1 DEF Regrouped
  <1>24. Len(ax) = q
    BY <1>7, <1>14, <1>19
  <1> DEFINE i == q + 1
  <1>25. Spans(i, q, ax, z)
    BY <1>1, <1>7, <1>24 DEF Spans
  <1>26. Thirds(f, ax, z, eb)
    BY <1>3, <1>10, <1>22 DEF Thirds
  <1>27. AgentFills(f, s, css) = Replace(f, i, q, new)
    BY <1>9 DEF AgentFills, Fill
  <1> HIDE DEF ax, eb, i, q
  <1>28. Replaced(f, i, q, new, ax, eb)
    BY ONLY <1>18, <1>20, <1>21, <1>25, <1>26, ReplaceMiddle
  <1>29. AgentFills(f, s, css) = a \o Scaffold(s, kept, new, jsx) \o b
    BY <1>10, <1>23, <1>27, <1>28 DEF ax, eb, Replaced
  <1>30. QED
    BY <1>3, <1>29 DEF InFile

\* One variant's lines.
One(s, v) == <<Line("variant", <<s, v>>)>> \o Markup(<<s, v>>) \o <<EndDiv>>

LEMMA OneLines ==
  ASSUME NEW S, NEW s, Writes(S, s), NEW v \in 1 .. N
  PROVE  /\ One(s, v) \in Seq(S) /\ Len(One(s, v)) = 4
         /\ One(s, v)[1] = Line("variant", <<s, v>>)
         /\ One(s, v)[2] = Line("element", <<s, v>>)
         /\ One(s, v)[3] = EndDiv /\ One(s, v)[4] = EndDiv
         /\ Even(One(s, v), 1, 4)
  <1> DEFINE x == Line("variant", <<s, v>>)
             y == Line("element", <<s, v>>)
             g == <<x>> \o <<y, EndDiv>>
             h == g \o <<EndDiv>>
  <1>1. x \in S
    BY DEF Writes, Scaffolding
  <1>2. y \in S
    BY DEF Writes, Scaffolding
  <1>3. EndDiv \in S
    BY DEF Writes, Scaffolding
  <1>4. One(s, v) = h
    BY DEF One, Markup
  <1>5. Opens(x) /\ Opens(y) /\ Closes(EndDiv)
    BY DEF Opens, Closes, Line, EndDiv
  <1> HIDE DEF x, y
  <1>6. g = <<x, y, EndDiv>>
    BY ONLY <1>1, <1>2, <1>3, OneTwo
  <1>7. <<x, y, EndDiv>> \in Seq(S) /\ Len(<<x, y, EndDiv>>) = 3
        /\ <<x, y, EndDiv>>[1] = x /\ <<x, y, EndDiv>>[2] = y
        /\ <<x, y, EndDiv>>[3] = EndDiv
    BY <1>1, <1>2, <1>3
  <1>8. g \in Seq(S) /\ Len(g) = 3 /\ g[1] = x /\ g[2] = y /\ g[3] = EndDiv
    BY <1>6, <1>7
  <1>9. <<EndDiv>> \in Seq(S) /\ Len(<<EndDiv>>) = 1 /\ <<EndDiv>>[1] = EndDiv
    BY ONLY <1>3, Single
  <1>10. g \in Seq(S)
    BY <1>8
  <1>11. <<EndDiv>> \in Seq(S)
    BY <1>9
  <1> HIDE DEF g
  <1>12. /\ h \in Seq(S) /\ Len(h) = Len(g) + Len(<<EndDiv>>)
         /\ \A i \in 1 .. Len(g) : h[i] = g[i]
         /\ \A i \in 1 .. Len(<<EndDiv>>) : h[Len(g) + i] = <<EndDiv>>[i]
    BY ONLY <1>10, <1>11, Joined
  <1> HIDE DEF h
  <1>13. Len(h) = 4
    BY <1>8, <1>9, <1>12
  <1>14. h[1] = x /\ h[2] = y /\ h[3] = EndDiv
    BY <1>8, <1>12
  <1>15. h[4] = EndDiv
    <2>1. h[3 + 1] = <<EndDiv>>[1]
      BY <1>8, <1>9, <1>12
    <2>2. QED
      BY <2>1, <1>9
  <1>16. Even(h, 2, 3)
    <2>1. Even(h, 2 + 1, 3 - 1)
      BY EvenEmpty
    <2>2. Opens(h[2]) /\ Closes(h[3])
      BY <1>5, <1>14
    <2>3. QED
      BY <2>1, <2>2, EvenTag
  <1>17. Even(h, 1, 4)
    <2>1. Even(h, 1 + 1, 4 - 1)
      BY <1>16
    <2>2. Opens(h[1]) /\ Closes(h[4])
      BY <1>5, <1>14, <1>15
    <2>3. QED
      BY <2>1, <2>2, EvenTag
  <1>18. QED
    BY <1>4, <1>12, <1>13, <1>14, <1>15, <1>17 DEF x, y

\* The function that FlattenSeq folds with.
Flat(F, n, g) ==
  g = [i \in 1 .. n |-> IF i = 1 THEN F[i] ELSE g[i - 1] \o F[i]]

\* The function FlattenSeq is defined by exists for every sequence of sequences.
LEMMA FlatExists ==
  ASSUME NEW F
  PROVE  \A n \in Nat : \E g : Flat(F, n, g)
  <1> DEFINE S == {n \in Nat : \E g : Flat(F, n, g)}
  <1>1. 0 \in S
    <2> DEFINE g == [i \in 1 .. 0 |-> F[1]]
    <2>1. Flat(F, 0, g)
      BY DEF Flat
    <2>2. QED
      BY <2>1
  <1>2. ASSUME NEW n \in S PROVE n + 1 \in S
    <2>1. PICK g : Flat(F, n, g)
      OBVIOUS
    <2> DEFINE w == IF n = 0 THEN F[1] ELSE g[n] \o F[n + 1]
               h == [i \in 1 .. n + 1 |-> IF i = n + 1 THEN w ELSE g[i]]
    <2>2. \A i \in 1 .. n + 1 : h[i] = IF i = 1 THEN F[i] ELSE h[i - 1] \o F[i]
      <3> TAKE i \in 1 .. n + 1
      <3>1. CASE i = n + 1 /\ n = 0
        BY <3>1
      <3>2. CASE i = n + 1 /\ n # 0
        <4>1. h[n] = g[n] /\ n + 1 # 1 /\ (n + 1) - 1 = n
          BY <3>2
        <4>2. h[n + 1] = g[n] \o F[n + 1]
          BY <3>2
        <4> HIDE DEF h
        <4>3. QED
          BY <3>2, <4>1, <4>2
      <3>3. CASE i # n + 1 /\ i # 1
        <4>1. i \in 1 .. n /\ i - 1 \in 1 .. n /\ i - 1 # n + 1
          BY <3>3
        <4>2. h[i] = g[i] /\ h[i - 1] = g[i - 1]
          BY <4>1, <3>3
        <4>3. g[i] = g[i - 1] \o F[i]
          BY <2>1, <3>3, <4>1 DEF Flat
        <4> HIDE DEF h
        <4>4. QED
          BY <3>3, <4>2, <4>3
      <3>4. CASE i # n + 1 /\ i = 1
        <4>1. h[1] = g[1] /\ 1 \in 1 .. n
          BY <3>4
        <4>2. g[1] = F[1]
          BY <2>1, <4>1 DEF Flat
        <4> HIDE DEF h
        <4>3. QED
          BY <3>4, <4>1, <4>2
      <3>5. QED
        BY <3>1, <3>2, <3>3, <3>4
    <2>3. Flat(F, n + 1, h)
      <3>1. DOMAIN h = 1 .. n + 1 /\ h = [i \in DOMAIN h |-> h[i]]
        OBVIOUS
      <3> HIDE DEF h
      <3>2. QED
        BY <2>2, <3>1 DEF Flat
    <2>4. QED
      BY <2>3
  <1> HIDE DEF S
  <1>3. S = Nat
    BY ONLY <1>1, <1>2, SetInduction, S \in SUBSET Nat DEF S
  <1>4. QED
    BY <1>3 DEF S

LEMMA FlattenIs ==
  ASSUME NEW F, NEW n \in Nat, Len(F) = n, n # 0
  PROVE  \E g : Flat(F, n, g) /\ FlattenSeq(F) = g[n]
  <1> DEFINE g == CHOOSE h : h = [i \in 1 .. n |->
                                    IF i = 1 THEN F[i] ELSE h[i - 1] \o F[i]]
  <1>1. Flat(F, n, g)
    <2>1. \E h : Flat(F, n, h)
      BY FlatExists
    <2>2. QED
      BY <2>1 DEF Flat
  <1>2. FlattenSeq(F) = g[n]
    BY DEF FlattenSeq
  <1> HIDE DEF g
  <1>3. QED
    BY <1>1, <1>2

\* The lines of the first m variants, four of each.
Variants(S, W, s, m) ==
  /\ W \in Seq(S) /\ Len(W) = 4 * m /\ Even(W, 1, 4 * m)
  /\ \A v \in 1 .. m : /\ W[4 * v - 3] = Line("variant", <<s, v>>)
                       /\ W[4 * v - 2] = Line("element", <<s, v>>)
                       /\ W[4 * v - 1] = EndDiv /\ W[4 * v] = EndDiv
  /\ \A x \in 1 .. 4 * m : W[x].kind \in {"variant", "element", "/div"}
  /\ \A v \in 1 .. N, x \in 1 .. 4 * m :
       W[x] = Line("variant", <<s, v>>) => x = 4 * v - 3

LEMMA OneIsVariant ==
  ASSUME NEW S, NEW s, Writes(S, s), 1 \in 1 .. N
  PROVE  Variants(S, One(s, 1), s, 1)
  <1> DEFINE O == One(s, 1)
  <1>1. /\ O \in Seq(S) /\ Len(O) = 4
        /\ O[1] = Line("variant", <<s, 1>>) /\ O[2] = Line("element", <<s, 1>>)
        /\ O[3] = EndDiv /\ O[4] = EndDiv /\ Even(O, 1, 4)
    BY OneLines
  <1> HIDE DEF O
  <1>2. \A x \in 1 .. 4 : x = 1 \/ x = 2 \/ x = 3 \/ x = 4
    OBVIOUS
  <1>3. \A v \in 1 .. 1 : /\ O[4 * v - 3] = Line("variant", <<s, v>>)
                          /\ O[4 * v - 2] = Line("element", <<s, v>>)
                          /\ O[4 * v - 1] = EndDiv /\ O[4 * v] = EndDiv
    <2> SUFFICES ASSUME NEW v \in 1 .. 1
                 PROVE  /\ O[4 * v - 3] = Line("variant", <<s, v>>)
                        /\ O[4 * v - 2] = Line("element", <<s, v>>)
                        /\ O[4 * v - 1] = EndDiv /\ O[4 * v] = EndDiv
      OBVIOUS
    <2>1. v = 1 /\ 4 * v - 3 = 1 /\ 4 * v - 2 = 2 /\ 4 * v - 1 = 3 /\ 4 * v = 4
      OBVIOUS
    <2>2. QED
      BY <1>1, <2>1
  <1>4. \A x \in 1 .. 4 : O[x].kind \in {"variant", "element", "/div"}
    BY <1>1, <1>2 DEF Line, EndDiv
  <1>5. \A v \in 1 .. N, x \in 1 .. 4 :
          O[x] = Line("variant", <<s, v>>) => x = 4 * v - 3
    <2> SUFFICES ASSUME NEW v \in 1 .. N, NEW x \in 1 .. 4,
                        O[x] = Line("variant", <<s, v>>)
                 PROVE  x = 4 * v - 3
      OBVIOUS
    <2>1. O[x].kind = "variant" /\ O[x].of = <<s, v>>
      BY DEF Line
    <2>2. O[2].kind # "variant" /\ O[3].kind # "variant" /\ O[4].kind # "variant"
      BY <1>1 DEF Line, EndDiv
    <2>3. x = 1
      BY <1>2, <2>1, <2>2
    <2>4. O[1].of = <<s, 1>>
      BY <1>1 DEF Line
    <2>5. v = 1
      BY <2>1, <2>3, <2>4
    <2>6. QED
      BY <2>3, <2>5
  <1>6. 4 * 1 = 4
    OBVIOUS
  <1>7. QED
    BY <1>1, <1>3, <1>4, <1>5, <1>6 DEF Variants, O

LEMMA NextVariant ==
  ASSUME NEW S, NEW s, Writes(S, s), N \in Nat, NEW m \in Nat, m + 1 \in 1 .. N,
         NEW W, Variants(S, W, s, m)
  PROVE  Variants(S, W \o One(s, m + 1), s, m + 1)
  <1> DEFINE k == m + 1
             O == One(s, k)
             n == 4 * m
             g == W \o O
  <1>1. k \in 1 .. N /\ k = m + 1 /\ m \in Nat
    OBVIOUS
  <1>2. n \in Nat /\ 4 * k = n + 4 /\ n = 4 * m
    OBVIOUS
  <1> HIDE DEF k
  <1>3. /\ O \in Seq(S) /\ Len(O) = 4
        /\ O[1] = Line("variant", <<s, k>>) /\ O[2] = Line("element", <<s, k>>)
        /\ O[3] = EndDiv /\ O[4] = EndDiv /\ Even(O, 1, 4)
    BY <1>1, OneLines
  <1> HIDE DEF O
  <1>4. /\ W \in Seq(S) /\ Len(W) = n /\ Even(W, 1, n)
        /\ \A v \in 1 .. m : /\ W[4 * v - 3] = Line("variant", <<s, v>>)
                             /\ W[4 * v - 2] = Line("element", <<s, v>>)
                             /\ W[4 * v - 1] = EndDiv /\ W[4 * v] = EndDiv
        /\ \A x \in 1 .. n : W[x].kind \in {"variant", "element", "/div"}
        /\ \A v \in 1 .. N, x \in 1 .. n :
             W[x] = Line("variant", <<s, v>>) => x = 4 * v - 3
    BY DEF Variants
  <1>5. W \in Seq(S)
    BY <1>4
  <1>6. O \in Seq(S)
    BY <1>3
  <1>7. /\ g \in Seq(S) /\ Len(g) = Len(W) + Len(O)
        /\ \A x \in 1 .. Len(W) : g[x] = W[x]
        /\ \A x \in 1 .. Len(O) : g[Len(W) + x] = O[x]
    BY ONLY <1>5, <1>6, Joined
  <1> HIDE DEF g, n
  <1>8. /\ g \in Seq(S) /\ Len(g) = n + 4
        /\ \A x \in 1 .. n : g[x] = W[x]
        /\ \A x \in 1 .. 4 : g[n + x] = O[x]
    BY <1>2, <1>3, <1>4, <1>7
  <1>9. /\ g[n + 1] = Line("variant", <<s, k>>)
        /\ g[n + 2] = Line("element", <<s, k>>)
        /\ g[n + 3] = EndDiv /\ g[n + 4] = EndDiv
    BY <1>3, <1>8
  <1>10. Even(g, 1, n + 4)
    <2>1. Even(g, 0 + 1, 0 + n)
      <3>1. \A x \in 1 .. n : g[0 + x] = W[x]
        BY <1>8, <1>2
      <3>2. Even(W, 1, n)
        BY <1>4
      <3>3. n \in Nat
        BY <1>2
      <3>4. QED
        BY ONLY <3>1, <3>2, <3>3, 0 \in Int, EvenShift
    <2>2. Even(g, n + 1, n + 4)
      <3>1. \A x \in 1 .. 4 : g[n + x] = O[x]
        BY <1>8
      <3>2. Even(O, 1, 4)
        BY <1>3
      <3>3. n \in Int
        BY <1>2
      <3>4. QED
        BY ONLY <3>1, <3>2, <3>3, 4 \in Nat, EvenShift
    <2>3. Even(g, 1, n)
      BY <1>2, <2>1
    <2>4. n \in Int /\ n + 4 \in Int /\ 1 <= n + 1 /\ n <= n + 4
      BY <1>2
    <2>5. QED
      BY <2>2, <2>3, <2>4, EvenJoin
  <1>11. \A v \in 1 .. k : /\ g[4 * v - 3] = Line("variant", <<s, v>>)
                           /\ g[4 * v - 2] = Line("element", <<s, v>>)
                           /\ g[4 * v - 1] = EndDiv /\ g[4 * v] = EndDiv
    <2> SUFFICES ASSUME NEW v \in 1 .. k
                 PROVE  /\ g[4 * v - 3] = Line("variant", <<s, v>>)
                        /\ g[4 * v - 2] = Line("element", <<s, v>>)
                        /\ g[4 * v - 1] = EndDiv /\ g[4 * v] = EndDiv
      OBVIOUS
    <2>1. CASE v = k
      <3>1. 4 * v - 3 = n + 1 /\ 4 * v - 2 = n + 2 /\ 4 * v - 1 = n + 3
            /\ 4 * v = n + 4
        BY <1>2, <2>1
      <3>2. QED
        BY <1>9, <2>1, <3>1
    <2>2. CASE v # k
      <3>1. v \in 1 .. m
        BY <1>1, <2>2
      <3>2. 4 * v - 3 \in 1 .. n /\ 4 * v - 2 \in 1 .. n /\ 4 * v - 1 \in 1 .. n
            /\ 4 * v \in 1 .. n
        BY <1>2, <3>1
      <3>3. /\ g[4 * v - 3] = W[4 * v - 3] /\ g[4 * v - 2] = W[4 * v - 2]
            /\ g[4 * v - 1] = W[4 * v - 1] /\ g[4 * v] = W[4 * v]
        BY <1>8, <3>2
      <3>4. QED
        BY <1>4, <3>1, <3>3
    <2>3. QED
      BY <2>1, <2>2
  <1>12. \A x \in 1 .. n + 4 : x \in 1 .. n \/ x = n + 1 \/ x = n + 2
                               \/ x = n + 3 \/ x = n + 4
    BY <1>2
  <1>13. \A x \in 1 .. n + 4 : g[x].kind \in {"variant", "element", "/div"}
    <2> SUFFICES ASSUME NEW x \in 1 .. n + 4
                 PROVE  g[x].kind \in {"variant", "element", "/div"}
      OBVIOUS
    <2>1. CASE x \in 1 .. n
      BY <1>4, <1>8, <2>1
    <2>2. CASE x \notin 1 .. n
      BY <1>9, <1>12, <2>2 DEF Line, EndDiv
    <2>3. QED
      BY <2>1, <2>2
  <1>14. \A v \in 1 .. N, x \in 1 .. n + 4 :
           g[x] = Line("variant", <<s, v>>) => x = 4 * v - 3
    <2> SUFFICES ASSUME NEW v \in 1 .. N, NEW x \in 1 .. n + 4,
                        g[x] = Line("variant", <<s, v>>)
                 PROVE  x = 4 * v - 3
      OBVIOUS
    <2>1. CASE x \in 1 .. n
      BY <1>4, <1>8, <2>1
    <2>2. CASE x \notin 1 .. n
      <3>1. g[x].kind = "variant" /\ g[x].of = <<s, v>>
        BY DEF Line
      <3>2. g[n + 2].kind # "variant" /\ g[n + 3].kind # "variant"
            /\ g[n + 4].kind # "variant"
        BY <1>9 DEF Line, EndDiv
      <3>3. x = n + 1
        BY <1>12, <2>2, <3>1, <3>2
      <3>4. g[n + 1].of = <<s, k>>
        BY <1>9 DEF Line
      <3>5. v = k
        BY <3>1, <3>3, <3>4
      <3>6. QED
        BY <1>1, <1>2, <3>3, <3>5
    <2>3. QED
      BY <2>1, <2>2
  <1>15. Variants(S, g, s, k)
    BY <1>2, <1>8, <1>10, <1>11, <1>13, <1>14 DEF Variants
  <1>16. QED
    BY <1>15 DEF g, O, k

\* The variants the agent writes, line by line.
LEMMA VariantsAre ==
  ASSUME N \in Nat, N # 0, NEW S, NEW s, Writes(S, s)
  PROVE  Variants(S, FlattenSeq([v \in 1 .. N |-> One(s, v)]), s, N)
  <1> DEFINE F == [v \in 1 .. N |-> One(s, v)]
  <1>1. Len(F) = N
    OBVIOUS
  <1>2. \A v \in 1 .. N : F[v] = One(s, v)
    OBVIOUS
  <1> HIDE DEF F
  <1>3. PICK g : Flat(F, N, g) /\ FlattenSeq(F) = g[N]
    BY <1>1, FlattenIs
  <1> DEFINE P(n) == n + 1 <= N => Variants(S, g[n + 1], s, n + 1)
             T == {n \in Nat : P(n)}
  <1>4. 0 \in T
    <2>1. 1 \in 1 .. N
      OBVIOUS
    <2>2. g[1] = F[1]
      BY <1>3, <2>1 DEF Flat
    <2>3. g[1] = One(s, 1)
      BY <1>2, <2>1, <2>2
    <2>4. Variants(S, g[1], s, 1)
      BY <2>1, <2>3, OneIsVariant
    <2>5. QED
      BY <2>4
  <1>5. ASSUME NEW n \in T PROVE n + 1 \in T
    <2> DEFINE m == n + 1
    <2>1. m \in Nat /\ m = n + 1 /\ n \in Nat
      OBVIOUS
    <2>2. m <= N => Variants(S, g[m], s, m)
      OBVIOUS
    <2> SUFFICES ASSUME m + 1 <= N PROVE Variants(S, g[m + 1], s, m + 1)
      OBVIOUS
    <2> HIDE DEF m
    <2>3. m + 1 \in 1 .. N /\ m + 1 # 1 /\ (m + 1) - 1 = m
      BY <2>1
    <2>4. g[m + 1] = g[m] \o F[m + 1]
      BY <1>3, <2>3 DEF Flat
    <2>5. F[m + 1] = One(s, m + 1)
      BY <1>2, <2>3
    <2>6. Variants(S, g[m], s, m)
      BY <2>1, <2>2
    <2>7. Variants(S, g[m] \o One(s, m + 1), s, m + 1)
      <3>1. m \in Nat
        BY <2>1
      <3>2. m + 1 \in 1 .. N
        BY <2>3
      <3>3. QED
        BY ONLY <2>6, <3>1, <3>2, N \in Nat, Writes(S, s), NextVariant
    <2>8. QED
      BY <2>4, <2>5, <2>7
  <1> HIDE DEF T
  <1>6. T = Nat
    BY ONLY <1>4, <1>5, SetInduction, T \in SUBSET Nat DEF T
  <1>7. P(N - 1)
    BY <1>6, N - 1 \in Nat DEF T
  <1>8. Variants(S, g[N], s, N)
    <2>1. (N - 1) + 1 = N
      OBVIOUS
    <2>2. QED
      BY <1>7, <2>1
  <1>9. QED
    BY <1>3, <1>8 DEF F

\* What the agent writes: the sheet, if there is one, and the variants.
Sheet(css) == IF css THEN 1 ELSE 0

Filled(S, W, s, css) ==
  /\ W \in Seq(S) /\ Len(W) = Sheet(css) + 4 * N /\ Even(W, 1, Len(W))
  /\ css => W[1] = Line("style", <<s, 0>>)
  /\ \A v \in 1 .. N :
       /\ W[Sheet(css) + (4 * v - 3)] = Line("variant", <<s, v>>)
       /\ W[Sheet(css) + (4 * v - 2)] = Line("element", <<s, v>>)
       /\ W[Sheet(css) + (4 * v - 1)] = EndDiv /\ W[Sheet(css) + 4 * v] = EndDiv
  /\ \A x \in Sheet(css) + 1 .. Len(W) :
       W[x].kind \in {"variant", "element", "/div"}
  /\ \A v \in 1 .. N, x \in 1 .. Len(W) :
       W[x] = Line("variant", <<s, v>>) => x = Sheet(css) + (4 * v - 3)

\* What the agent writes has the lines Filled says.
LEMMA FillIs ==
  ASSUME N \in Nat, N # 0, NEW S, NEW s, Writes(S, s), NEW css \in BOOLEAN
  PROVE  Filled(S, Fill(s, css), s, css)
  <1> DEFINE V == FlattenSeq([v \in 1 .. N |-> One(s, v)])
             y == Line("style", <<s, 0>>)
             n == 4 * N
  <1>1. Variants(S, V, s, N)
    BY ONLY VariantsAre, N \in Nat, N # 0, Writes(S, s)
  <1>2. Fill(s, css) = (IF css THEN <<y>> ELSE <<>>) \o V
    BY DEF Fill, One
  <1>3. y \in S
    BY DEF Writes, Scaffolding
  <1> HIDE DEF V
  <1>4. /\ V \in Seq(S) /\ Len(V) = n /\ Even(V, 1, n)
        /\ \A v \in 1 .. N : /\ V[4 * v - 3] = Line("variant", <<s, v>>)
                             /\ V[4 * v - 2] = Line("element", <<s, v>>)
                             /\ V[4 * v - 1] = EndDiv /\ V[4 * v] = EndDiv
        /\ \A x \in 1 .. n : V[x].kind \in {"variant", "element", "/div"}
        /\ \A v \in 1 .. N, x \in 1 .. n :
             V[x] = Line("variant", <<s, v>>) => x = 4 * v - 3
    BY <1>1 DEF Variants
  <1>5. n \in Nat /\ n = 4 * N
    OBVIOUS
  <1>6. \A v \in 1 .. N : 4 * v - 3 \in 1 .. n /\ 4 * v - 2 \in 1 .. n
                          /\ 4 * v - 1 \in 1 .. n /\ 4 * v \in 1 .. n
    OBVIOUS
  <1> HIDE DEF n
  <1>7. V \in Seq(S)
    BY <1>4
  <1>8. CASE ~css
    <2>1. Fill(s, css) = V
      BY <1>2, <1>7, <1>8, ConcatEmptySeq
    <2>2. Sheet(css) = 0
      BY <1>8 DEF Sheet
    <2>3. \A v \in 1 .. N : /\ 0 + (4 * v - 3) = 4 * v - 3
                            /\ 0 + (4 * v - 2) = 4 * v - 2
                            /\ 0 + (4 * v - 1) = 4 * v - 1 /\ 0 + 4 * v = 4 * v
      OBVIOUS
    <2>4. 0 + 1 = 1 /\ 0 + 4 * N = n
      BY <1>5
    <2>5. \A v \in 1 .. N :
            /\ V[0 + (4 * v - 3)] = Line("variant", <<s, v>>)
            /\ V[0 + (4 * v - 2)] = Line("element", <<s, v>>)
            /\ V[0 + (4 * v - 1)] = EndDiv /\ V[0 + 4 * v] = EndDiv
      BY <1>4, <2>3
    <2>6. \A x \in 0 + 1 .. n : V[x].kind \in {"variant", "element", "/div"}
      BY <1>4, <2>4
    <2>7. \A v \in 1 .. N, x \in 1 .. n :
            V[x] = Line("variant", <<s, v>>) => x = 0 + (4 * v - 3)
      BY <1>4, <2>3
    <2>8. Filled(S, V, s, css)
      BY <1>4, <1>8, <2>2, <2>4, <2>5, <2>6, <2>7 DEF Filled
    <2>9. QED
      BY <2>1, <2>8
  <1>9. CASE css
    <2> DEFINE g == <<y>> \o V
    <2>1. Fill(s, css) = g
      BY <1>2, <1>9
    <2>2. Sheet(css) = 1
      BY <1>9 DEF Sheet
    <2>3. <<y>> \in Seq(S) /\ Len(<<y>>) = 1 /\ <<y>>[1] = y
      BY ONLY <1>3, Single
    <2>4. <<y>> \in Seq(S)
      BY <2>3
    <2>5. /\ g \in Seq(S) /\ Len(g) = Len(<<y>>) + Len(V)
          /\ \A x \in 1 .. Len(<<y>>) : g[x] = <<y>>[x]
          /\ \A x \in 1 .. Len(V) : g[Len(<<y>>) + x] = V[x]
      BY ONLY <1>7, <2>4, Joined
    <2> HIDE DEF g
    <2>6. g \in Seq(S) /\ Len(g) = 1 + n /\ g[1] = y
          /\ \A x \in 1 .. n : g[1 + x] = V[x]
      BY <1>4, <1>5, <2>3, <2>5
    <2>7. Height(y) = 0 /\ y.kind = "style"
      BY DEF Height, Opens, Closes, Line
    <2> HIDE DEF y
    <2>8. Even(g, 1, 1 + n)
      <3>1. Even(g, 1 + 1, 1 + n)
        <4>1. Even(V, 1, n)
          BY <1>4
        <4>2. \A x \in 1 .. n : g[1 + x] = V[x]
          BY <2>6
        <4>3. n \in Nat
          BY <1>5
        <4>4. QED
          BY ONLY <4>1, <4>2, <4>3, 1 \in Int, EvenShift
      <3>2. Even(g, 1, 1)
        BY <2>6, <2>7, EvenMark
      <3>3. 1 + n \in Int /\ 1 <= 1 + n /\ 1 <= 1 + 1
        BY <1>5
      <3>4. QED
        BY <3>1, <3>2, <3>3, EvenJoin
    <2>9. \A v \in 1 .. N :
            /\ g[1 + (4 * v - 3)] = Line("variant", <<s, v>>)
            /\ g[1 + (4 * v - 2)] = Line("element", <<s, v>>)
            /\ g[1 + (4 * v - 1)] = EndDiv /\ g[1 + 4 * v] = EndDiv
      BY <1>4, <1>6, <2>6
    <2>10. \A x \in 1 + 1 .. 1 + n : x - 1 \in 1 .. n /\ 1 + (x - 1) = x
      BY <1>5
    <2>11. \A x \in 1 + 1 .. 1 + n : g[x].kind \in {"variant", "element", "/div"}
      <3> SUFFICES ASSUME NEW x \in 1 + 1 .. 1 + n
                   PROVE  g[x].kind \in {"variant", "element", "/div"}
        OBVIOUS
      <3>1. g[1 + (x - 1)] = V[x - 1] /\ x - 1 \in 1 .. n /\ 1 + (x - 1) = x
        BY <2>6, <2>10
      <3>2. QED
        BY <1>4, <3>1
    <2>12. \A v \in 1 .. N, x \in 1 .. 1 + n :
             g[x] = Line("variant", <<s, v>>) => x = 1 + (4 * v - 3)
      <3> SUFFICES ASSUME NEW v \in 1 .. N, NEW x \in 1 .. 1 + n,
                          g[x] = Line("variant", <<s, v>>)
                   PROVE  x = 1 + (4 * v - 3)
        OBVIOUS
      <3>1. g[x].kind = "variant"
        BY DEF Line
      <3>2. x # 1
        BY <3>1, <2>6, <2>7
      <3>3. x \in 1 + 1 .. 1 + n
        BY <1>5, <3>2
      <3>4. g[1 + (x - 1)] = V[x - 1] /\ x - 1 \in 1 .. n /\ 1 + (x - 1) = x
        BY <2>6, <2>10, <3>3
      <3>5. x - 1 = 4 * v - 3
        BY <1>4, <3>4
      <3>6. QED
        BY <3>3, <3>5
    <2>13. Filled(S, g, s, css)
      <3>1. Len(g) = 1 + 4 * N
        BY <1>5, <2>6
      <3>2. Even(g, 1, Len(g)) /\ g[1] = Line("style", <<s, 0>>)
        BY <2>6, <2>8 DEF y
      <3>3. \A x \in 1 + 1 .. Len(g) : g[x].kind \in {"variant", "element", "/div"}
        BY <2>6, <2>11
      <3>4. \A v \in 1 .. N, x \in 1 .. Len(g) :
              g[x] = Line("variant", <<s, v>>) => x = 1 + (4 * v - 3)
        BY <2>6, <2>12
      <3>5. QED
        BY <2>2, <2>6, <2>9, <3>1, <3>2, <3>3, <3>4 DEF Filled
    <2>14. QED
      BY <2>1, <2>13
  <1>10. QED
    BY <1>8, <1>9

\* None of the lines the agent writes is a marker, or the original.
LEMMA FilledApart ==
  ASSUME N \in Nat, NEW S, NEW W, NEW s, NEW css \in BOOLEAN,
         Filled(S, W, s, css), NEW K,
         "style" \notin K, "variant" \notin K, "element" \notin K, "/div" \notin K
  PROVE  Foreign(W, s, K)
  <1>1. /\ Len(W) = Sheet(css) + 4 * N /\ Sheet(css) \in {0, 1}
        /\ css => W[1] = Line("style", <<s, 0>>)
        /\ Sheet(css) = 1 => css
        /\ \A x \in Sheet(css) + 1 .. Len(W) :
             W[x].kind \in {"variant", "element", "/div"}
    BY DEF Filled, Sheet
  <1> SUFFICES ASSUME NEW x \in 1 .. Len(W), NEW k \in K
               PROVE  W[x] # Line(k, <<s, 0>>)
    BY DEF Foreign
  <1>2. Line(k, <<s, 0>>).kind = k
    BY DEF Line
  <1>3. x \in Sheet(css) + 1 .. Len(W) \/ (css /\ x = 1)
    BY <1>1
  <1>4. CASE x \in Sheet(css) + 1 .. Len(W)
    BY <1>1, <1>2, <1>4
  <1>5. CASE css /\ x = 1
    <2>1. W[x].kind = "style"
      BY <1>1, <1>5 DEF Line
    <2>2. QED
      BY <1>2, <2>1
  <1>6. QED
    BY <1>3, <1>4, <1>5

\* The file's lines and those of the session.
LEMMA WithSession ==
  ASSUME NEW S, NEW f \in Seq(S), NEW s
  PROVE  f \in Seq(S \cup Scaffolding(s)) /\ Writes(S \cup Scaffolding(s), s)
  <1> DEFINE T == S \cup Scaffolding(s)
  <1>1. S \subseteq T /\ Scaffolding(s) \subseteq T
    OBVIOUS
  <1> HIDE DEF T
  <1>2. f \in Seq(T)
    BY <1>1, SeqMonotonic
  <1>3. Writes(T, s)
    BY <1>1 DEF Writes
  <1>4. QED
    BY <1>2, <1>3 DEF T

\* live-accept --discard: whatever the file holds, discarding a session whose
\* element was wrapped gives the file back line for line, before the agent has
\* written its variants and after.
THEOREM DiscardUndoesWrap ==
  ASSUME N \in Nat, N # 0, NEW L, NEW f \in Seq(L), NEW s, Free(f, s), NEW c,
         IndexOf(f, "element", c) # 0,
         closingLine(f, IndexOf(f, "element", c)) <= Len(f),
         NEW jsx \in BOOLEAN, NEW css \in BOOLEAN
  PROVE  LET w == wrapCli(f, s, c, jsx)
         IN  /\ handleDiscard(w, s, jsx) = f
             /\ handleDiscard(AgentFills(w, s, css), s, jsx) = f
  <1> DEFINE S == L \cup Scaffolding(s)
             i == IndexOf(f, "element", c)
             j == closingLine(f, i)
             a == SubSeq(f, 1, i - 1)
             m == SubSeq(f, i, j)
             b == SubSeq(f, j + 1, Len(f))
             kept == <<Line("original", <<s, 0>>)>> \o m \o <<EndDiv>>
             w == wrapCli(f, s, c, jsx)
             W == Fill(s, css)
  <1>1. f \in Seq(S) /\ Writes(S, s)
    BY WithSession
  <1> HIDE DEF S
  <1>2. Found(f, c, i, j)
    BY DEF Found
  <1>3. Cuts(f, i, j, a, m, b)
    BY DEF Cuts
  <1>4. Keeps(kept, s, m)
    BY DEF Keeps
  <1> HIDE DEF i, j, a, m, b, kept, w, W
  <1>5. f \in Seq(S)
    BY <1>1
  <1>6. Writes(S, s)
    BY <1>1
  <1>7. Apart(S, f, s, i, j, a, m, b) /\ Even(m, 1, Len(m))
    BY ONLY <1>2, <1>3, <1>5, Free(f, s), ElementApart
  <1>8. m \in Seq(S) /\ f = a \o m \o b
    BY <1>7 DEF Apart
  <1>9. InFile(S, w, a, s, kept, <<>>, b, jsx)
    <2>1. InFile(S, wrapCli(f, s, c, jsx), a, s, kept, <<>>, b, jsx)
      BY ONLY <1>2, <1>3, <1>4, <1>5, <1>6, Free(f, s), jsx \in BOOLEAN, WrapIs
    <2>2. QED
      BY <2>1 DEF w
  <1>10. m \in Seq(S)
    BY <1>8
  <1>11. Even(m, 1, Len(m))
    BY <1>7
  <1>12. handleDiscard(w, s, jsx) = f
    <2> DEFINE z == <<>>
    <2>1. InFile(S, w, a, s, kept, z, b, jsx)
      BY <1>9
    <2> HIDE DEF z
    <2>2. handleDiscard(w, s, jsx) = a \o m \o b
      BY ONLY <2>1, <1>4, <1>10, <1>11, jsx \in BOOLEAN, DiscardKept
    <2>3. QED
      BY <1>8, <2>2
  <1>13. handleDiscard(AgentFills(w, s, css), s, jsx) = f
    <2> DEFINE g == AgentFills(w, s, css)
    <2>1. Filled(S, Fill(s, css), s, css)
      BY ONLY FillIs, N \in Nat, N # 0, <1>6, css \in BOOLEAN
    <2>2. Filled(S, W, s, css)
      BY <2>1 DEF W
    <2>3. W \in Seq(S) /\ Even(W, 1, Len(W))
      BY <2>2 DEF Filled
    <2>4. Foreign(W, s, Frame)
      BY <2>2, FilledApart DEF Frame
    <2>5. W \in Seq(S)
      BY <2>3
    <2>6. Even(W, 1, Len(W))
      BY <2>3
    <2>7. W = Fill(s, css)
      BY DEF W
    <2>8. InFile(S, AgentFills(w, s, css), a, s, kept, W, b, jsx)
      BY ONLY <1>9, <2>4, <2>5, <2>6, <2>7, jsx \in BOOLEAN, FillsIs
    <2> HIDE DEF g
    <2>9. InFile(S, g, a, s, kept, W, b, jsx)
      BY <2>8 DEF g
    <2>10. handleDiscard(g, s, jsx) = a \o m \o b
      BY ONLY <2>9, <1>4, <1>10, <1>11, jsx \in BOOLEAN, DiscardKept
    <2>11. QED
      BY <1>8, <2>10 DEF g
  <1>14. QED
    BY <1>12, <1>13 DEF w

\* Where live-insert puts its scaffold is a line of the file, or the line
\* after its last.
LEMMA InsertLine ==
  ASSUME NEW S, NEW f \in Seq(S), NEW c, IndexOf(f, "element", c) # 0,
         closingLine(f, IndexOf(f, "element", c)) <= Len(f), NEW position
  PROVE  computeInsertLine(f, c, position) \in 1 .. Len(f) + 1
  <1> DEFINE i == IndexOf(f, "element", c)
  <1>1. Len(f) \in Nat
    BY LenProperties
  <1>2. i \in 1 .. Len(f) /\ f[i] = Line("element", c)
    BY <1>1, IndexFound
  <1>3. Opens(f[i])
    BY <1>2 DEF Opens, Line
  <1>4. closingLine(f, i) \in i + 1 .. Len(f)
    BY <1>1, <1>2, <1>3, ElementEven
  <1>5. computeInsertLine(f, c, position)
          = IF position = "before" THEN i ELSE closingLine(f, i) + 1
    BY DEF computeInsertLine
  <1> DEFINE j == closingLine(f, i)
             l == Len(f)
  <1> HIDE DEF i, j, l
  <1>6. i \in 1 .. l /\ j \in i + 1 .. l /\ l \in Nat
    BY <1>1, <1>2, <1>4 DEF j, l
  <1>7. i \in 1 .. l + 1 /\ j + 1 \in 1 .. l + 1
    BY <1>6
  <1>8. QED
    BY <1>5, <1>7 DEF j, l

\* live-accept --discard of an insertion: the file is as it was before the
\* scaffold was put into it, with variants or without.
THEOREM DiscardUndoesInsert ==
  ASSUME N \in Nat, N # 0, NEW L, NEW f \in Seq(L), NEW s, Free(f, s), NEW c,
         IndexOf(f, "element", c) # 0,
         closingLine(f, IndexOf(f, "element", c)) <= Len(f), NEW position,
         NEW jsx \in BOOLEAN, NEW css \in BOOLEAN
  PROVE  LET w == insertCli(f, s, c, position, jsx)
         IN  /\ handleDiscard(w, s, jsx) = f
             /\ handleDiscard(AgentFills(w, s, css), s, jsx) = f
  <1> DEFINE S == L \cup Scaffolding(s)
             i == computeInsertLine(f, c, position)
             j == i - 1
             a == SubSeq(f, 1, i - 1)
             m == SubSeq(f, i, j)
             b == SubSeq(f, j + 1, Len(f))
             w == insertCli(f, s, c, position, jsx)
             W == Fill(s, css)
             z == <<>>
  <1>1. f \in Seq(S) /\ Writes(S, s)
    BY WithSession
  <1> HIDE DEF S
  <1>2. i \in 1 .. Len(f) + 1
    BY InsertLine
  <1>3. Cuts(f, i, j, a, m, b)
    BY DEF Cuts
  <1>4. z = <<>> /\ Len(z) = 0
    OBVIOUS
  <1>7. InsertsAt(f, c, position, i, j)
    BY DEF InsertsAt
  <1> HIDE DEF i, j, a, m, b, w, W, z
  <1>5. f \in Seq(S)
    BY <1>1
  <1>6. Writes(S, s)
    BY <1>1
  <1>8. Inserted(S, f, insertCli(f, s, c, position, jsx), s, a, b, jsx)
    BY ONLY <1>2, <1>3, <1>5, <1>6, <1>7, Free(f, s), jsx \in BOOLEAN, InsertIs
  <1>9. InFile(S, w, a, s, <<>>, <<>>, b, jsx) /\ f = a \o b
    BY <1>8 DEF w, Inserted
  <1>10. handleDiscard(w, s, jsx) = f
    <2>1. InFile(S, w, a, s, <<>>, z, b, jsx)
      BY <1>9, <1>4
    <2>2. Foreign(z, s, {"original"})
      BY <1>4 DEF Foreign
    <2>3. handleDiscard(w, s, jsx) = a \o b
      BY ONLY <2>1, <2>2, jsx \in BOOLEAN, DiscardNothing
    <2>4. QED
      BY <1>9, <2>3
  <1>11. handleDiscard(AgentFills(w, s, css), s, jsx) = f
    <2> DEFINE g == AgentFills(w, s, css)
    <2>1. Filled(S, Fill(s, css), s, css)
      BY ONLY FillIs, N \in Nat, N # 0, <1>6, css \in BOOLEAN
    <2>2. Filled(S, W, s, css)
      BY <2>1 DEF W
    <2>3. W \in Seq(S) /\ Even(W, 1, Len(W))
      BY <2>2 DEF Filled
    <2>4. Foreign(W, s, Frame)
      BY <2>2, FilledApart DEF Frame
    <2>5. W \in Seq(S)
      BY <2>3
    <2>6. Even(W, 1, Len(W))
      BY <2>3
    <2>7. W = Fill(s, css)
      BY DEF W
    <2>8. InFile(S, w, a, s, z, <<>>, b, jsx)
      BY <1>9, <1>4
    <2>9. InFile(S, AgentFills(w, s, css), a, s, z, W, b, jsx)
      BY ONLY <2>8, <2>4, <2>5, <2>6, <2>7, jsx \in BOOLEAN, FillsIs
    <2> HIDE DEF g
    <2>10. InFile(S, g, a, s, <<>>, W, b, jsx)
      BY <1>4, <2>9 DEF g
    <2>11. Foreign(W, s, {"original"})
      BY <2>2, FilledApart
    <2>12. handleDiscard(g, s, jsx) = a \o b
      BY ONLY <2>10, <2>11, jsx \in BOOLEAN, DiscardNothing
    <2>13. QED
      BY <1>9, <2>12 DEF g
  <1>12. QED
    BY <1>10, <1>11 DEF w

-----------------------------------------------------------------------------
(* Accepting.                                                              *)

\* Where the markers and the lines of a file with a scaffold are.
Marked(S, f, a, s, kept, below, jsx, p, q, r, u, v) ==
  /\ f \in Seq(S) /\ Block(f, s, u, v)
  /\ Layout(f, a, s, kept, below, jsx, p, q, r)
  /\ u = (IF jsx THEN p + 2 ELSE p + 1) /\ v = (IF jsx THEN r + 1 ELSE r + 2)
  /\ p = Len(a) /\ q = p + Len(kept) + 3 /\ r = q + Len(below)
  /\ \A x \in 1 .. Len(below) : f[q + x] = below[x]

LEMMA MarkedIs ==
  ASSUME NEW S, NEW f, NEW a, NEW s, NEW kept, NEW below, NEW b,
         NEW jsx \in BOOLEAN, InFile(S, f, a, s, kept, below, b, jsx)
  PROVE  \E p, q, r, u, v : Marked(S, f, a, s, kept, below, jsx, p, q, r, u, v)
  <1> DEFINE p == Len(a)
             q == p + Len(kept) + 3
             r == q + Len(below)
             u == IF jsx THEN p + 2 ELSE p + 1
             v == IF jsx THEN r + 1 ELSE r + 2
  <1>1. f \in Seq(S) /\ Parts(f, a, s, kept, below, b, jsx)
    BY InFileParts
  <1>2. Parts(f, a, s, kept, below, b, jsx)
    BY <1>1
  <1>3. Places(p, q, r, a, kept, below)
    BY DEF Places
  <1>4. Layout(f, a, s, kept, below, jsx, p, q, r)
    BY ONLY <1>2, <1>3, jsx \in BOOLEAN, FileLines
  <1>5. Block(f, s, u, v)
    <2> HIDE DEF p, q, r
    <2>1. findMarkerBlock(f, s) = [start |-> IF jsx THEN p + 2 ELSE p + 1,
                                   end   |-> IF jsx THEN r + 1 ELSE r + 2]
      BY ONLY <1>2, <1>3, jsx \in BOOLEAN, MarkersFound
    <2>2. QED
      BY <2>1 DEF Block
  <1>6. \A x \in 1 .. Len(below) : f[q + x] = below[x]
    BY <1>2 DEF Parts, Stands
  <1>7. Marked(S, f, a, s, kept, below, jsx, p, q, r, u, v)
    BY <1>1, <1>4, <1>5, <1>6 DEF Marked
  <1> HIDE DEF p, q, r, u, v
  <1>8. QED
    BY <1>7

\* The script extracts the accepted variant and no other.
LEMMA VariantFound ==
  ASSUME N \in Nat, NEW S, NEW f, NEW a, NEW s, NEW kept, NEW W, NEW b,
         NEW jsx \in BOOLEAN, InFile(S, f, a, s, kept, W, b, jsx),
         NEW css \in BOOLEAN, Filled(S, W, s, css), NEW n \in 1 .. N,
         \A x \in 1 .. Len(kept) : kept[x] # Line("variant", <<s, n>>)
  PROVE  extractVariant(f, s, n) = Markup(<<s, n>>)
  <1> DEFINE d == Sheet(css)
             c == <<s, n>>
             t == Line("variant", c)
  <1>1. PICK p, q, r, u, v : Marked(S, f, a, s, kept, W, jsx, p, q, r, u, v)
    BY MarkedIs
  <1>2. /\ f \in Seq(S) /\ Block(f, s, u, v)
        /\ Layout(f, a, s, kept, W, jsx, p, q, r)
        /\ u = (IF jsx THEN p + 2 ELSE p + 1) /\ v = (IF jsx THEN r + 1 ELSE r + 2)
        /\ r = q + Len(W) /\ \A x \in 1 .. Len(W) : f[q + x] = W[x]
    BY <1>1 DEF Marked
  <1>3. /\ p \in Nat /\ q \in Nat /\ r \in Nat /\ p + 3 <= q /\ q <= r
        /\ Len(f) \in Nat /\ r + 2 <= Len(f)
        /\ \A x \in p + 3 .. q - 1 : x - (p + 2) \in 1 .. Len(kept)
                                     /\ f[x] = kept[x - (p + 2)]
    BY <1>2 DEF Layout
  <1>4. f[p + 1] # t /\ f[p + 2] # t /\ f[q] # t
    BY <1>2 DEF Layout, Line
  <1>5. /\ Len(W) = d + 4 * N
        /\ W[d + (4 * n - 3)] = t
        /\ W[d + (4 * n - 2)] = Line("element", c)
        /\ W[d + (4 * n - 1)] = EndDiv /\ W[d + 4 * n] = EndDiv
        /\ \A x \in 1 .. Len(W) : W[x] = t => x = d + (4 * n - 3)
    BY DEF Filled
  <1>6. d \in {0, 1}
    BY DEF Sheet
  <1> HIDE DEF d
  <1> DEFINE k == d + (4 * n - 3)
             i == q + k
             j == i + 3
  <1>7. k \in Nat /\ k >= 1 /\ k + 3 <= Len(W) /\ Len(W) \in Nat
        /\ d + (4 * n - 2) = k + 1
        /\ d + (4 * n - 1) = k + 2 /\ d + 4 * n = k + 3
    BY <1>5, <1>6
  <1>8. W[k] = t /\ W[k + 1] = Line("element", c) /\ W[k + 2] = EndDiv
        /\ W[k + 3] = EndDiv /\ \A x \in 1 .. Len(W) : W[x] = t => x = k
    BY <1>5, <1>7
  <1> HIDE DEF k
  <1>9. f[i] = t /\ f[i + 1] = Line("element", c) /\ f[i + 2] = EndDiv
        /\ f[j] = EndDiv
    <2>1. k \in 1 .. Len(W) /\ k + 1 \in 1 .. Len(W) /\ k + 2 \in 1 .. Len(W)
          /\ k + 3 \in 1 .. Len(W)
      <3> DEFINE l == Len(W)
      <3>1. k \in Nat /\ k >= 1 /\ k + 3 <= l /\ l \in Nat
        BY <1>7
      <3> HIDE DEF l
      <3>2. k \in 1 .. l /\ k + 1 \in 1 .. l /\ k + 2 \in 1 .. l /\ k + 3 \in 1 .. l
        BY ONLY <3>1
      <3>3. QED
        BY <3>2 DEF l
    <2>2. q + (k + 1) = i + 1 /\ q + (k + 2) = i + 2 /\ q + (k + 3) = j
      BY <1>3, <1>7
    <2>3. f[q + k] = W[k] /\ f[q + (k + 1)] = W[k + 1]
          /\ f[q + (k + 2)] = W[k + 2] /\ f[q + (k + 3)] = W[k + 3]
      BY <1>2, <2>1
    <2>4. QED
      BY <1>8, <2>2, <2>3
  <1>10. i \in Nat /\ j \in Int /\ i < j /\ j <= Len(f) /\ i > q /\ j = i + 3
         /\ u \in Nat /\ v \in Nat /\ i \in u .. v - 1 /\ j - 1 = i + 2
    <2> DEFINE l == Len(W)
               h == Len(f)
    <2>1. r = q + l /\ l \in Nat /\ k + 3 <= l
      BY <1>2, <1>7
    <2>2. p \in Nat /\ q \in Nat /\ r \in Nat /\ p + 3 <= q /\ q <= r
          /\ h \in Nat /\ r + 2 <= h /\ k \in Nat /\ k >= 1
      BY <1>3, <1>7
    <2>3. u \in {p + 1, p + 2} /\ v \in {r + 1, r + 2}
      BY <1>2
    <2> HIDE DEF l, h
    <2>4. i \in Nat /\ j \in Int /\ i < j /\ j <= h /\ i > q /\ j = i + 3
          /\ u \in Nat /\ v \in Nat /\ i \in u .. v - 1 /\ j - 1 = i + 2
      BY <2>1, <2>2, <2>3
    <2>5. QED
      BY <2>4 DEF h
  <1>11. \A x \in u .. i - 1 : f[x] # t
    <2> SUFFICES ASSUME NEW x \in u .. i - 1 PROVE f[x] # t
      OBVIOUS
    <2>1. x = p + 1 \/ x = p + 2 \/ x \in p + 3 .. q - 1 \/ x = q
          \/ x \in q + 1 .. i - 1
      BY <1>2, <1>3, <1>10
    <2>2. CASE x \in p + 3 .. q - 1
      <3>1. x - (p + 2) \in 1 .. Len(kept) /\ f[x] = kept[x - (p + 2)]
        BY <1>3, <2>2
      <3>2. QED
        BY <3>1
    <2>3. CASE x \in q + 1 .. i - 1
      <3>1. x - q \in 1 .. Len(W) /\ q + (x - q) = x /\ x - q # k
        <4> DEFINE l == Len(W)
        <4>1. l \in Nat /\ k + 3 <= l /\ k \in Nat /\ q \in Nat
          BY <1>3, <1>7
        <4> HIDE DEF l
        <4>2. x - q \in 1 .. l /\ q + (x - q) = x /\ x - q # k
          BY <4>1, <2>3
        <4>3. QED
          BY <4>2 DEF l
      <3>2. f[x] = W[x - q]
        BY <1>2, <3>1
      <3>3. QED
        BY <1>8, <3>1, <3>2
    <2>4. QED
      BY <1>4, <2>1, <2>2, <2>3
  <1>12. Opens(t) /\ Opens(Line("element", c)) /\ Closes(EndDiv)
    BY DEF Opens, Closes, EndDiv, Line
  <1>13. Even(f, i + 1, j - 1)
    <2> DEFINE x == i + 1
               y == i + 2
    <2>1. x \in Int /\ y \in Int /\ x < y /\ y - 1 < x + 1 /\ j - 1 = y
          /\ x + 1 \in Int /\ y - 1 \in Int
      BY <1>10
    <2>2. Opens(f[x]) /\ Closes(f[y])
      BY <1>9, <1>12
    <2> HIDE DEF x, y
    <2>3. Even(f, x + 1, y - 1)
      BY <2>1, EvenEmpty
    <2>4. Even(f, x, y)
      BY <2>1, <2>2, <2>3, EvenTag
    <2>5. QED
      BY <2>1, <2>4 DEF x
  <1>14. Tagged(f, "variant", c, u, v, i, j)
    BY <1>3, <1>9, <1>10, <1>11, <1>12, <1>13 DEF Tagged
  <1>15. Block(f, s, u, v)
    BY <1>2
  <1> HIDE DEF i, j
  <1>16. extractInner(f, s, "variant", c) = SubSeq(f, i + 1, j - 1)
    BY ONLY <1>14, <1>15, ExtractIs
  <1>17. SubSeq(f, i + 1, j - 1) = Markup(c)
    <2> DEFINE e == Line("element", c)
               g == <<e, EndDiv>>
    <2>1. f \in Seq(S)
      BY <1>2
    <2>2. Writes(S, s)
      BY DEF InFile
    <2>3. e \in S
      BY <2>2 DEF Writes, Scaffolding
    <2>4. EndDiv \in S
      BY <2>2 DEF Writes, Scaffolding
    <2>5. Markup(c) = g
      BY DEF Markup
    <2>6. f[i + 1] = e /\ f[i + 2] = EndDiv
      BY <1>9
    <2> HIDE DEF e
    <2>7. g \in Seq(S) /\ Len(g) = 2 /\ g[1] = e /\ g[2] = EndDiv
      BY ONLY <2>3, <2>4, Pair
    <2> HIDE DEF g
    <2>8. g \in Seq(S)
      BY <2>7
    <2>9. i \in Nat
      BY <1>10
    <2>10. i + Len(g) <= Len(f)
      BY <1>3, <1>10, <2>7
    <2>11. \A x \in 1 .. Len(g) : f[i + x] = g[x]
      <3>1. \A x \in 1 .. Len(g) : x = 1 \/ x = 2
        BY <2>7
      <3>2. QED
        BY <2>6, <2>7, <3>1
    <2>12. SubSeq(f, i + 1, i + Len(g)) = g
      BY ONLY <2>1, <2>8, <2>9, <2>10, <2>11, MiddleIs
    <2>13. i + Len(g) = j - 1
      BY <1>10, <2>7
    <2>14. QED
      BY <2>5, <2>12, <2>13
  <1>18. QED
    BY <1>16, <1>17 DEF extractVariant

\* The style sheet is found if the agent wrote one.
LEMMA CssFound ==
  ASSUME N \in Nat, NEW S, NEW f, NEW a, NEW s, NEW kept, NEW W, NEW b,
         NEW jsx \in BOOLEAN, InFile(S, f, a, s, kept, W, b, jsx),
         NEW css \in BOOLEAN, Filled(S, W, s, css), Foreign(kept, s, {"style"})
  PROVE  hasCss(f, s) <=> css
  <1> DEFINE t == Line("style", <<s, 0>>)
             l == Len(W)
  <1>1. PICK p, q, r, u, v : Marked(S, f, a, s, kept, W, jsx, p, q, r, u, v)
    BY MarkedIs
  <1>2. /\ f \in Seq(S) /\ Block(f, s, u, v)
        /\ Layout(f, a, s, kept, W, jsx, p, q, r)
        /\ u = (IF jsx THEN p + 2 ELSE p + 1) /\ v = (IF jsx THEN r + 1 ELSE r + 2)
        /\ r = q + l /\ \A x \in 1 .. l : f[q + x] = W[x]
    BY <1>1 DEF Marked
  <1>3. /\ p \in Nat /\ q \in Nat /\ r \in Nat /\ p + 3 <= q /\ q <= r
        /\ Len(f) \in Nat /\ r + 2 <= Len(f)
        /\ \A x \in p + 3 .. q - 1 : x - (p + 2) \in 1 .. Len(kept)
                                     /\ f[x] = kept[x - (p + 2)]
    BY <1>2 DEF Layout
  <1>4. f[p + 1] # t /\ f[p + 2] # t /\ f[q] # t /\ f[r + 1] # t /\ f[r + 2] # t
    BY <1>2 DEF Layout, Line, EndDiv
  <1>5. l \in Nat /\ (css => l >= 1 /\ W[1] = t)
    BY DEF Filled, Sheet
  <1>6. hasCss(f, s) <=> \E i \in u .. v : f[i] = t
    BY <1>2 DEF hasCss, Block
  <1>7. ASSUME css PROVE \E i \in u .. v : f[i] = t
    <2>1. f[q + 1] = t
      BY <1>2, <1>5, <1>7
    <2>2. u \in {p + 1, p + 2} /\ v \in {r + 1, r + 2} /\ r = q + l /\ l >= 1
      BY <1>2, <1>5, <1>7
    <2> HIDE DEF l
    <2>3. q + 1 \in u .. v
      BY <1>3, <1>5, <2>2
    <2>4. QED
      BY <2>1, <2>3
  <1>8. ASSUME ~css, NEW i \in u .. v, f[i] = t PROVE FALSE
    <2>1. \A x \in 1 .. l : W[x].kind \in {"variant", "element", "/div"}
      BY <1>8 DEF Filled, Sheet
    <2>2. t.kind = "style"
      BY DEF Line
    <2>3. u \in {p + 1, p + 2} /\ v \in {r + 1, r + 2} /\ r = q + l
      BY <1>2
    <2> HIDE DEF l
    <2>4. i = p + 1 \/ i = p + 2 \/ i \in p + 3 .. q - 1 \/ i = q
          \/ (i - q \in 1 .. l /\ q + (i - q) = i) \/ i = r + 1 \/ i = r + 2
      BY <1>3, <1>5, <2>3
    <2>5. CASE i \in p + 3 .. q - 1
      <3>1. i - (p + 2) \in 1 .. Len(kept) /\ f[i] = kept[i - (p + 2)]
        BY <1>3, <2>5
      <3>2. QED
        BY <1>8, <3>1 DEF Foreign
    <2>6. CASE i - q \in 1 .. l /\ q + (i - q) = i
      <3>1. f[i] = W[i - q]
        BY <1>2, <2>6
      <3>2. QED
        BY <1>8, <2>1, <2>2, <2>6, <3>1
    <2>7. QED
      BY <1>4, <1>8, <2>4, <2>5, <2>6
  <1>9. QED
    BY <1>6, <1>7, <1>8

\* What takes the scaffold's place if the variant has a style sheet.
Carbonized(s, n, jsx) ==
  LET body == <<Line("carbonize-start", <<s, 0>>), Line("style", <<s, 0>>),
                Line("carbonize-end", <<s, 0>>), Line("variant", <<s, n>>)>>
                \o Markup(<<s, n>>) \o <<EndDiv>>
  IN  IF jsx THEN <<Line("carbonize", <<s, 0>>)>> \o body \o <<EndDiv>> ELSE body

Shift(jsx) == IF jsx THEN 1 ELSE 0

CarbonizedLines(S, C, s, n, jsx) ==
  LET d == Shift(jsx)
  IN  /\ C \in Seq(S) /\ Len(C) = 7 + 2 * d
      /\ jsx => C[1] = Line("carbonize", <<s, 0>>)
      /\ C[d + 1] = Line("carbonize-start", <<s, 0>>)
      /\ C[d + 4] = Line("variant", <<s, n>>)
      /\ C[d + 5] = Line("element", <<s, n>>)
      /\ C[d + 6] = EndDiv /\ C[d + 7] = EndDiv

LEMMA MarkupLines ==
  ASSUME NEW S, NEW s, Writes(S, s), NEW n \in 1 .. N
  PROVE  /\ Markup(<<s, n>>) \in Seq(S) /\ Len(Markup(<<s, n>>)) = 2
         /\ Markup(<<s, n>>)[1] = Line("element", <<s, n>>)
         /\ Markup(<<s, n>>)[2] = EndDiv
  <1> DEFINE e == Line("element", <<s, n>>)
  <1>1. e \in S
    BY DEF Writes, Scaffolding
  <1>2. EndDiv \in S
    BY DEF Writes, Scaffolding
  <1>3. Markup(<<s, n>>) = <<e, EndDiv>>
    BY DEF Markup
  <1> HIDE DEF e
  <1>4. <<e, EndDiv>> \in Seq(S) /\ Len(<<e, EndDiv>>) = 2
        /\ <<e, EndDiv>>[1] = e /\ <<e, EndDiv>>[2] = EndDiv
    BY ONLY <1>1, <1>2, Pair
  <1>5. QED
    BY <1>3, <1>4 DEF e

\* Where the lines of the second scaffold are.
LEMMA CarbonizedIs ==
  ASSUME NEW S, NEW s, Writes(S, s), NEW n \in 1 .. N, NEW jsx \in BOOLEAN
  PROVE  CarbonizedLines(S, Carbonized(s, n, jsx), s, n, jsx)
  <1> DEFINE cs == Line("carbonize-start", <<s, 0>>)
             st == Line("style", <<s, 0>>)
             ce == Line("carbonize-end", <<s, 0>>)
             va == Line("variant", <<s, n>>)
             cb == Line("carbonize", <<s, 0>>)
             m == Markup(<<s, n>>)
             h == <<cs, st, ce, va>>
             z == <<EndDiv>>
             g == h \o m
             body == g \o z
  <1>1. cs \in S /\ st \in S /\ ce \in S /\ cb \in S /\ EndDiv \in S
    BY DEF Writes, Scaffolding
  <1>2. va \in S
    BY DEF Writes, Scaffolding
  <1>3. m \in Seq(S) /\ Len(m) = 2 /\ m[1] = Line("element", <<s, n>>)
        /\ m[2] = EndDiv
    BY MarkupLines
  <1>4. Carbonized(s, n, jsx) = IF jsx THEN <<cb>> \o body \o z ELSE body
    BY DEF Carbonized
  <1> HIDE DEF cs, st, ce, va, cb, m
  <1>5. h \in Seq(S) /\ Len(h) = 4 /\ h[1] = cs /\ h[4] = va
    BY <1>1, <1>2
  <1>6. z \in Seq(S) /\ Len(z) = 1 /\ z[1] = EndDiv
    BY <1>1, Single
  <1>7. h \in Seq(S)
    BY <1>5
  <1>8. m \in Seq(S)
    BY <1>3
  <1>9. z \in Seq(S)
    BY <1>6
  <1> HIDE DEF h, z
  <1>10. /\ g \in Seq(S) /\ Len(g) = Len(h) + Len(m)
         /\ \A x \in 1 .. Len(h) : g[x] = h[x]
         /\ \A x \in 1 .. Len(m) : g[Len(h) + x] = m[x]
    BY ONLY <1>7, <1>8, Joined
  <1>11. g \in Seq(S)
    BY <1>10
  <1> HIDE DEF g
  <1>12. g[1] = cs /\ g[4] = va /\ g[4 + 1] = m[1] /\ g[4 + 2] = m[2] /\ Len(g) = 6
    BY <1>3, <1>5, <1>10
  <1>13. /\ body \in Seq(S) /\ Len(body) = Len(g) + Len(z)
         /\ \A x \in 1 .. Len(g) : body[x] = g[x]
         /\ \A x \in 1 .. Len(z) : body[Len(g) + x] = z[x]
    BY ONLY <1>9, <1>11, Joined
  <1>14. body \in Seq(S)
    BY <1>13
  <1> HIDE DEF body
  <1>15. Len(body) = 7 /\ body[1] = cs /\ body[4] = va /\ body[5] = m[1]
         /\ body[6] = m[2] /\ body[6 + 1] = EndDiv
    BY <1>6, <1>12, <1>13
  <1>16. CASE ~jsx
    <2>1. Carbonized(s, n, jsx) = body /\ Shift(jsx) = 0
      BY <1>4, <1>16 DEF Shift
    <2>2. QED
      BY <1>3, <1>14, <1>15, <1>16, <2>1 DEF CarbonizedLines, cs, va
  <1>17. CASE jsx
    <2> DEFINE o == <<cb>>
               k == o \o body
               C == k \o z
    <2>1. cb \in S
      BY <1>1
    <2>2. o \in Seq(S) /\ Len(o) = 1 /\ o[1] = cb
      BY ONLY <2>1, Single
    <2>3. o \in Seq(S)
      BY <2>2
    <2>4. Carbonized(s, n, jsx) = C /\ Shift(jsx) = 1
      BY <1>4, <1>17 DEF Shift
    <2> HIDE DEF o
    <2>5. /\ k \in Seq(S) /\ Len(k) = Len(o) + Len(body)
          /\ \A x \in 1 .. Len(o) : k[x] = o[x]
          /\ \A x \in 1 .. Len(body) : k[Len(o) + x] = body[x]
      BY ONLY <1>14, <2>3, Joined
    <2>6. k \in Seq(S)
      BY <2>5
    <2> HIDE DEF k
    <2>7. Len(k) = 8 /\ k[1] = cb /\ k[1 + 1] = cs /\ k[1 + 4] = va
          /\ k[1 + 5] = m[1] /\ k[1 + 6] = m[2] /\ k[1 + 7] = EndDiv
      BY <1>15, <2>2, <2>5
    <2>8. /\ C \in Seq(S) /\ Len(C) = Len(k) + Len(z)
          /\ \A x \in 1 .. Len(k) : C[x] = k[x]
          /\ \A x \in 1 .. Len(z) : C[Len(k) + x] = z[x]
      BY ONLY <1>9, <2>6, Joined
    <2> HIDE DEF C
    <2>9. Len(C) = 9 /\ C[1] = cb /\ C[2] = cs /\ C[5] = va
          /\ C[6] = m[1] /\ C[7] = m[2] /\ C[8] = EndDiv
      BY <1>6, <2>7, <2>8
    <2>10. C \in Seq(S)
      BY <2>8
    <2> DEFINE d == Shift(jsx)
    <2>11. 7 + 2 * d = 9 /\ d + 1 = 2 /\ d + 4 = 5 /\ d + 5 = 6 /\ d + 6 = 7
           /\ d + 7 = 8
      BY <2>4
    <2> HIDE DEF d
    <2>12. /\ C \in Seq(S) /\ Len(C) = 7 + 2 * d /\ C[1] = cb
           /\ C[d + 1] = cs /\ C[d + 4] = va
           /\ C[d + 5] = m[1] /\ C[d + 6] = m[2] /\ C[d + 7] = EndDiv
      BY ONLY <2>9, <2>10, <2>11
    <2>13. CarbonizedLines(S, C, s, n, jsx)
      BY ONLY <1>3, <2>12 DEF CarbonizedLines, cs, va, cb, d
    <2>14. QED
      BY <2>4, <2>13
  <1>18. QED
    BY <1>16, <1>17

\* What live-accept puts in the scaffold's place.
Taken(s, n, jsx, css) ==
  IF css THEN Carbonized(s, n, jsx) ELSE Markup(<<s, n>>)

LEMMA TakenIs ==
  ASSUME NEW S, NEW s, Writes(S, s), NEW n \in 1 .. N, NEW jsx \in BOOLEAN,
         NEW css
  PROVE  Taken(s, n, jsx, css) \in Seq(S)
  <1>1. Markup(<<s, n>>) \in Seq(S)
    BY MarkupLines
  <1>2. Carbonized(s, n, jsx) \in Seq(S)
    BY CarbonizedIs DEF CarbonizedLines
  <1>3. QED
    BY <1>1, <1>2 DEF Taken

\* A copy of the element, or nothing, in the scaffold's upper part: it holds
\* no line of the session but the tag around it.
Plain(kept, s, n) ==
  /\ \A x \in 1 .. Len(kept) : kept[x] # Line("variant", <<s, n>>)
  /\ Foreign(kept, s, {"style"})

\* Accepting puts that in the scaffold's place.
LEMMA AcceptIs ==
  ASSUME N \in Nat, NEW S, NEW f, NEW a, NEW s, NEW kept, NEW W, NEW b,
         NEW jsx \in BOOLEAN, InFile(S, f, a, s, kept, W, b, jsx),
         NEW css \in BOOLEAN, Filled(S, W, s, css), NEW n \in 1 .. N,
         Plain(kept, s, n)
  PROVE  handleAccept(f, s, n, jsx) = a \o Taken(s, n, jsx, css) \o b
  <1> DEFINE new == Taken(s, n, jsx, css)
  <1>1. hasCss(f, s) <=> css
    BY CssFound DEF Plain
  <1>2. extractVariant(f, s, n) = Markup(<<s, n>>)
    BY VariantFound DEF Plain
  <1>3. buildCarbonizeReplacement(f, s, n, jsx) = new
    BY <1>1, <1>2 DEF buildCarbonizeReplacement, Taken, Carbonized
  <1>4. Writes(S, s)
    BY DEF InFile
  <1>5. new \in Seq(S)
    BY <1>4, TakenIs
  <1>6. handleAccept(f, s, n, jsx) = Swapped(f, s, jsx, new)
    BY <1>3 DEF handleAccept, Swapped
  <1> HIDE DEF new
  <1>7. Swapped(f, s, jsx, new) = a \o new \o b
    BY ONLY <1>5, InFile(S, f, a, s, kept, W, b, jsx), jsx \in BOOLEAN,
            ScaffoldReplaced
  <1>8. QED
    BY <1>6, <1>7 DEF new

\* The lines of a file in three parts.
ThreeLines(S, g, a, m, b) ==
  /\ g \in Seq(S) /\ Len(g) = Len(a) + Len(m) + Len(b)
  /\ \A x \in 1 .. Len(a) : g[x] = a[x]
  /\ \A x \in 1 .. Len(m) : g[Len(a) + x] = m[x]
  /\ \A x \in 1 .. Len(b) : g[Len(a) + Len(m) + x] = b[x]

LEMMA ThreeParts ==
  ASSUME NEW S, NEW a \in Seq(S), NEW m \in Seq(S), NEW b \in Seq(S),
         NEW g, Thirds(g, a, m, b)
  PROVE  ThreeLines(S, g, a, m, b)
  <1> DEFINE h == a \o m
  <1>1. /\ h \in Seq(S) /\ Len(h) = Len(a) + Len(m)
        /\ \A x \in 1 .. Len(a) : h[x] = a[x]
        /\ \A x \in 1 .. Len(m) : h[Len(a) + x] = m[x]
    BY ONLY a \in Seq(S), m \in Seq(S), Joined
  <1>2. h \in Seq(S)
    BY <1>1
  <1>3. g = h \o b
    BY DEF Thirds
  <1> HIDE DEF h
  <1>4. /\ h \o b \in Seq(S) /\ Len(h \o b) = Len(h) + Len(b)
        /\ \A x \in 1 .. Len(h) : (h \o b)[x] = h[x]
        /\ \A x \in 1 .. Len(b) : (h \o b)[Len(h) + x] = b[x]
    BY ONLY <1>2, b \in Seq(S), Joined
  <1>5. Len(a) \in Nat /\ Len(m) \in Nat /\ Len(b) \in Nat
    BY LenProperties
  <1>6. \A x \in 1 .. Len(a) : g[x] = a[x]
    <2> SUFFICES ASSUME NEW x \in 1 .. Len(a) PROVE g[x] = a[x]
      OBVIOUS
    <2>1. x \in 1 .. Len(h)
      BY <1>1, <1>5
    <2>2. QED
      BY <1>1, <1>3, <1>4, <2>1
  <1>7. \A x \in 1 .. Len(m) : g[Len(a) + x] = m[x]
    <2> SUFFICES ASSUME NEW x \in 1 .. Len(m) PROVE g[Len(a) + x] = m[x]
      OBVIOUS
    <2>1. Len(a) + x \in 1 .. Len(h)
      BY <1>1, <1>5
    <2>2. QED
      BY <1>1, <1>3, <1>4, <2>1
  <1>8. QED
    BY <1>1, <1>3, <1>4, <1>6, <1>7 DEF ThreeLines

NoCarbonize(a, s) ==
  \A x \in 1 .. Len(a) : a[x] # Line("carbonize-start", <<s, 0>>)

Cleaned(g, s, n, jsx, a, b) ==
  /\ AgentCleans(g, s, jsx) = a \o Markup(<<s, n>>) \o b
  /\ hasCarbonize(g, s)

\* The agent's last step takes the second scaffold away as live-accept took
\* the first.
LEMMA CleansIs ==
  ASSUME NEW S, NEW s, Writes(S, s), NEW n \in 1 .. N, NEW jsx \in BOOLEAN,
         NEW a \in Seq(S), NEW b \in Seq(S), NEW g,
         Thirds(g, a, Carbonized(s, n, jsx), b), NoCarbonize(a, s)
  PROVE  Cleaned(g, s, n, jsx, a, b)
  <1> DEFINE C == Carbonized(s, n, jsx)
             m == Markup(<<s, n>>)
             cs == Line("carbonize-start", <<s, 0>>)
             p == Len(a)
             d == Shift(jsx)
             i == p + d + 1
             j == i + 6
             l == Len(g)
  <1>1. CarbonizedLines(S, C, s, n, jsx)
    BY CarbonizedIs
  <1>2. Thirds(g, a, C, b)
    OBVIOUS
  <1>3. m \in Seq(S) /\ Len(m) = 2 /\ m[1] = Line("element", <<s, n>>)
        /\ m[2] = EndDiv
    BY MarkupLines
  <1> HIDE DEF C, m
  <1>4. /\ C \in Seq(S) /\ Len(C) = 7 + 2 * d
        /\ (jsx => C[1] = Line("carbonize", <<s, 0>>))
        /\ C[d + 1] = cs /\ C[d + 4] = Line("variant", <<s, n>>)
        /\ C[d + 5] = m[1] /\ C[d + 6] = EndDiv /\ C[d + 7] = EndDiv
    BY <1>1, <1>3 DEF CarbonizedLines
  <1>5. C \in Seq(S)
    BY <1>4
  <1>6. /\ g \in Seq(S) /\ Len(g) = Len(a) + Len(C) + Len(b)
        /\ \A x \in 1 .. Len(a) : g[x] = a[x]
        /\ \A x \in 1 .. Len(C) : g[Len(a) + x] = C[x]
    <2>1. ThreeLines(S, g, a, C, b)
      BY ONLY <1>2, <1>5, a \in Seq(S), b \in Seq(S), ThreeParts
    <2>2. QED
      BY <2>1 DEF ThreeLines
  <1>7. p \in Nat /\ Len(b) \in Nat /\ l = p + Len(C) + Len(b)
    BY <1>6, LenProperties
  <1>8. d \in {0, 1} /\ (d = 1 <=> jsx)
    BY DEF Shift
  <1>9. /\ C \in Seq(S) /\ Len(C) = 7 + 2 * d
        /\ C[d + 1] = cs /\ C[d + 4] = Line("variant", <<s, n>>)
        /\ C[d + 5] = m[1] /\ C[d + 6] = EndDiv /\ C[d + 7] = EndDiv
        /\ (d = 1 => C[1] = Line("carbonize", <<s, 0>>))
    BY <1>4, <1>8
  <1>10. /\ \A x \in 1 .. p : g[x] = a[x]
         /\ \A x \in 1 .. Len(C) : g[p + x] = C[x]
    BY <1>6
  <1> HIDE DEF d, p, l
  <1>11. /\ i \in 1 .. l /\ i + 3 \in Nat /\ j \in Int /\ i + 3 < j /\ j <= l
         /\ l \in Nat /\ i - d = p + 1 /\ j + d = p + Len(C) /\ i = p + (d + 1)
         /\ i + 3 = p + (d + 4) /\ i + 4 = p + (d + 5) /\ i + 5 = p + (d + 6)
         /\ j = p + (d + 7) /\ j - 1 = i + 5
    <2>1. Len(C) = 7 + 2 * d
      BY <1>9
    <2>2. QED
      BY <1>7, <1>8, <2>1
  <1>12. g[i] = cs /\ g[i + 3] = Line("variant", <<s, n>>) /\ g[i + 4] = m[1]
         /\ g[i + 5] = EndDiv /\ g[j] = EndDiv
    <2>1. /\ d + 1 \in 1 .. Len(C) /\ d + 4 \in 1 .. Len(C)
          /\ d + 5 \in 1 .. Len(C) /\ d + 6 \in 1 .. Len(C)
          /\ d + 7 \in 1 .. Len(C)
      BY <1>8, <1>9
    <2>2. /\ g[p + (d + 1)] = C[d + 1] /\ g[p + (d + 4)] = C[d + 4]
          /\ g[p + (d + 5)] = C[d + 5] /\ g[p + (d + 6)] = C[d + 6]
          /\ g[p + (d + 7)] = C[d + 7]
      BY <1>10, <2>1
    <2>3. QED
      BY <1>9, <1>11, <2>2
  <1>13. \A x \in 1 .. i - 1 : g[x] # cs
    <2> SUFFICES ASSUME NEW x \in 1 .. i - 1 PROVE g[x] # cs
      OBVIOUS
    <2>1. x \in 1 .. p \/ (d = 1 /\ x = p + 1)
      BY <1>7, <1>8
    <2>2. CASE x \in 1 .. p
      BY <1>10, <2>2 DEF NoCarbonize, p
    <2>3. CASE d = 1 /\ x = p + 1
      <3>1. 1 \in 1 .. Len(C)
        BY <1>9, <2>3
      <3>2. g[p + 1] = C[1]
        BY <1>10, <3>1
      <3>3. QED
        BY <1>9, <2>3, <3>2 DEF Line
    <2>4. QED
      BY <2>1, <2>2, <2>3
  <1>14. IndexOf(g, "carbonize-start", <<s, 0>>) = i
    BY <1>11, <1>12, <1>13, IndexIs DEF l
  <1>15. Opens(g[i + 3]) /\ Opens(g[i + 4]) /\ Closes(g[i + 5]) /\ Closes(g[j])
    BY <1>3, <1>12 DEF Opens, Closes, EndDiv, Line
  <1>16. closingLine(g, i + 3) = j
    <2> DEFINE x == i + 4
               y == i + 5
               w == i + 3
    <2>1. x \in Int /\ y \in Int /\ x < y /\ y - 1 < x + 1 /\ j - 1 = y
          /\ x + 1 \in Int /\ y - 1 \in Int /\ w + 1 = x /\ w \in Nat /\ w < j
      BY <1>7, <1>8, <1>11
    <2>2. Opens(g[x]) /\ Closes(g[y]) /\ Opens(g[w])
      BY <1>15
    <2> HIDE DEF x, y, w, i, j
    <2>3. Even(g, x + 1, y - 1)
      BY <2>1, EvenEmpty
    <2>4. Even(g, x, y)
      BY <2>1, <2>2, <2>3, EvenTag
    <2>5. Even(g, w + 1, j - 1)
      BY <2>1, <2>4
    <2>6. closingLine(g, w) = j
      BY <1>11, <1>15, <2>1, <2>2, <2>5, ClosingIs DEF l
    <2>7. QED
      BY <2>6 DEF w
  <1> HIDE DEF i, j
  <1>17. SubSeq(g, i + 4, j - 1) = m
    <2> DEFINE h == i + 3
    <2>1. g \in Seq(S)
      BY <1>6
    <2>2. m \in Seq(S)
      BY <1>3
    <2>3. i \in Nat /\ j \in Int /\ l \in Nat /\ j <= l /\ j - 1 = i + 5
      BY <1>11
    <2>4. h \in Nat /\ h + 2 <= l /\ i + 4 = h + 1 /\ j - 1 = h + 2 /\ i + 5 = h + 2
      BY ONLY <2>3
    <2>5. \A x \in 1 .. Len(m) : g[h + x] = m[x]
      <3>1. \A x \in 1 .. Len(m) : x = 1 \/ x = 2
        BY <1>3
      <3>2. g[h + 1] = m[1] /\ g[h + 2] = m[2]
        BY <1>3, <1>12, <2>4
      <3>3. QED
        BY <3>1, <3>2
    <2> HIDE DEF h
    <2>6. h \in Nat
      BY <2>4
    <2>7. h + Len(m) <= Len(g)
      BY <1>3, <2>4 DEF l
    <2>8. SubSeq(g, h + 1, h + Len(m)) = m
      BY ONLY <2>1, <2>2, <2>5, <2>6, <2>7, MiddleIs
    <2>9. QED
      BY <1>3, <2>4, <2>8
  <1>18. Spans(i - d, j + d, a, C)
    BY <1>11 DEF Spans, p
  <1>19. Replaced(g, i - d, j + d, m, a, b)
    <2> DEFINE x == i - d
               y == j + d
    <2>1. Spans(x, y, a, C)
      BY <1>18
    <2> HIDE DEF x, y
    <2>2. Replaced(g, x, y, m, a, b)
      BY ONLY <1>2, <1>5, <2>1, a \in Seq(S), b \in Seq(S), ReplaceMiddle
    <2>3. QED
      BY <2>2 DEF x, y
  <1>20. AgentCleans(g, s, jsx) = Replace(g, i - d, j + d, SubSeq(g, i + 4, j - 1))
    BY <1>14, <1>16 DEF AgentCleans, d, Shift
  <1>21. hasCarbonize(g, s)
    <2>1. i # 0
      BY <1>11
    <2>2. QED
      BY <1>14, <2>1 DEF hasCarbonize
  <1>22. QED
    BY <1>17, <1>19, <1>20, <1>21 DEF m, Cleaned, Replaced

\* Accepting, with the agent's last step if it is needed.
Accepted(g, s, n, jsx, css) ==
  IF css THEN AgentCleans(handleAccept(g, s, n, jsx), s, jsx)
  ELSE handleAccept(g, s, n, jsx)

\* No line of a or b is one of session s, whatever its kind.
Around(a, b, s) == \A K : Foreign(a, s, K) /\ Foreign(b, s, K)

Leaves(g, s, n, jsx, css, a, b) ==
  /\ Accepted(g, s, n, jsx, css) = a \o Markup(<<s, n>>) \o b
  /\ hasCarbonize(handleAccept(g, s, n, jsx), s) <=> css

\* Either way the variant's markup is all that is left.
LEMMA AcceptedIs ==
  ASSUME N \in Nat, NEW S, NEW f, NEW a, NEW s, NEW kept, NEW W, NEW b,
         NEW jsx \in BOOLEAN, InFile(S, f, a, s, kept, W, b, jsx),
         NEW css \in BOOLEAN, Filled(S, W, s, css), NEW n \in 1 .. N,
         Plain(kept, s, n), Around(a, b, s)
  PROVE  Leaves(f, s, n, jsx, css, a, b)
  <1> DEFINE k == handleAccept(f, s, n, jsx)
             C == Carbonized(s, n, jsx)
             m == Markup(<<s, n>>)
  <1>1. k = a \o Taken(s, n, jsx, css) \o b
    BY AcceptIs
  <1>2. Writes(S, s)
    BY DEF InFile
  <1>3. a \in Seq(S)
    BY DEF InFile
  <1>4. b \in Seq(S)
    BY DEF InFile
  <1>5. NoCarbonize(a, s) /\ NoCarbonize(b, s)
    <2> DEFINE K == {"carbonize-start"}
    <2>1. Foreign(a, s, K) /\ Foreign(b, s, K)
      BY DEF Around
    <2>2. QED
      BY <2>1 DEF Foreign, NoCarbonize
  <1>6. CASE css
    <2>1. Thirds(k, a, C, b)
      BY <1>1, <1>6 DEF Thirds, Taken
    <2> HIDE DEF k
    <2>2. Thirds(k, a, Carbonized(s, n, jsx), b)
      BY <2>1
    <2>3. NoCarbonize(a, s)
      BY <1>5
    <2>4. Cleaned(k, s, n, jsx, a, b)
      BY ONLY <1>2, <1>3, <1>4, <2>2, <2>3, n \in 1 .. N, jsx \in BOOLEAN, CleansIs
    <2>5. QED
      BY <1>6, <2>4 DEF Accepted, Cleaned, Leaves, k
  <1>7. CASE ~css
    <2>1. Thirds(k, a, m, b) /\ k = a \o m \o b
      BY <1>1, <1>7 DEF Thirds, Taken
    <2>2. Thirds(k, a, m, b)
      BY <2>1
    <2>3. m \in Seq(S) /\ Len(m) = 2 /\ m[1] = Line("element", <<s, n>>)
          /\ m[2] = EndDiv
      BY <1>2, MarkupLines
    <2>4. m \in Seq(S)
      BY <2>3
    <2> HIDE DEF k, m
    <2>5. /\ k \in Seq(S) /\ Len(k) = Len(a) + Len(m) + Len(b)
          /\ \A x \in 1 .. Len(a) : k[x] = a[x]
          /\ \A x \in 1 .. Len(m) : k[Len(a) + x] = m[x]
          /\ \A x \in 1 .. Len(b) : k[Len(a) + Len(m) + x] = b[x]
      <3>1. ThreeLines(S, k, a, m, b)
        BY ONLY <1>3, <1>4, <2>2, <2>4, ThreeParts
      <3>2. QED
        BY <3>1 DEF ThreeLines
    <2> DEFINE t == Line("carbonize-start", <<s, 0>>)
               u == Len(a)
               v == Len(b)
    <2>6. \A x \in 1 .. u : k[x] # t
      BY <1>5, <2>5 DEF NoCarbonize
    <2>7. k[u + 1] # t /\ k[u + 2] # t
      BY <2>3, <2>5 DEF Line, EndDiv
    <2>8. \A x \in 1 .. v : k[u + 2 + x] # t
      <3> SUFFICES ASSUME NEW x \in 1 .. v PROVE k[u + 2 + x] # t
        OBVIOUS
      <3>1. k[u + Len(m) + x] = b[x]
        BY <2>5
      <3>2. b[x] # t
        BY <1>5 DEF NoCarbonize
      <3>3. QED
        BY <2>3, <3>1, <3>2
    <2>9. Len(k) = u + 2 + v /\ u \in Nat /\ v \in Nat
      BY <1>3, <1>4, <2>3, <2>5, LenProperties
    <2> HIDE DEF t, u, v
    <2>10. \A x \in 1 .. Len(k) : k[x] # t
      <3> SUFFICES ASSUME NEW x \in 1 .. Len(k) PROVE k[x] # t
        OBVIOUS
      <3>1. x \in 1 .. u \/ x = u + 1 \/ x = u + 2
            \/ (x - (u + 2) \in 1 .. v /\ u + 2 + (x - (u + 2)) = x)
        BY <2>9
      <3>2. QED
        BY <2>6, <2>7, <2>8, <3>1
    <2>11. IndexOf(k, "carbonize-start", <<s, 0>>) = 0
      BY <2>10, IndexAbsent DEF t
    <2>12. ~hasCarbonize(k, s)
      BY <2>11 DEF hasCarbonize
    <2>13. QED
      BY <1>7, <2>1, <2>12 DEF Accepted, Leaves, k, m
  <1>8. QED
    BY <1>6, <1>7

\* The copy of an element that a session does not know is plain.
LEMMA KeptPlain ==
  ASSUME NEW S, NEW s, Writes(S, s), NEW inner \in Seq(S), NEW kept,
         Keeps(kept, s, inner), Even(inner, 1, Len(inner)), Free(inner, s),
         \A K : Foreign(inner, s, K), NEW n
  PROVE  Plain(kept, s, n)
  <1>1. \A K : "original" \notin K /\ "/div" \notin K => Foreign(kept, s, K)
    BY KeptApart
  <1>2. Foreign(kept, s, {"style"})
    <2>1. "original" \notin {"style"} /\ "/div" \notin {"style"}
      OBVIOUS
    <2>2. QED
      BY <1>1, <2>1
  <1>3. /\ Len(kept) = Len(inner) + 2
        /\ kept[1] = Line("original", <<s, 0>>)
        /\ \A x \in 1 .. Len(inner) : kept[1 + x] = inner[x]
        /\ kept[Len(inner) + 2] = EndDiv
    BY KeptLines
  <1>4. Len(inner) \in Nat
    BY LenProperties
  <1>5. ASSUME NEW x \in 1 .. Len(kept)
        PROVE  kept[x] # Line("variant", <<s, n>>)
    <2> DEFINE l == Len(inner)
    <2>1. Len(kept) = l + 2 /\ l \in Nat
      BY <1>3, <1>4
    <2> HIDE DEF l
    <2>2. x = 1 \/ (x - 1 \in 1 .. l /\ 1 + (x - 1) = x) \/ x = l + 2
      BY <1>5, <2>1
    <2>3. CASE x - 1 \in 1 .. l /\ 1 + (x - 1) = x
      <3>1. kept[x] = inner[x - 1] /\ inner[x - 1].of[1] # s
        BY <1>3, <2>3 DEF Free, l
      <3>2. Line("variant", <<s, n>>).of[1] = s
        BY DEF Line
      <3>3. QED
        BY <3>1, <3>2
    <2>4. QED
      BY <1>3, <2>2, <2>3 DEF l, Line, EndDiv
  <1>6. QED
    BY <1>2, <1>5 DEF Plain

\* live-accept: whatever the file holds, accepting variant n of a session
\* whose element was wrapped puts the markup of that variant, and nothing
\* else, where the element stood, with the agent's last step if the variant
\* came with a style sheet; and it is exactly then that the script says that
\* step is still to be done.
THEOREM AcceptLeavesVariant ==
  ASSUME N \in Nat, N # 0, NEW L, NEW f \in Seq(L), NEW s, Free(f, s), NEW c,
         IndexOf(f, "element", c) # 0,
         closingLine(f, IndexOf(f, "element", c)) <= Len(f),
         NEW jsx \in BOOLEAN, NEW css \in BOOLEAN, NEW n \in 1 .. N
  PROVE  LET i == IndexOf(f, "element", c)
             w == AgentFills(wrapCli(f, s, c, jsx), s, css)
         IN  /\ Accepted(w, s, n, jsx, css)
                  = Replace(f, i, closingLine(f, i), Markup(<<s, n>>))
             /\ hasCarbonize(handleAccept(w, s, n, jsx), s) <=> css
  <1> DEFINE S == L \cup Scaffolding(s)
             i == IndexOf(f, "element", c)
             j == closingLine(f, i)
             a == SubSeq(f, 1, i - 1)
             m == SubSeq(f, i, j)
             b == SubSeq(f, j + 1, Len(f))
             kept == <<Line("original", <<s, 0>>)>> \o m \o <<EndDiv>>
             w == wrapCli(f, s, c, jsx)
             W == Fill(s, css)
             g == AgentFills(w, s, css)
  <1>1. f \in Seq(S) /\ Writes(S, s)
    BY WithSession
  <1> HIDE DEF S
  <1>2. Found(f, c, i, j)
    BY DEF Found
  <1>3. Cuts(f, i, j, a, m, b)
    BY DEF Cuts
  <1>4. Keeps(kept, s, m)
    BY DEF Keeps
  <1>5. Replace(f, i, j, Markup(<<s, n>>)) = a \o Markup(<<s, n>>) \o b
    BY DEF Replace
  <1> HIDE DEF i, j, a, m, b, kept, w, W
  <1>6. f \in Seq(S)
    BY <1>1
  <1>7. Writes(S, s)
    BY <1>1
  <1>8. Apart(S, f, s, i, j, a, m, b) /\ Even(m, 1, Len(m))
    BY ONLY <1>2, <1>3, <1>6, Free(f, s), ElementApart
  <1>9. InFile(S, w, a, s, kept, <<>>, b, jsx)
    <2>1. InFile(S, wrapCli(f, s, c, jsx), a, s, kept, <<>>, b, jsx)
      BY ONLY <1>2, <1>3, <1>4, <1>6, <1>7, Free(f, s), jsx \in BOOLEAN, WrapIs
    <2>2. QED
      BY <2>1 DEF w
  <1>10. Filled(S, W, s, css)
    <2>1. Filled(S, Fill(s, css), s, css)
      BY ONLY FillIs, N \in Nat, N # 0, <1>7, css \in BOOLEAN
    <2>2. QED
      BY <2>1 DEF W
  <1>11. InFile(S, g, a, s, kept, W, b, jsx)
    <2>1. W \in Seq(S) /\ Even(W, 1, Len(W))
      BY <1>10 DEF Filled
    <2>2. Foreign(W, s, Frame)
      BY <1>10, FilledApart DEF Frame
    <2>3. W \in Seq(S)
      BY <2>1
    <2>4. Even(W, 1, Len(W))
      BY <2>1
    <2>5. W = Fill(s, css)
      BY DEF W
    <2>6. InFile(S, AgentFills(w, s, css), a, s, kept, W, b, jsx)
      BY ONLY <1>9, <2>2, <2>3, <2>4, <2>5, jsx \in BOOLEAN, FillsIs
    <2>7. QED
      BY <2>6
  <1>12. Plain(kept, s, n)
    <2>1. m \in Seq(S) /\ Free(m, s) /\ \A K : Foreign(m, s, K)
      BY <1>8 DEF Apart
    <2>2. m \in Seq(S)
      BY <2>1
    <2>3. Free(m, s)
      BY <2>1
    <2>4. \A K : Foreign(m, s, K)
      BY <2>1
    <2>5. Even(m, 1, Len(m))
      BY <1>8
    <2>6. QED
      BY ONLY <1>4, <1>7, <2>2, <2>3, <2>4, <2>5, KeptPlain
  <1>13. Around(a, b, s)
    BY <1>8 DEF Apart, Around
  <1> HIDE DEF g
  <1>14. Leaves(g, s, n, jsx, css, a, b)
    BY ONLY <1>10, <1>11, <1>12, <1>13, N \in Nat, jsx \in BOOLEAN,
            css \in BOOLEAN, n \in 1 .. N, AcceptedIs
  <1>15. QED
    BY <1>5, <1>14 DEF g, w, i, j, Leaves

\* live-accept of an insertion: the markup of the accepted variant stands at
\* the line live-insert was asked for, and no other line has changed.
THEOREM AcceptLeavesInsertion ==
  ASSUME N \in Nat, N # 0, NEW L, NEW f \in Seq(L), NEW s, Free(f, s), NEW c,
         IndexOf(f, "element", c) # 0,
         closingLine(f, IndexOf(f, "element", c)) <= Len(f), NEW position,
         NEW jsx \in BOOLEAN, NEW css \in BOOLEAN, NEW n \in 1 .. N
  PROVE  LET i == computeInsertLine(f, c, position)
             w == AgentFills(insertCli(f, s, c, position, jsx), s, css)
         IN  /\ Accepted(w, s, n, jsx, css)
                  = Replace(f, i, i - 1, Markup(<<s, n>>))
             /\ hasCarbonize(handleAccept(w, s, n, jsx), s) <=> css
  <1> DEFINE S == L \cup Scaffolding(s)
             i == computeInsertLine(f, c, position)
             j == i - 1
             a == SubSeq(f, 1, i - 1)
             m == SubSeq(f, i, j)
             b == SubSeq(f, j + 1, Len(f))
             w == insertCli(f, s, c, position, jsx)
             W == Fill(s, css)
             z == <<>>
             g == AgentFills(w, s, css)
  <1>1. f \in Seq(S) /\ Writes(S, s)
    BY WithSession
  <1> HIDE DEF S
  <1>2. i \in 1 .. Len(f) + 1
    BY InsertLine
  <1>3. j \in i - 1 .. Len(f)
    <2> DEFINE l == Len(f)
    <2>1. i \in 1 .. l + 1 /\ l \in Nat
      BY <1>2, LenProperties
    <2> HIDE DEF i, l
    <2>2. j \in i - 1 .. l
      BY <2>1
    <2>3. QED
      BY <2>2 DEF l
  <1>4. Cuts(f, i, j, a, m, b)
    BY DEF Cuts
  <1>5. InsertsAt(f, c, position, i, j)
    BY DEF InsertsAt
  <1>6. Replace(f, i, j, Markup(<<s, n>>)) = a \o Markup(<<s, n>>) \o b
    BY DEF Replace
  <1>7. z = <<>> /\ Len(z) = 0
    OBVIOUS
  <1>8. j = i - 1
    OBVIOUS
  <1> HIDE DEF i, j, a, m, b, w, W, z
  <1>9. f \in Seq(S)
    BY <1>1
  <1>10. Writes(S, s)
    BY <1>1
  <1>11. Inserted(S, f, insertCli(f, s, c, position, jsx), s, a, b, jsx)
    BY ONLY <1>2, <1>4, <1>5, <1>9, <1>10, Free(f, s), jsx \in BOOLEAN, InsertIs
  <1>12. InFile(S, w, a, s, z, <<>>, b, jsx)
    BY <1>7, <1>11 DEF w, Inserted
  <1>13. Filled(S, W, s, css)
    <2>1. Filled(S, Fill(s, css), s, css)
      BY ONLY FillIs, N \in Nat, N # 0, <1>10, css \in BOOLEAN
    <2>2. QED
      BY <2>1 DEF W
  <1>14. InFile(S, g, a, s, z, W, b, jsx)
    <2>1. W \in Seq(S) /\ Even(W, 1, Len(W))
      BY <1>13 DEF Filled
    <2>2. Foreign(W, s, Frame)
      BY <1>13, FilledApart DEF Frame
    <2>3. W \in Seq(S)
      BY <2>1
    <2>4. Even(W, 1, Len(W))
      BY <2>1
    <2>5. W = Fill(s, css)
      BY DEF W
    <2>6. InFile(S, AgentFills(w, s, css), a, s, z, W, b, jsx)
      BY ONLY <1>12, <2>2, <2>3, <2>4, <2>5, jsx \in BOOLEAN, FillsIs
    <2>7. QED
      BY <2>6
  <1>15. Plain(z, s, n)
    BY <1>7 DEF Plain, Foreign
  <1>16. Around(a, b, s)
    <2>1. Apart(S, f, s, i, j, a, m, b)
      BY ONLY <1>2, <1>3, <1>4, <1>9, Free(f, s), CutApart
    <2>2. QED
      BY <2>1 DEF Apart, Around
  <1> HIDE DEF g
  <1>17. Leaves(g, s, n, jsx, css, a, b)
    BY ONLY <1>13, <1>14, <1>15, <1>16, N \in Nat, jsx \in BOOLEAN,
            css \in BOOLEAN, n \in 1 .. N, AcceptedIs
  <1>18. QED
    BY <1>6, <1>8, <1>17 DEF g, w, i, Leaves
=============================================================================
