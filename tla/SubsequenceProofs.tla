------------------------- MODULE SubsequenceProofs -------------------------
(***************************************************************************)
(* What a subsequence holds, and where it has it from.                     *)
(***************************************************************************)
EXTENDS Subsequences, FiniteSetTheorems, SequenceTheorems, WellFoundedInduction, TLAPS

\* Every non-empty set of natural numbers has a least element.
LEMMA LeastElement ==
    ASSUME NEW T, T \subseteq Nat, T # {}
    PROVE  \E m \in T : \A k \in T : ~(k < m)
<1>1. IsWellFoundedOn(OpToRel(<, Nat), Nat)
  BY NatLessThanWellFounded
<1>2. \E m \in T : \A k \in T : ~(<<k, m>> \in OpToRel(<, Nat))
  BY <1>1, WFMin
<1>3. QED
  BY <1>2 DEF OpToRel

\* A set of positions has a greatest element.
LEMMA GreatestElement ==
    ASSUME NEW n \in Nat, NEW S \in SUBSET (1..n), S # {}
    PROVE  \E m \in S : \A k \in S : m >= k
<1> DEFINE T == {i \in Nat : \E k \in S : i = n - k}
<1>1. T \subseteq Nat /\ T # {}
  <2>1. PICK k \in S : TRUE
    OBVIOUS
  <2>2. n - k \in T
    BY <2>1
  <2>3. QED
    BY <2>2
<1>2. PICK i \in T : \A j \in T : ~(j < i)
  BY <1>1, LeastElement
<1>3. PICK m \in S : i = n - m
  BY <1>2
<1>4. ASSUME NEW k \in S PROVE m >= k
  <2>1. n - k \in T
    OBVIOUS
  <2>2. ~(n - k < n - m)
    BY <1>2, <1>3, <2>1
  <2>3. m \in Nat /\ k \in Nat
    OBVIOUS
  <2>4. QED
    BY <2>2, <2>3
<1>5. QED
  BY <1>3, <1>4

\* The rank of a position grows by one at each position of the set, and nowhere
\* else.
Ranked(I, n) ==
    /\ Rank(I, 0) = 0 /\ Rank(I, n) = Cardinality(I)
    /\ \A i \in 0..n : Rank(I, i) \in Nat /\ Rank(I, i) <= Cardinality(I)
    /\ \A i \in 0..(n - 1) : Rank(I, i + 1) = Rank(I, i) + (IF i + 1 \in I THEN 1 ELSE 0)

LEMMA RankFacts ==
    ASSUME NEW n \in Nat, NEW I \in SUBSET (1..n)
    PROVE  IsFiniteSet(I) /\ Cardinality(I) \in Nat /\ Ranked(I, n)
<1>1. IsFiniteSet(1..n)
  BY FS_Interval
<1>2. IsFiniteSet(I)
  BY <1>1, FS_Subset
<1>3. Cardinality(I) \in Nat
  BY <1>2, FS_CardinalityType
<1>4. Rank(I, 0) = 0
  <2>1. \A j \in 1..n : ~(j <= 0)
    OBVIOUS
  <2>2. {j \in I : j <= 0} = {}
    BY <2>1, Zenon
  <2>3. QED
    BY <2>2, FS_EmptySet DEF Rank
<1>5. Rank(I, n) = Cardinality(I)
  <2>1. \A j \in I : j <= n
    <3>1. \A j \in 1..n : j <= n
      OBVIOUS
    <3>2. QED
      BY <3>1, Zenon
  <2>2. {j \in I : j <= n} = I
    BY <2>1, Zenon
  <2>3. QED
    BY <2>2 DEF Rank
<1>6. ASSUME NEW i \in 0..n PROVE Rank(I, i) \in Nat /\ Rank(I, i) <= Cardinality(I)
  <2>1. {j \in I : j <= i} \in SUBSET I
    BY Zenon
  <2>2. QED
    BY <1>2, <2>1, FS_Subset, FS_CardinalityType DEF Rank
<1>7. ASSUME NEW i \in 0..(n - 1)
      PROVE  Rank(I, i + 1) = Rank(I, i) + (IF i + 1 \in I THEN 1 ELSE 0)
  <2> DEFINE A == {j \in I : j <= i}
  <2>1. IsFiniteSet(A) /\ i + 1 \notin A
    <3>1. A \in SUBSET I
      BY Zenon
    <3>2. ~(i + 1 <= i)
      OBVIOUS
    <3>3. QED
      BY <1>2, <3>1, <3>2, FS_Subset
  <2>2. \A j \in I : j <= i + 1 <=> j <= i \/ j = i + 1
    OBVIOUS
  <2>3. CASE i + 1 \in I
    <3>1. {j \in I : j <= i + 1} = A \cup {i + 1}
      BY <2>2, <2>3, Zenon
    <3>2. Cardinality(A \cup {i + 1}) = Cardinality(A) + 1
      BY <2>1, FS_AddElement
    <3>3. QED
      BY <2>3, <3>1, <3>2 DEF Rank
  <2>4. CASE i + 1 \notin I
    <3>1. {j \in I : j <= i + 1} = A
      BY <2>2, <2>4, Zenon
    <3>2. Cardinality(A) \in Nat
      BY <2>1, FS_CardinalityType
    <3>3. QED
      BY <2>4, <3>1, <3>2 DEF Rank
  <2>5. QED
    BY <2>3, <2>4
<1>8. QED
  BY <1>2, <1>3, <1>4, <1>5, <1>6, <1>7 DEF Ranked

\* A later position of the set has a higher rank.
LEMMA RankGrows ==
    ASSUME NEW n \in Nat, NEW I \in SUBSET (1..n), NEW i \in Nat, NEW j \in I, i < j
    PROVE  Rank(I, i) < Rank(I, j)
<1> DEFINE A == {l \in I : l <= i}
           B == {l \in I : l <= j}
<1>1. IsFiniteSet(I)
  BY RankFacts
<1>2. A \in SUBSET I /\ B \in SUBSET I /\ A \cup {j} \in SUBSET B /\ j \notin A
  <2>1. /\ \A l \in I : l <= i => l <= j
        /\ j <= j /\ ~(j <= i)
    OBVIOUS
  <2>2. QED
    BY <2>1, Zenon
<1>3. IsFiniteSet(A) /\ IsFiniteSet(B) /\ Cardinality(A) \in Nat /\ Cardinality(B) \in Nat
  BY <1>1, <1>2, FS_Subset, FS_CardinalityType
<1>4. Cardinality(A \cup {j}) = Cardinality(A) + 1
  BY <1>2, <1>3, FS_AddElement
<1>5. Cardinality(A \cup {j}) <= Cardinality(B)
  BY <1>2, <1>3, FS_Subset
<1>6. QED
  BY <1>3, <1>4, <1>5 DEF Rank

\* The k-th position is one of the set, with rank k, and the only one.
LEMMA PlaceFacts ==
    ASSUME NEW n \in Nat, NEW I \in SUBSET (1..n), NEW k \in 1..Cardinality(I)
    PROVE  /\ Place(I, k) \in I /\ Rank(I, Place(I, k)) = k
           /\ \A i \in I : Rank(I, i) = k => Place(I, k) = i
<1> DEFINE T == {p \in 0..n : Rank(I, p) >= k}
<1>1. /\ Cardinality(I) \in Nat /\ Rank(I, 0) = 0 /\ Rank(I, n) = Cardinality(I)
      /\ \A i \in 0..n : Rank(I, i) \in Nat
      /\ \A i \in 0..(n - 1) : Rank(I, i + 1) = Rank(I, i) + (IF i + 1 \in I THEN 1 ELSE 0)
  <2>1. Cardinality(I) \in Nat /\ Ranked(I, n)
    BY RankFacts
  <2>2. QED
    BY <2>1 DEF Ranked
<1>2. n \in T /\ T \subseteq Nat
  BY <1>1
<1>3. PICK p \in T : \A q \in T : ~(q < p)
  BY <1>2, LeastElement
<1>4. p \in 1..n /\ p - 1 \in 0..(n - 1)
  BY <1>1, <1>3
<1>5. Rank(I, p - 1) < k
  BY <1>1, <1>3, <1>4
<1>6. Rank(I, p) = Rank(I, p - 1) + (IF p \in I THEN 1 ELSE 0)
  <2>1. (p - 1) + 1 = p
    BY <1>4
  <2>2. QED
    BY <1>1, <1>4, <2>1
<1>7. p \in I /\ Rank(I, p) = k
  <2>1. Rank(I, p) >= k /\ Rank(I, p) \in Nat /\ Rank(I, p - 1) \in Nat
    BY <1>1, <1>3, <1>4
  <2>2. QED
    BY <1>5, <1>6, <2>1
<1>8. ASSUME NEW i \in I, NEW j \in I, Rank(I, i) = k, Rank(I, j) = k
      PROVE  i = j
  <2>1. i \in Nat /\ j \in Nat
    OBVIOUS
  <2>2. ~(i < j) /\ ~(j < i)
    <3>1. k \in Nat
      BY <1>1
    <3>2. i < j => Rank(I, i) < Rank(I, j)
      BY <2>1, RankGrows
    <3>3. j < i => Rank(I, j) < Rank(I, i)
      BY <2>1, RankGrows
    <3>4. QED
      BY <1>8, <3>1, <3>2, <3>3
  <2>3. QED
    BY <2>1, <2>2
<1>9. QED
  BY <1>7, <1>8 DEF Place

\* A subsequence has one element for each position.
LEMMA SubsequenceType ==
    ASSUME NEW S, NEW s \in Seq(S), NEW I \in SUBSET (1..Len(s))
    PROVE  Subsequence(s, I) \in Seq(S) /\ Len(Subsequence(s, I)) = Cardinality(I)
<1>1. Cardinality(I) \in Nat /\ Len(s) \in Nat
  BY RankFacts, LenProperties
<1>2. ASSUME NEW k \in 1..Cardinality(I) PROVE s[Place(I, k)] \in S
  <2>1. Place(I, k) \in I
    BY <1>1, PlaceFacts
  <2>2. Place(I, k) \in 1..Len(s)
    BY <2>1
  <2>3. QED
    BY <2>2, ElementOfSeq
<1>3. QED
  BY <1>1, <1>2 DEF Subsequence

\* The positions up to p at which c is.
Gone(s, c, p) == {i \in 1..Len(s) : s[i] = c /\ i <= p}

\* Of the first p positions each is one of c or one of the others.
LEMMA OthersRank ==
    ASSUME NEW S, NEW s \in Seq(S), NEW c, NEW p \in 0..Len(s)
    PROVE  /\ Others(s, c) \in SUBSET (1..Len(s))
           /\ Cardinality(Gone(s, c, p)) = p - Rank(Others(s, c), p)
<1> DEFINE n == Len(s)
           I == Others(s, c)
           J == {i \in 1..n : s[i] = c}
           Agrees(q) == Rank(J, q) = q - Rank(I, q)
           T == {q \in 0..n : ~Agrees(q)}
<1>1. n \in Nat
  BY LenProperties
<1>2. I \in SUBSET (1..n) /\ J \in SUBSET (1..n)
  BY Zenon DEF Others
<1>3. \A i \in 1..n : i \in I <=> i \notin J
  BY DEF Others
<1> HIDE DEF n, I, J
<1>4. /\ Rank(I, 0) = 0
      /\ \A i \in 0..n : Rank(I, i) \in Nat
      /\ \A i \in 0..(n - 1) : Rank(I, i + 1) = Rank(I, i) + (IF i + 1 \in I THEN 1 ELSE 0)
  <2>1. Ranked(I, n)
    BY <1>1, <1>2, RankFacts
  <2>2. QED
    BY <2>1 DEF Ranked
<1>5. /\ Rank(J, 0) = 0
      /\ \A i \in 0..n : Rank(J, i) \in Nat
      /\ \A i \in 0..(n - 1) : Rank(J, i + 1) = Rank(J, i) + (IF i + 1 \in J THEN 1 ELSE 0)
  <2>1. Ranked(J, n)
    BY <1>1, <1>2, RankFacts
  <2>2. QED
    BY <2>1 DEF Ranked
<1>6. T = {}
  <2>1. SUFFICES ASSUME T # {} PROVE FALSE
    OBVIOUS
  <2>2. PICK q \in T : \A r \in T : ~(r < q)
    <3>1. T \subseteq Nat
      OBVIOUS
    <3>2. QED
      BY <2>1, <3>1, LeastElement
  <2>3. q \in 0..n /\ ~Agrees(q) /\ q # 0
    BY <1>4, <1>5, <2>2
  <2>4. q - 1 \in 0..(n - 1) /\ q - 1 \in 0..n /\ (q - 1) + 1 = q /\ q \in 1..n /\ q - 1 < q
    BY <1>1, <2>3
  <2>5. Agrees(q - 1)
    BY <2>2, <2>4
  <2>6. /\ Rank(I, q) = Rank(I, q - 1) + (IF q \in I THEN 1 ELSE 0)
        /\ Rank(J, q) = Rank(J, q - 1) + (IF q \in J THEN 1 ELSE 0)
    BY <1>4, <1>5, <2>4
  <2>7. Rank(I, q - 1) \in Nat /\ Rank(J, q - 1) \in Nat
    BY <1>4, <1>5, <2>4
  <2>8. Agrees(q)
    BY <1>3, <2>4, <2>5, <2>6, <2>7
  <2>9. QED
    BY <2>3, <2>8
<1>7. Rank(J, p) = p - Rank(I, p)
  <2>1. p \in 0..n
    BY DEF n
  <2>2. QED
    BY <1>6, <2>1
<1>8. Gone(s, c, p) = {j \in J : j <= p}
  BY Zenon DEF J, n, Gone
<1>9. QED
  BY <1>2, <1>7, <1>8 DEF I, n, Rank

\* What is behind position p when every c is taken out is what was behind it,
\* without c; position p itself moves by the number of c up to it.
LEMMA WithoutRest ==
    ASSUME NEW S, NEW s \in Seq(S), NEW c, NEW p \in 0..Len(s),
           NEW d, d = Cardinality(Gone(s, c, p))
    PROVE  /\ d \in 0..p
           /\ Len(Without(s, c)) = Len(s) - Cardinality(Gone(s, c, Len(s)))
           /\ p - d <= Len(Without(s, c))
           /\ Without(s, c) \in Seq(S)
           /\ SubSeq(Without(s, c), p - d + 1, Len(Without(s, c)))
                = Without(SubSeq(s, p + 1, Len(s)), c)
<1> DEFINE n == Len(s)
           t == SubSeq(s, p + 1, n)
           I == Others(s, c)
           J == Others(t, c)
           w == Without(s, c)
           Agrees(q) == Rank(I, p + q) = Rank(I, p) + Rank(J, q)
           T == {q \in 0..(n - p) : ~Agrees(q)}
<1>1. n \in Nat /\ p \in Nat /\ p <= n
  BY LenProperties
<1>2. t \in Seq(S) /\ Len(t) = n - p /\ \A i \in 1..(n - p) : t[i] = s[p + i]
  BY <1>1, SubSeqProperties
<1>3. I \in SUBSET (1..n) /\ J \in SUBSET (1..(n - p))
  BY <1>2, Zenon DEF Others
<1>4. \A i \in 1..(n - p) : i \in J <=> p + i \in I
  BY <1>1, <1>2 DEF Others
<1>5. w \in Seq(S) /\ Len(w) = Cardinality(I) /\ \A k \in 1..Cardinality(I) : w[k] = s[Place(I, k)]
  BY <1>3, SubsequenceType DEF Without, Subsequence
<1>6. /\ Without(t, c) \in Seq(S) /\ Len(Without(t, c)) = Cardinality(J)
      /\ \A k \in 1..Cardinality(J) : Without(t, c)[k] = t[Place(J, k)]
  BY <1>2, <1>3, SubsequenceType DEF Without, Subsequence
<1>7. d = p - Rank(I, p)
  BY OthersRank
<1>8. Cardinality(Gone(s, c, n)) = n - Rank(I, n)
  <2>1. n \in 0..Len(s)
    BY <1>1
  <2>2. QED
    BY <2>1, OthersRank
<1> HIDE DEF n, t, I, J, w
<1>9. /\ Rank(I, n) = Cardinality(I) /\ Cardinality(I) \in Nat /\ Rank(I, 0) = 0
      /\ \A i \in 0..n : Rank(I, i) \in Nat /\ Rank(I, i) <= Cardinality(I)
      /\ \A i \in 0..(n - 1) : Rank(I, i + 1) = Rank(I, i) + (IF i + 1 \in I THEN 1 ELSE 0)
  <2>1. Cardinality(I) \in Nat /\ Ranked(I, n)
    BY <1>1, <1>3, RankFacts
  <2>2. QED
    BY <2>1 DEF Ranked
<1>10. /\ Rank(J, n - p) = Cardinality(J) /\ Cardinality(J) \in Nat /\ Rank(J, 0) = 0
       /\ \A i \in 0..(n - p) : Rank(J, i) \in Nat
       /\ \A i \in 0..((n - p) - 1) : Rank(J, i + 1) = Rank(J, i) + (IF i + 1 \in J THEN 1 ELSE 0)
  <2>1. PICK m \in Nat : m = n - p
    BY <1>1
  <2>2. J \in SUBSET (1..m)
    BY <1>3, <2>1
  <2>3. /\ Rank(J, m) = Cardinality(J) /\ Cardinality(J) \in Nat /\ Rank(J, 0) = 0
        /\ \A i \in 0..m : Rank(J, i) \in Nat
        /\ \A i \in 0..(m - 1) : Rank(J, i + 1) = Rank(J, i) + (IF i + 1 \in J THEN 1 ELSE 0)
    <3>1. Cardinality(J) \in Nat /\ Ranked(J, m)
      BY <2>2, RankFacts
    <3>2. QED
      BY <3>1 DEF Ranked
  <2>4. QED
    BY <2>1, <2>3
<1>11. T = {}
  <2>1. SUFFICES ASSUME T # {} PROVE FALSE
    OBVIOUS
  <2>2. PICK q \in T : \A r \in T : ~(r < q)
    <3>1. T \subseteq Nat
      OBVIOUS
    <3>2. QED
      BY <2>1, <3>1, LeastElement
  <2>3. q \in 0..(n - p) /\ ~Agrees(q) /\ q # 0
    BY <1>1, <1>9, <1>10, <2>2
  <2>4. /\ q - 1 \in 0..((n - p) - 1) /\ q - 1 \in 0..(n - p) /\ (q - 1) + 1 = q
        /\ q \in 1..(n - p) /\ q - 1 < q
        /\ p + (q - 1) \in 0..(n - 1) /\ (p + (q - 1)) + 1 = p + q /\ p + (q - 1) \in 0..n
    BY <1>1, <2>3
  <2>5. Agrees(q - 1)
    BY <2>2, <2>4
  <2>6. /\ Rank(I, p + q) = Rank(I, p + (q - 1)) + (IF p + q \in I THEN 1 ELSE 0)
        /\ Rank(J, q) = Rank(J, q - 1) + (IF q \in J THEN 1 ELSE 0)
    BY <1>9, <1>10, <2>4
  <2>7. Rank(I, p + (q - 1)) \in Nat /\ Rank(J, q - 1) \in Nat /\ Rank(I, p) \in Nat
    <3>1. p \in 0..n
      BY <1>1
    <3>2. QED
      BY <1>9, <1>10, <2>4, <3>1
  <2>8. Agrees(q)
    BY <1>4, <2>4, <2>5, <2>6, <2>7
  <2>9. QED
    BY <2>3, <2>8
<1>12. Cardinality(I) = Rank(I, p) + Cardinality(J) /\ Rank(I, p) \in Nat /\ Rank(I, p) <= p
  <2>1. Rank(I, p + (n - p)) = Rank(I, p) + Rank(J, n - p)
    BY <1>1, <1>11
  <2>2. p + (n - p) = n
    BY <1>1
  <2>3. Rank(I, p) <= p
    <3>1. d \in Nat
      <4>1. Gone(s, c, p) \in SUBSET (1..n)
        BY Zenon DEF n, Gone
      <4>2. QED
        BY <1>1, <4>1, RankFacts
    <3>2. QED
      BY <1>1, <1>7, <1>9, <3>1
  <2>4. QED
    BY <1>1, <1>9, <1>10, <2>1, <2>2, <2>3
<1>13. ASSUME NEW k \in 1..Cardinality(J)
       PROVE  w[Rank(I, p) + k] = Without(t, c)[k]
  <2> DEFINE i == Place(J, k)
  <2>1. i \in J /\ Rank(J, i) = k
    <3>1. n - p \in Nat
      BY <1>1
    <3>2. QED
      BY <1>3, <3>1, PlaceFacts
  <2>2. i \in 1..(n - p)
    BY <1>3, <2>1
  <2> HIDE DEF i
  <2>3. p + i \in I
    BY <1>4, <2>1, <2>2
  <2>4. Rank(I, p + i) = Rank(I, p) + k
    <3>1. i \in 0..(n - p)
      BY <2>2
    <3>2. QED
      BY <1>11, <2>1, <3>1
  <2>5. Rank(I, p) + k \in 1..Cardinality(I)
    BY <1>10, <1>12
  <2>6. Place(I, Rank(I, p) + k) = p + i
    BY <1>1, <1>3, <2>3, <2>4, <2>5, PlaceFacts
  <2>7. w[Rank(I, p) + k] = s[p + i]
    BY <1>5, <2>5, <2>6
  <2>8. Without(t, c)[k] = t[i]
    BY <1>6 DEF i
  <2>9. QED
    BY <1>2, <2>2, <2>7, <2>8
<1>14. SubSeq(w, Rank(I, p) + 1, Cardinality(I)) = Without(t, c)
  <2>1. /\ SubSeq(w, Rank(I, p) + 1, Cardinality(I)) \in Seq(S)
        /\ Len(SubSeq(w, Rank(I, p) + 1, Cardinality(I))) = Cardinality(J)
        /\ \A k \in 1..Cardinality(J) :
               SubSeq(w, Rank(I, p) + 1, Cardinality(I))[k] = w[Rank(I, p) + k]
    <3>1. PICK a \in Nat : a = Rank(I, p)
      BY <1>12
    <3>2. PICK b \in Nat : b = Cardinality(J)
      BY <1>10
    <3>3. Cardinality(I) = a + b /\ Len(w) = a + b /\ a + 1 \in Int /\ a + b \in Int
      BY <1>5, <1>12, <3>1, <3>2
    <3>4. \A i \in (a + 1)..(a + b) : w[i] \in S
      <4>1. \A i \in (a + 1)..(a + b) : i \in 1..Len(w)
        BY <3>3
      <4>2. QED
        BY <1>5, <4>1, ElementOfSeq
    <3>5. /\ SubSeq(w, a + 1, a + b) \in Seq(S)
          /\ Len(SubSeq(w, a + 1, a + b)) = IF a + 1 <= a + b THEN (a + b) - (a + 1) + 1 ELSE 0
          /\ \A i \in 1..((a + b) - (a + 1) + 1) : SubSeq(w, a + 1, a + b)[i] = w[(a + 1) + i - 1]
      BY <3>3, <3>4, SubSeqProperties
    <3>6. /\ Len(SubSeq(w, a + 1, a + b)) = b
          /\ \A k \in 1..b : SubSeq(w, a + 1, a + b)[k] = w[a + k]
      BY <3>5
    <3>7. QED
      BY <3>1, <3>2, <3>3, <3>5, <3>6
  <2>2. QED
    BY <1>6, <1>13, <2>1, SeqEqual
<1>15. p - d = Rank(I, p)
  BY <1>1, <1>7, <1>12
<1>16. d \in 0..p /\ Len(w) = n - (n - Rank(I, n)) /\ p - d <= Len(w)
  BY <1>1, <1>5, <1>7, <1>9, <1>10, <1>12
<1>17. SubSeq(w, p - d + 1, Len(w)) = Without(t, c)
  BY <1>5, <1>14, <1>15
<1>18. Len(w) = n - Cardinality(Gone(s, c, n))
  BY <1>8, <1>16
<1>19. QED
  BY <1>5, <1>16, <1>17, <1>18 DEF n, t, w

\* There is nothing to take out of the empty sequence.
LEMMA WithoutNothing ==
    ASSUME NEW c
    PROVE  Without(<<>>, c) = <<>>
<1>1. PICK s : s = <<>>
  OBVIOUS
<1>2. s \in Seq({}) /\ Len(s) = 0 /\ 0 \in 0..Len(s)
  BY <1>1, EmptySeq
<1>3. PICK d : d = Cardinality(Gone(s, c, 0))
  OBVIOUS
<1>4. Gone(s, c, 0) = {} /\ d = 0
  BY <1>2, <1>3, FS_EmptySet DEF Gone
<1>5. Without(s, c) \in Seq({}) /\ Len(Without(s, c)) = 0 - d
  BY <1>2, <1>3, WithoutRest
<1>6. Without(s, c) = <<>>
  BY <1>4, <1>5, EmptySeq
<1>7. QED
  BY <1>1, <1>6

\* The rank up to a later position is not lower.
LEMMA RankRises ==
    ASSUME NEW n \in Nat, NEW I \in SUBSET (1..n), NEW i \in Nat, NEW j \in Nat, i <= j
    PROVE  Rank(I, i) <= Rank(I, j) /\ Rank(I, i) \in Nat /\ Rank(I, j) \in Nat
<1> DEFINE A == {l \in I : l <= i}
           B == {l \in I : l <= j}
<1>1. IsFiniteSet(I)
  BY RankFacts
<1>2. A \in SUBSET B /\ B \in SUBSET I
  <2>1. \A l \in I : l <= i => l <= j
    OBVIOUS
  <2>2. QED
    BY <2>1, Zenon
<1>3. IsFiniteSet(B) /\ IsFiniteSet(A)
  BY <1>1, <1>2, FS_Subset
<1>4. Cardinality(A) <= Cardinality(B) /\ Cardinality(A) \in Nat /\ Cardinality(B) \in Nat
  BY <1>2, <1>3, FS_Subset, FS_CardinalityType
<1>5. QED
  BY <1>4 DEF Rank

\* Of the first p positions, those that are not in I are all but its rank.
LEMMA RankOfRest ==
    ASSUME NEW n \in Nat, NEW I \in SUBSET (1..n), NEW p \in 0..n
    PROVE  Cardinality((1..p) \ I) = p - Rank(I, p)
<1>1. IsFiniteSet(1..p) /\ Cardinality(1..p) = p
  BY FS_Interval
<1>2. Cardinality((1..p) \ I) = Cardinality(1..p) - Cardinality((1..p) \cap I)
  BY <1>1, FS_Difference
<1>3. (1..p) \cap I = {j \in I : j <= p}
  <2>1. \A j \in I : j \in 1..n /\ (j <= p <=> j \in 1..p)
    OBVIOUS
  <2>2. QED
    BY <2>1
<1>4. QED
  BY <1>1, <1>2, <1>3 DEF Rank

\* Whether the k-th position is one of the first p.
LEMMA PlaceUpTo ==
    ASSUME NEW n \in Nat, NEW I \in SUBSET (1..n), NEW k \in 1..Cardinality(I), NEW p \in 0..n
    PROVE  Place(I, k) <= p <=> k <= Rank(I, p)
<1>1. PICK i \in I : i = Place(I, k) /\ Rank(I, i) = k
  <2>1. Place(I, k) \in I /\ Rank(I, Place(I, k)) = k
    BY PlaceFacts, Zenon
  <2>2. QED
    BY <2>1, Zenon
<1>2. i \in 1..n /\ p <= n /\ p \in Nat /\ n \in Nat /\ k \in Nat
  BY RankFacts
<1>3. Rank(I, p) \in Nat
  BY <1>2, RankRises
<1>4. CASE i <= p
  <2>1. i \in Nat
    BY <1>2
  <2>2. Rank(I, i) <= Rank(I, p)
    BY <1>2, <1>4, <2>1, RankRises
  <2>3. QED
    BY <1>1, <1>4, <2>2
<1>5. CASE p < i
  <2>1. Rank(I, p) < Rank(I, i)
    BY <1>2, <1>5, RankGrows
  <2>2. QED
    BY <1>1, <1>2, <1>3, <1>5, <2>1
<1>6. QED
  BY <1>2, <1>4, <1>5

\* The elements of a subsequence, and where they were.
LEMMA SubsequenceIs ==
    ASSUME NEW S, NEW s \in Seq(S), NEW I \in SUBSET (1..Len(s)),
           NEW q, q = Subsequence(s, I)
    PROVE  /\ q \in Seq(S) /\ Len(q) = Cardinality(I) /\ Len(q) \in Nat
           /\ \A k \in 1..Len(q) : Place(I, k) \in I /\ q[k] = s[Place(I, k)]
           /\ \A i \in I : \E k \in 1..Len(q) : i = Place(I, k)
           /\ \A j, k \in 1..Len(q) : Place(I, j) = Place(I, k) => j = k
<1>1. PICK n \in Nat : n = Len(s) /\ I \in SUBSET (1..n)
  BY LenProperties
<1>2. q \in Seq(S) /\ Len(q) = Cardinality(I) /\ Cardinality(I) \in Nat
  BY <1>1, SubsequenceType, RankFacts
<1>3. ASSUME NEW k \in 1..Len(q)
      PROVE  Place(I, k) \in I /\ q[k] = s[Place(I, k)] /\ Rank(I, Place(I, k)) = k
  BY <1>1, <1>2, <1>3, PlaceFacts DEF Subsequence
<1>4. ASSUME NEW i \in I PROVE \E k \in 1..Len(q) : i = Place(I, k)
  <2>1. i \in 1..n /\ i - 1 \in 0..n /\ i - 1 \in Nat /\ i - 1 < i
    BY <1>1
  <2>2. Rank(I, i) \in Nat /\ Rank(I, i - 1) \in Nat /\ Rank(I, i) <= Cardinality(I)
    BY <1>1, <2>1, RankFacts DEF Ranked
  <2>3. Rank(I, i - 1) < Rank(I, i)
    BY <1>1, <2>1, RankGrows
  <2>4. PICK k \in 1..Cardinality(I) : k = Rank(I, i)
    BY <1>2, <2>2, <2>3
  <2>5. Place(I, k) = i
    BY <1>1, <2>4, PlaceFacts
  <2>6. QED
    BY <1>2, <2>4, <2>5
<1>5. QED
  BY <1>2, <1>3, <1>4
============================================================================
