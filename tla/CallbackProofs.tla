--------------------------- MODULE CallbackProofs ---------------------------
(***************************************************************************)
(* A callback list keeps the promise of CallbackRounds, for every set of   *)
(* functions and any number of fire calls and uses, and a Deferred that of *)
(* Promise, for every set of handlers and any number of uses.              *)
(***************************************************************************)
EXTENDS CallbackParts, SubsequenceProofs, FiniteSetTheorems, SequenceTheorems, TLAPS

-----------------------------------------------------------------------------
(* The list: the inductive invariant.                                      *)

\* The values of the closure's variables.
Lists ==
    [options : SUBSET Flags, list : Seq(Functions), live : BOOLEAN,
     stack : Seq(1..MaxFires), stacking : BOOLEAN, memory : (1..MaxFires) \cup {None},
     fired : BOOLEAN, firing : BOOLEAN, data : (1..MaxFires) \cup {None},
     firingStart : Nat, firingLength : Nat, firingIndex : Nat \cup {-1}]

\* The fire calls that wait, while the list is firing, have later values than
\* the one being fired, in order; all values are of the first n fire calls, and
\* what is remembered is what was fired last.
ListOK(M, n) ==
    /\ M \in Lists
    /\ M.firingStart = 0
    /\ ~M.live => M.list = <<>> /\ M.stack = <<>>
    /\ ~M.firing \/ ~M.stacking => M.stack = <<>>
    /\ M.data # None => M.data <= n
    /\ M.firing => M.fired /\ M.data # None
    /\ M.memory # None => M.memory = M.data
    /\ \A i \in 1..Len(M.stack) : M.data < M.stack[i] /\ M.stack[i] <= n
    /\ \A i, j \in 1..Len(M.stack) : i < j => M.stack[i] < M.stack[j]

\* The loop of a list that is firing is at a callback or behind the last one;
\* code of the page runs while it is at one, or at one that was removed.
LoopOK(M, a) ==
    M.live /\ M.firing =>
        /\ M.firingLength = Len(M.list)
        /\ IF a = "loop"
           THEN M.firingIndex \in 0..Len(M.list)
           ELSE M.firingIndex \in -1..(Len(M.list) - 1)

\* No call had a later value than the one that was fired last.
ListInv ==
    /\ ListOK(L, fires)
    /\ LoopOK(L, at)
    /\ at \in {"idle", "loop", "call"}
    /\ fires \in 0..MaxFires
    /\ uses \in 0..MaxUses
    /\ call \in [fn : Functions \cup {None}, value : 0..MaxFires]
    /\ thrown \in BOOLEAN
    /\ at # "idle" => L.firing
    /\ at = "idle" /\ ~thrown => ~L.firing
    /\ at = "call" => call.fn \in Functions /\ call.value \in 1..MaxFires
    /\ IF L.data = None THEN call.value = 0 ELSE call.value <= L.data

-----------------------------------------------------------------------------
(* The list: what the operators return.                                    *)

\* The fields of a list.
LEMMA ListFields ==
    ASSUME NEW M \in Lists
    PROVE  /\ M.options \in SUBSET Flags /\ M.list \in Seq(Functions) /\ M.live \in BOOLEAN
           /\ M.stack \in Seq(1..MaxFires) /\ M.stacking \in BOOLEAN
           /\ M.memory \in (1..MaxFires) \cup {None} /\ M.fired \in BOOLEAN
           /\ M.firing \in BOOLEAN /\ M.data \in (1..MaxFires) \cup {None}
           /\ M.firingStart \in Nat /\ M.firingLength \in Nat /\ M.firingIndex \in Nat \cup {-1}
           /\ Len(M.list) \in Nat /\ Len(M.stack) \in Nat
BY LenProperties DEF Lists

\* A list that begins to fire v is at its firingStart.
LEMMA FireShape ==
    ASSUME NEW M \in Lists, NEW v \in 1..MaxFires
    PROVE  /\ Fire(M, v) \in Lists
           /\ Fire(M, v).list = M.list /\ Fire(M, v).live = M.live
           /\ Fire(M, v).stack = M.stack /\ Fire(M, v).stacking = M.stacking
           /\ Fire(M, v).memory \in {v, None} /\ Fire(M, v).fired
           /\ Fire(M, v).firing /\ Fire(M, v).data = v
           /\ Fire(M, v).firingStart = 0 /\ Fire(M, v).firingLength = Len(M.list)
           /\ Fire(M, v).firingIndex = M.firingStart
<1>1. Len(M.list) \in Nat /\ 0 \in Nat /\ TRUE \in BOOLEAN /\ M.firingStart \in Nat
  BY ListFields
<1>2. PICK m \in {v, None} : m = IF "memory" \in M.options THEN v ELSE None
  OBVIOUS
<1>3. Fire(M, v) = [M EXCEPT !.memory = m, !.fired = TRUE, !.firingIndex = M.firingStart,
                             !.firingStart = 0, !.firingLength = Len(M.list),
                             !.firing = TRUE, !.data = v]
  BY <1>2 DEF Fire
<1>4. Fire(M, v) = [options |-> M.options, list |-> M.list, live |-> M.live,
                    stack |-> M.stack, stacking |-> M.stacking, memory |-> m,
                    fired |-> TRUE, firing |-> TRUE, data |-> v, firingStart |-> 0,
                    firingLength |-> Len(M.list), firingIndex |-> M.firingStart]
  BY <1>3 DEF Lists
<1>5. Fire(M, v) \in Lists
  BY <1>1, <1>2, <1>4, ListFields DEF Lists
<1>6. QED
  BY <1>2, <1>4, <1>5

\* disable takes the list, the stack and the memory away.
LEMMA DisableShape ==
    ASSUME NEW M \in Lists
    PROVE  /\ Disable(M) \in Lists
           /\ Disable(M).list = <<>> /\ ~Disable(M).live /\ Disable(M).stack = <<>>
           /\ ~Disable(M).stacking /\ Disable(M).memory = None
           /\ Disable(M).fired = M.fired /\ Disable(M).firing = M.firing
           /\ Disable(M).data = M.data
           /\ Disable(M).firingStart = M.firingStart
           /\ Disable(M).firingLength = M.firingLength /\ Disable(M).firingIndex = M.firingIndex
<1>1. <<>> \in Seq(Functions) /\ <<>> \in Seq(1..MaxFires) /\ FALSE \in BOOLEAN
  BY EmptySeq
<1>2. Disable(M) \in Lists
  BY <1>1 DEF Lists, Disable
<1>3. QED
  BY <1>2 DEF Lists, Disable

\* remove takes the indexes of a list that is firing down.
LEMMA RemoveShape ==
    ASSUME NEW M \in Lists, NEW c,
           M.firing /\ M.live => M.firingLength = Len(M.list) /\ M.firingIndex < Len(M.list),
           ~M.live => M.list = <<>>,
           NEW N, N = RemoveAll(M, c)
    PROVE  /\ N \in Lists
           /\ N.list = Without(M.list, c) /\ N.live = M.live
           /\ N.stack = M.stack /\ N.stacking = M.stacking
           /\ N.memory = M.memory /\ N.fired = M.fired /\ N.firing = M.firing
           /\ N.data = M.data
           /\ N.firingStart = M.firingStart
           /\ ~M.live => N.list = <<>>
           /\ M.firing /\ M.live =>
                  /\ N.firingLength = Len(N.list)
                  /\ N.firingIndex >= -1 /\ N.firingIndex < Len(N.list)
                  /\ SubSeq(N.list, N.firingIndex + 2, N.firingLength)
                       = Without(SubSeq(M.list, M.firingIndex + 2, M.firingLength), c)
<1> DEFINE w == Without(M.list, c)
           Set(limit) == {i \in 1..Len(M.list) : M.list[i] = c /\ i - 1 <= limit}
           Step(limit) == IF M.firing THEN limit - Cardinality(Set(limit)) ELSE limit
<1>1. /\ M.list \in Seq(Functions) /\ Len(M.list) \in Nat /\ M.firing \in BOOLEAN /\ M.live \in BOOLEAN
      /\ M.firingLength \in Nat /\ M.firingIndex \in Nat \cup {-1}
  BY ListFields
<1>2. N = [M EXCEPT !.list = w, !.firingLength = Step(M.firingLength),
                    !.firingIndex = Step(M.firingIndex)]
  BY Zenon DEF RemoveAll
<1>3. w \in Seq(Functions) /\ Len(w) \in Nat
      /\ Len(w) = Len(M.list) - Cardinality(Gone(M.list, c, Len(M.list)))
  <2>1. 0 \in 0..Len(M.list)
    BY <1>1
  <2>2. QED
    BY <1>1, <2>1, WithoutRest, LenProperties
<1>4. ASSUME ~M.live PROVE w = <<>> /\ \A b : Cardinality(Set(b)) = 0
  <2>1. Len(M.list) = 0
    BY <1>4
  <2>2. \A b : Set(b) = {}
    BY <2>1
  <2>3. Gone(M.list, c, Len(M.list)) = {}
    BY <2>1 DEF Gone
  <2>4. Cardinality({}) = 0
    BY FS_EmptySet
  <2>5. \A b : Cardinality(Set(b)) = 0
    BY <2>2, <2>4
  <2>6. Cardinality(Gone(M.list, c, Len(M.list))) = 0
    BY <2>3, <2>4
  <2> HIDE DEF w, Set, Step
  <2>7. Len(w) = 0
    BY <1>3, <2>1, <2>6
  <2>8. w = <<>>
    BY <1>3, <2>7, EmptySeq
  <2>9. QED
    BY <2>5, <2>8
<1>5. ASSUME M.firing, M.live
      PROVE  /\ Step(M.firingLength) = Len(w)
             /\ Step(M.firingIndex) \in -1..(Len(w) - 1)
             /\ SubSeq(w, Step(M.firingIndex) + 2, Len(w))
                  = Without(SubSeq(M.list, M.firingIndex + 2, Len(M.list)), c)
  <2>1. /\ M.firingLength = Len(M.list) /\ M.firingIndex < Len(M.list)
        /\ M.firingIndex + 1 \in 0..Len(M.list)
    BY <1>1, <1>5
  <2>2. PICK p \in 0..Len(M.list) : p = M.firingIndex + 1
    BY <2>1
  <2>3. Set(M.firingIndex) = Gone(M.list, c, p)
    <3>1. \A i \in 1..Len(M.list) : i - 1 <= M.firingIndex <=> i <= p
      BY <1>1, <2>2
    <3>2. QED
      BY <3>1, Zenon DEF Gone
  <2>4. Set(M.firingLength) = Gone(M.list, c, Len(M.list))
    <3>1. \A i \in 1..Len(M.list) : i - 1 <= M.firingLength /\ i <= Len(M.list)
      BY <1>1, <2>1
    <3>2. QED
      BY <3>1, Zenon DEF Gone
  <2>5. PICK d : d = Cardinality(Gone(M.list, c, p))
    OBVIOUS
  <2>6. Step(M.firingLength) = M.firingLength - Cardinality(Gone(M.list, c, Len(M.list)))
        /\ Step(M.firingIndex) = M.firingIndex - d
    BY <1>5, <2>3, <2>4, <2>5
  <2> HIDE DEF w, Set, Step
  <2>7. /\ d \in 0..p
        /\ p - d <= Len(w)
        /\ SubSeq(w, p - d + 1, Len(w)) = Without(SubSeq(M.list, p + 1, Len(M.list)), c)
    BY <1>1, <2>5, WithoutRest DEF w
  <2>8. /\ p + 1 = M.firingIndex + 2 /\ p - d + 1 = Step(M.firingIndex) + 2
        /\ Step(M.firingIndex) = p - d - 1
    <3>1. PICK i \in Int : i = M.firingIndex
      BY <1>1
    <3>2. i + 1 = p /\ p \in Int /\ d \in Int /\ Step(M.firingIndex) = i - d
      BY <2>2, <2>6, <2>7, <3>1
    <3>3. QED
      BY <3>1, <3>2
  <2>9. Step(M.firingLength) = Len(w)
    BY <1>3, <2>1, <2>6
  <2>10. Step(M.firingIndex) \in -1..(Len(w) - 1)
    <3>1. p \in Nat /\ d \in Nat /\ Len(w) \in Nat /\ d <= p /\ p - d <= Len(w)
      BY <1>1, <1>3, <2>7
    <3>2. QED
      BY <2>8, <3>1
  <2>11. QED
    BY <2>7, <2>8, <2>9, <2>10
<1>6. Step(M.firingLength) \in Nat /\ Step(M.firingIndex) \in Nat \cup {-1}
  <2>1. CASE ~M.firing
    BY <1>1, <2>1
  <2>2. CASE M.firing /\ ~M.live
    <3> HIDE DEF Set
    <3>1. Step(M.firingLength) = M.firingLength - 0 /\ Step(M.firingIndex) = M.firingIndex - 0
      BY <1>4, <2>2
    <3>2. QED
      BY <1>1, <3>1
  <2>3. CASE M.firing /\ M.live
    BY <1>3, <1>5, <2>3
  <2>4. QED
    BY <1>1, <2>1, <2>2, <2>3
<1> HIDE DEF w, Step
<1>7. /\ N \in Lists
      /\ N.list = w /\ N.live = M.live /\ N.stack = M.stack /\ N.stacking = M.stacking
      /\ N.memory = M.memory /\ N.fired = M.fired /\ N.firing = M.firing
      /\ N.data = M.data
      /\ N.firingStart = M.firingStart /\ N.firingLength = Step(M.firingLength)
      /\ N.firingIndex = Step(M.firingIndex)
  <2> DEFINE n == Step(M.firingLength)
             i == Step(M.firingIndex)
  <2>1. n \in Nat /\ i \in Nat \cup {-1} /\ w \in Seq(Functions)
    BY <1>3, <1>6
  <2>2. N = [M EXCEPT !.list = w, !.firingLength = n, !.firingIndex = i]
    BY <1>2
  <2> HIDE DEF n, i
  <2>3. /\ N \in Lists
        /\ N.list = w /\ N.live = M.live /\ N.stack = M.stack /\ N.stacking = M.stacking
        /\ N.memory = M.memory /\ N.fired = M.fired /\ N.firing = M.firing
        /\ N.data = M.data
        /\ N.firingStart = M.firingStart /\ N.firingLength = n /\ N.firingIndex = i
    BY <2>1, <2>2 DEF Lists
  <2>4. QED
    BY <2>3 DEF n, i
<1>8. M.firing /\ M.live =>
          /\ N.firingLength = Len(N.list)
          /\ N.firingIndex >= -1 /\ N.firingIndex < Len(N.list)
          /\ SubSeq(N.list, N.firingIndex + 2, N.firingLength)
               = Without(SubSeq(M.list, M.firingIndex + 2, M.firingLength), c)
  BY <1>3, <1>5, <1>7
<1>9. QED
  BY <1>4, <1>7, <1>8 DEF w

\* What add pushes are at most two callbacks.
LEMMA PushedType ==
    ASSUME NEW M \in Lists, NEW cs \in [1..1 -> Functions] \cup [1..2 -> Functions]
    PROVE  Pushed(M, cs) \in Rounds!Arrivals /\ Pushed(M, cs) \in Seq(Functions)
<1> DEFINE I == {i \in DOMAIN cs :
                    "unique" \in M.options =>
                        ~Has(M, cs[i]) /\ \A j \in 1..(i - 1) : cs[j] # cs[i]}
           s == Subsequence(cs, I)
<1>1. cs \in Seq(Functions) /\ Len(cs) \in {1, 2} /\ DOMAIN cs = 1..Len(cs)
  <2>1. PICK n \in {1, 2} : cs \in [1..n -> Functions]
    OBVIOUS
  <2>2. n \in Nat
    BY <2>1
  <2>3. cs \in Seq(Functions)
    <3>1. cs \in UNION {[1..m -> Functions] : m \in Nat}
      BY <2>1, <2>2, Zenon
    <3>2. Seq(Functions) = UNION {[1..m -> Functions] : m \in Nat}
      BY SeqDef
    <3>3. QED
      BY <3>1, <3>2, Zenon
  <2>4. DOMAIN cs = 1..n /\ DOMAIN cs = 1..Len(cs) /\ Len(cs) \in Nat
    BY <2>1, <2>3, LenProperties
  <2>5. Len(cs) = n
    BY <2>1, <2>2, <2>4
  <2>6. QED
    BY <2>1, <2>3, <2>4, <2>5
<1>2. I \in SUBSET (1..Len(cs))
  <2>1. I \subseteq DOMAIN cs
    OBVIOUS
  <2> HIDE DEF I
  <2>2. QED
    BY <1>1, <2>1
<1>3. Pushed(M, cs) = s
  BY Zenon DEF Pushed
<1> HIDE DEF I
<1>4. s \in Seq(Functions) /\ Len(s) = Cardinality(I)
  BY <1>1, <1>2, SubsequenceType
<1>5. Cardinality(I) \in 0..2
  <2>1. IsFiniteSet(1..Len(cs)) /\ Cardinality(1..Len(cs)) = Len(cs)
    BY <1>1, FS_Interval
  <2>2. IsFiniteSet(I) /\ Cardinality(I) <= Cardinality(1..Len(cs))
    BY <1>2, <2>1, FS_Subset
  <2>3. Cardinality(I) \in Nat /\ Cardinality(I) <= Len(cs)
    BY <2>1, <2>2, FS_CardinalityType
  <2>4. QED
    BY <1>1, <2>3
<1> HIDE DEF s
<1>6. s \in Rounds!Arrivals
  <2>1. s = <<>> \/ s \in [1..1 -> Functions] \/ s \in [1..2 -> Functions]
    <3>1. s \in [1..Len(s) -> Functions] /\ (Len(s) = 0 => s = <<>>)
      BY <1>4, LenProperties, EmptySeq, ElementOfSeq
    <3>2. Len(s) = 0 \/ Len(s) = 1 \/ Len(s) = 2
      BY <1>4, <1>5
    <3>3. QED
      BY <3>1, <3>2
  <2>2. QED
    BY <2>1 DEF Rounds!Arrivals
<1>7. QED
  BY <1>3, <1>4, <1>6

-----------------------------------------------------------------------------
(* The list: every step keeps the invariant, and is a step of the rounds.  *)

\* The two definitions of taking out agree.
LEMMA SameWithout ==
    \A s, c : Rounds!Without(s, c) = Without(s, c)
<1>1. \A I, i : Rounds!Rank(I, i) = Rank(I, i)
  BY DEF Rounds!Rank, Rank, Rounds!Cardinality, Cardinality
<1>2. ASSUME NEW I, NEW k PROVE Rounds!Place(I, k) = Place(I, k)
  <2>1. (CHOOSE i \in I : Rounds!Rank(I, i) = k) = (CHOOSE i \in I : Rank(I, i) = k)
    BY <1>1, Zenon
  <2>2. QED
    BY <2>1 DEF Rounds!Place, Place
<1>3. \A s, I : Rounds!Subsequence(s, I) = Subsequence(s, I)
  BY <1>2 DEF Rounds!Subsequence, Subsequence, Rounds!Cardinality, Cardinality
<1>4. \A s, c : Rounds!Others(s, c) = Others(s, c)
  BY DEF Rounds!Others, Others
<1>5. QED
  BY <1>3, <1>4 DEF Rounds!Without, Without

\* The round and the call, as the rounds have them.
BarRound == IF L.firing THEN L.data ELSE None
BarCall == IF at = "call" THEN <<call.fn, call.value>> ELSE None

ListStep ==
    /\ ListInv'
    /\ Rounds!Next \/ UNCHANGED Rounds!vars
    /\ call.value <= call'.value

\* The types that ListInv gives.
LEMMA ListInvTypes ==
    ASSUME ListInv
    PROVE  /\ L \in Lists /\ fires \in Nat /\ fires <= MaxFires /\ call.value \in Nat
           /\ L.list \in Seq(Functions) /\ Len(L.list) \in Nat /\ L.live \in BOOLEAN
           /\ L.stack \in Seq(1..MaxFires) /\ L.stacking \in BOOLEAN /\ L.firing \in BOOLEAN
           /\ L.memory \in (1..MaxFires) \cup {None} /\ L.data \in (1..MaxFires) \cup {None}
           /\ L.firingStart = 0 /\ L.firingLength \in Nat /\ L.firingIndex \in Nat \cup {-1}
           /\ MaxFires \in Nat /\ None \notin 1..MaxFires
<1>1. L \in Lists /\ L.firingStart = 0
  BY DEF ListInv, ListOK
<1>2. fires \in Nat /\ fires <= MaxFires /\ call.value \in Nat /\ MaxFires \in Nat
  BY CallbacksAssumption DEF ListInv
<1>3. QED
  BY <1>1, <1>2, ListFields, CallbacksAssumption

\* A call of a method that leaves the list as it is.
LEMMA NothingUsed ==
    ASSUME ListInv, L' = L, at' = at, UNCHANGED <<fires, call, thrown>>, uses' \in 0..MaxUses
    PROVE  ListStep
<1>1. ListInv'
  BY DEF ListInv, ListOK, LoopOK
<1>2. UNCHANGED Rounds!vars
  BY DEF Rounds!vars, Unvisited
<1>3. call.value <= call'.value
  BY ListInvTypes
<1>4. QED
  BY <1>1, <1>2, <1>3 DEF ListStep

\* A method that was called keeps the invariant when the list it leaves does.
LEMMA UseKeeps ==
    ASSUME ListInv, NEW M, Use(M), ListOK(M, fires), LoopOK(M, at'),
           L.firing => M.firing, M.data = L.data
    PROVE  ListInv' /\ call' = call /\ call.value <= call'.value
<1>1. L' = M /\ at' = (IF at = "idle" /\ M.firing /\ ~L.firing THEN "loop" ELSE at)
      /\ UNCHANGED <<fires, call, thrown>> /\ uses' = uses + 1 /\ uses < MaxUses
  BY DEF Use, Becomes
<1>2. uses' \in 0..MaxUses /\ MaxUses \in Nat
  BY <1>1, CallbacksAssumption DEF ListInv
<1>3. ListOK(L', fires') /\ LoopOK(L', at')
  BY <1>1
<1>4. ListOK(L, fires)' /\ LoopOK(L, at)'
  BY <1>3 DEF ListOK, LoopOK
<1>5. call.value <= call'.value
  BY <1>1, ListInvTypes
<1>6. QED
  BY <1>1, <1>2, <1>4, <1>5 DEF ListInv

\* disable leaves nobody to call.
LEMMA DisableSteps ==
    ASSUME ListInv, NEW M, M = Disable(L) \/ (L.memory = None /\ M = Disable([L EXCEPT !.stacking = FALSE, !.stack = <<>>])),
           Use(M)
    PROVE  ListStep
<1>1. /\ M \in Lists
      /\ M.list = <<>> /\ ~M.live /\ M.stack = <<>> /\ ~M.stacking /\ M.memory = None
      /\ M.fired = L.fired /\ M.firing = L.firing /\ M.data = L.data /\ M.firingStart = 0
  <2>1. CASE M = Disable(L)
    BY <2>1, DisableShape, ListInvTypes
  <2>2. CASE M = Disable([L EXCEPT !.stacking = FALSE, !.stack = <<>>])
    <3>1. PICK N : N = [L EXCEPT !.stacking = FALSE, !.stack = <<>>]
      OBVIOUS
    <3>2. <<>> \in Seq(1..MaxFires)
      BY EmptySeq
    <3>3. /\ N \in Lists /\ N.fired = L.fired /\ N.firing = L.firing
          /\ N.data = L.data /\ N.firingStart = L.firingStart
      BY <3>1, <3>2, ListInvTypes DEF Lists
    <3>4. QED
      BY <2>2, <3>1, <3>3, DisableShape, ListInvTypes
  <2>3. QED
    BY <2>1, <2>2
<1>2. ListOK(M, fires) /\ LoopOK(M, at')
  BY <1>1, EmptySeq DEF ListInv, ListOK, LoopOK
<1>3. ListInv' /\ call' = call /\ call.value <= call'.value
  BY <1>1, <1>2, UseKeeps
<1>4. L' = M /\ at' = at
  BY <1>1 DEF Use, Becomes
<1>5. Rounds!Dissolve
  BY <1>1, <1>3, <1>4 DEF Rounds!Dissolve, Unvisited
<1>6. QED
  BY <1>3, <1>5 DEF ListStep, Rounds!Next

LEMMA LockSteps ==
    ASSUME ListInv, LockIt
    PROVE  ListStep
<1>1. PICK N : N = [L EXCEPT !.stacking = FALSE, !.stack = <<>>]
  OBVIOUS
<1>2. <<>> \in Seq(1..MaxFires) /\ FALSE \in BOOLEAN
  BY EmptySeq
<1>3. /\ N \in Lists /\ N.list = L.list /\ N.live = L.live /\ N.stack = <<>> /\ ~N.stacking
      /\ N.memory = L.memory /\ N.fired = L.fired /\ N.firing = L.firing /\ N.data = L.data
      /\ N.firingStart = L.firingStart /\ N.firingLength = L.firingLength
      /\ N.firingIndex = L.firingIndex
  BY <1>1, <1>2, ListInvTypes DEF Lists
<1>4. CASE L.memory = None
  <2>1. Use(Disable(N))
    BY <1>1, <1>3, <1>4 DEF LockIt, Lock
  <2>2. QED
    BY <1>1, <1>4, <2>1, DisableSteps
<1>5. CASE L.memory # None
  <2>1. Use(N)
    BY <1>1, <1>3, <1>5 DEF LockIt, Lock
  <2>2. L' = N /\ at' = at
    BY <1>3, <2>1 DEF Use, Becomes
  <2>3. ListOK(N, fires) /\ LoopOK(N, at')
    BY <1>3, <2>2, EmptySeq DEF ListInv, ListOK, LoopOK
  <2>4. ListInv' /\ call' = call /\ call.value <= call'.value
    BY <1>3, <2>1, <2>3, UseKeeps
  <2>5. UNCHANGED Rounds!vars
    BY <1>3, <2>2, <2>4 DEF Rounds!vars, Unvisited
  <2>6. QED
    BY <2>4, <2>5 DEF ListStep
<1>6. QED
  BY <1>4, <1>5

\* empty, of a list that is not firing.
LEMMA EmptySteps ==
    ASSUME ListInv, ~EmptyWhileFiring, EmptyIt
    PROVE  ListStep
<1>1. PICK M : M = Empty(L)
  OBVIOUS
<1>2. <<>> \in Seq(Functions) /\ TRUE \in BOOLEAN /\ 0 \in Nat
  BY EmptySeq
<1>3. /\ M \in Lists /\ M.list = <<>> /\ M.stack = L.stack /\ M.stacking = L.stacking
      /\ M.memory = L.memory /\ M.fired = L.fired /\ M.firing = L.firing /\ M.data = L.data
      /\ M.firingStart = L.firingStart
  BY <1>1, <1>2, ListInvTypes DEF Lists, Empty
<1>4. ~L.firing /\ Use(M)
  BY <1>1 DEF EmptyIt
<1>5. L' = M /\ at' = at
  BY <1>3, <1>4 DEF Use, Becomes
<1>6. ListOK(M, fires) /\ LoopOK(M, at')
  BY <1>3, <1>4 DEF ListInv, ListOK, LoopOK
<1>7. ListInv' /\ call' = call /\ call.value <= call'.value
  BY <1>3, <1>4, <1>6, UseKeeps
<1>8. Rounds!Dissolve
  BY <1>3, <1>4, <1>5, <1>7 DEF Rounds!Dissolve, Unvisited
<1>9. QED
  BY <1>7, <1>8 DEF ListStep, Rounds!Next

\* remove: the callback leaves the list and the rest of the round.
LEMMA RemoveSteps ==
    ASSUME ListInv, RemoveOne
    PROVE  ListStep
<1>1. PICK c \in Functions : Use(RemoveAll(L, c))
  BY DEF RemoveOne
<1>2. PICK M : M = RemoveAll(L, c)
  OBVIOUS
<1>3. at \in {"idle", "call"}
  BY <1>1 DEF Use, CallerRuns
<1>4. /\ L.firing /\ L.live => L.firingLength = Len(L.list) /\ L.firingIndex < Len(L.list)
      /\ ~L.live => L.list = <<>>
  BY <1>3, ListInvTypes DEF ListInv, LoopOK, ListOK
<1>5. /\ M \in Lists
      /\ M.list = Without(L.list, c) /\ M.live = L.live
      /\ M.stack = L.stack /\ M.stacking = L.stacking
      /\ M.memory = L.memory /\ M.fired = L.fired /\ M.firing = L.firing /\ M.data = L.data
      /\ M.firingStart = L.firingStart
      /\ ~L.live => M.list = <<>>
      /\ L.firing /\ L.live =>
             /\ M.firingLength = Len(M.list)
             /\ M.firingIndex >= -1 /\ M.firingIndex < Len(M.list)
             /\ SubSeq(M.list, M.firingIndex + 2, M.firingLength)
                  = Without(SubSeq(L.list, L.firingIndex + 2, L.firingLength), c)
  <2>1. L \in Lists
    BY ListInvTypes
  <2>2. QED
    BY <1>2, <1>4, <2>1, RemoveShape
<1>6. L' = M /\ at' = at /\ Use(M)
  BY <1>1, <1>2, <1>5 DEF Use, Becomes
<1>7. ListOK(M, fires)
  BY <1>5 DEF ListInv, ListOK
<1>8. LoopOK(M, at')
  <2>1. M.firingIndex \in Nat \cup {-1} /\ Len(M.list) \in Nat
    BY <1>5, ListFields
  <2>2. QED
    BY <1>3, <1>5, <1>6, <2>1 DEF LoopOK
<1>9. ListInv' /\ call' = call /\ call.value <= call'.value
  BY <1>5, <1>6, <1>7, <1>8, UseKeeps
<1>10. Unvisited' = Without(Unvisited, c)
  <2>1. CASE L.live /\ L.firing
    BY <1>3, <1>5, <1>6, <2>1 DEF Unvisited
  <2>2. CASE ~(L.live /\ L.firing)
    <3>1. Unvisited' = <<>> /\ Unvisited = <<>>
      BY <1>5, <1>6, <2>2 DEF Unvisited
    <3>2. Without(<<>>, c) = <<>>
      BY WithoutNothing
    <3>3. QED
      BY <3>1, <3>2
  <2>3. QED
    BY <2>1, <2>2
<1>11. Rounds!Leave
  <2>1. L.list' = Rounds!Without(L.list, c) /\ Unvisited' = Rounds!Without(Unvisited, c)
    BY <1>5, <1>6, <1>10, SameWithout
  <2>2. QED
    BY <1>5, <1>6, <1>9, <2>1 DEF Rounds!Leave
<1>12. QED
  BY <1>9, <1>11 DEF ListStep, Rounds!Next

LEMMA DisableItSteps ==
    ASSUME ListInv, DisableIt
    PROVE  ListStep
BY DisableSteps DEF DisableIt

\* The elements of a part of a sequence.
LEMMA RestElements ==
    ASSUME NEW S, NEW s \in Seq(S), NEW n, n = Len(s), NEW k \in 1..(n + 1),
           NEW r, r = SubSeq(s, k, n)
    PROVE  /\ n \in Nat /\ k \in Nat /\ r \in Seq(S) /\ Len(r) = n - k + 1
           /\ \A i \in 1..(n - k + 1) : r[i] = s[k + i - 1]
<1>1. n \in Nat
  BY LenProperties
<1>2. k \in Int /\ n \in Int /\ 1 <= k /\ k <= n + 1
  BY <1>1
<1>3. \A i \in k..n : s[i] \in S
  <2>1. \A i \in k..n : i \in 1..Len(s)
    BY <1>1, <1>2
  <2>2. QED
    BY <2>1, ElementOfSeq
<1>4. /\ SubSeq(s, k, n) \in Seq(S)
      /\ Len(SubSeq(s, k, n)) = IF k <= n THEN n - k + 1 ELSE 0
      /\ \A i \in 1..(n - k + 1) : SubSeq(s, k, n)[i] = s[k + i - 1]
  BY <1>2, <1>3, SubSeqProperties
<1>5. (IF k <= n THEN n - k + 1 ELSE 0) = n - k + 1
  BY <1>1, <1>2
<1>6. QED
  BY <1>1, <1>2, <1>4, <1>5

\* What is behind a position of s is still there when t comes behind s.
LEMMA AppendRest ==
    ASSUME NEW S, NEW s \in Seq(S), NEW t \in Seq(S), NEW k \in 1..(Len(s) + 1)
    PROVE  SubSeq(s \o t, k, Len(s \o t)) = SubSeq(s, k, Len(s)) \o t
<1>1. PICK n \in Nat, m \in Nat : n = Len(s) /\ m = Len(t)
  BY LenProperties
<1>2. PICK q : q = s \o t
  OBVIOUS
<1>3. PICK e : e = n + m
  OBVIOUS
<1>4. /\ q \in Seq(S) /\ e = Len(q) /\ e \in Nat
      /\ \A i \in 1..e : q[i] = IF i <= n THEN s[i] ELSE t[i - n]
  BY <1>1, <1>2, <1>3, ConcatProperties
<1>5. k \in Nat /\ k \in 1..(e + 1) /\ k \in 1..(n + 1) /\ 1 <= k /\ k <= n + 1
  BY <1>1, <1>3
<1>6. PICK a : a = SubSeq(q, k, e)
  OBVIOUS
<1>7. PICK b : b = SubSeq(s, k, n)
  OBVIOUS
<1>8. a \in Seq(S) /\ Len(a) = e - k + 1 /\ \A i \in 1..(e - k + 1) : a[i] = q[k + i - 1]
  BY <1>4, <1>5, <1>6, RestElements
<1>9. b \in Seq(S) /\ Len(b) = n - k + 1 /\ \A i \in 1..(n - k + 1) : b[i] = s[k + i - 1]
  BY <1>1, <1>5, <1>7, RestElements
<1>10. PICK l \in Nat : l = n - k + 1
  <2>1. n - k + 1 \in Nat
    BY <1>1, <1>5
  <2>2. QED
    BY <2>1, Zenon
<1>11. /\ b \o t \in Seq(S) /\ Len(b \o t) = l + m
       /\ \A i \in 1..(l + m) : (b \o t)[i] = IF i <= l THEN b[i] ELSE t[i - l]
  <2>1. b \in Seq(S) /\ Len(b) = l /\ Len(t) = m
    BY <1>1, <1>9, <1>10
  <2>2. QED
    BY <2>1, ConcatProperties
<1>12. Len(a) = Len(b \o t) /\ Len(a) = l + m
  BY <1>1, <1>3, <1>5, <1>8, <1>10, <1>11
<1>13. ASSUME NEW i \in 1..Len(a) PROVE a[i] = (b \o t)[i]
  <2>1. i \in 1..(e - k + 1) /\ i \in 1..(l + m) /\ k + i - 1 \in 1..e /\ i \in Nat
    BY <1>1, <1>3, <1>5, <1>8, <1>12
  <2>2. a[i] = IF k + i - 1 <= n THEN s[k + i - 1] ELSE t[(k + i - 1) - n]
    BY <1>4, <1>8, <2>1
  <2>3. CASE i <= l
    <3>1. k + i - 1 <= n /\ i \in 1..(n - k + 1)
      BY <1>1, <1>5, <1>10, <2>1, <2>3
    <3>2. QED
      BY <1>9, <1>11, <2>1, <2>2, <2>3, <3>1
  <2>4. CASE ~(i <= l)
    <3>1. ~(k + i - 1 <= n) /\ (k + i - 1) - n = i - l
      BY <1>1, <1>5, <1>10, <2>1, <2>4
    <3>2. QED
      BY <1>11, <2>1, <2>2, <2>4, <3>1
  <2>5. QED
    BY <2>3, <2>4
<1>14. a = b \o t
  BY <1>8, <1>11, <1>12, <1>13, SeqEqual
<1>15. QED
  BY <1>1, <1>2, <1>4, <1>6, <1>7, <1>14

\* The part of a sequence from a position on: nothing behind the last one, all
\* of it from the first, and otherwise an element and the part behind it.
LEMMA RestFacts ==
    ASSUME NEW S, NEW s \in Seq(S), NEW k \in 1..(Len(s) + 1), NEW r, r = SubSeq(s, k, Len(s))
    PROVE  /\ r \in Seq(S)
           /\ k = Len(s) + 1 => r = <<>>
           /\ k = 1 => r = s
           /\ k <= Len(s) =>
                  r # <<>> /\ Head(r) = s[k] /\ Tail(r) = SubSeq(s, k + 1, Len(s))
<1>1. PICK n \in Nat : n = Len(s)
  BY LenProperties
<1>2. k \in Int /\ n \in Int /\ 1 <= k /\ k <= n + 1
  BY <1>1
<1>3. /\ r \in Seq(S) /\ Len(r) = n - k + 1
      /\ \A i \in 1..(n - k + 1) : r[i] = s[k + i - 1]
  <2>1. k \in 1..(n + 1) /\ r = SubSeq(s, k, n)
    BY <1>1
  <2>2. QED
    BY <1>1, <2>1, RestElements
<1>4. ASSUME k = n + 1 PROVE r = <<>>
  BY <1>1, <1>3, <1>4, EmptySeq
<1>5. ASSUME k = 1 PROVE r = s
  <2>1. Len(r) = Len(s) /\ \A i \in 1..Len(r) : r[i] = s[i]
    BY <1>1, <1>3, <1>5
  <2>2. QED
    BY <1>3, <2>1, SeqEqual
<1>6. ASSUME k <= n
      PROVE  r # <<>> /\ Head(r) = s[k] /\ Tail(r) = SubSeq(s, k + 1, n)
  <2>1. n - k + 1 > 0 /\ n - k + 1 \in Nat /\ 1 \in 1..(n - k + 1) /\ k + 1 - 1 = k
    BY <1>2, <1>6
  <2>2. r # <<>> /\ Head(r) = s[k]
    <3>1. r # <<>>
      BY <1>3, <2>1, EmptySeq
    <3>2. r[1] = s[k]
      BY <1>3, <2>1
    <3>3. QED
      BY <1>3, <3>1, <3>2
  <2>3. /\ Tail(r) \in Seq(S) /\ Len(Tail(r)) = n - k
        /\ \A i \in 1..(n - k) : Tail(r)[i] = r[i + 1]
    BY <1>2, <1>3, <2>1, <2>2, HeadTailProperties
  <2>4. PICK u : u = SubSeq(s, k + 1, n)
    OBVIOUS
  <2>5. /\ u \in Seq(S) /\ Len(u) = n - k
        /\ \A i \in 1..(n - k) : u[i] = s[(k + 1) + i - 1]
    <3>1. \A i \in (k + 1)..n : s[i] \in S
      <4>1. \A i \in (k + 1)..n : i \in 1..Len(s)
        BY <1>1, <1>2
      <4>2. QED
        BY <4>1, ElementOfSeq
    <3>2. /\ u \in Seq(S)
          /\ Len(u) = IF k + 1 <= n THEN n - (k + 1) + 1 ELSE 0
          /\ \A i \in 1..(n - (k + 1) + 1) : u[i] = s[(k + 1) + i - 1]
      BY <1>1, <1>2, <2>4, <3>1, SubSeqProperties
    <3>3. QED
      BY <1>2, <1>6, <3>2
  <2>6. ASSUME NEW i \in 1..(n - k) PROVE Tail(r)[i] = u[i]
    <3>1. i + 1 \in 1..(n - k + 1) /\ k + (i + 1) - 1 = (k + 1) + i - 1
      BY <1>2
    <3>2. QED
      BY <1>3, <2>3, <2>5, <3>1
  <2>7. Tail(r) = u
    BY <2>3, <2>5, <2>6, SeqEqual
  <2>8. QED
    BY <2>2, <2>4, <2>7
<1>7. QED
  BY <1>1, <1>3, <1>4, <1>5, <1>6

\* add: the callbacks take part in the round, or open one of their own.
LEMMA AddSteps ==
    ASSUME ListInv, AddSome
    PROVE  ListStep
<1>1. PICK cs \in [1..1 -> Functions] \cup [1..2 -> Functions] : Use(Add(L, cs))
  BY DEF AddSome
<1>2. PICK p : p = Pushed(L, cs)
  OBVIOUS
<1>3. p \in Rounds!Arrivals /\ p \in Seq(Functions)
  BY <1>2, PushedType, ListInvTypes
<1>4. PICK l : l = L.list \o p
  OBVIOUS
<1>5. l \in Seq(Functions) /\ Len(l) \in Nat
  BY <1>3, <1>4, ConcatProperties, LenProperties, ListInvTypes
<1>6. PICK N : N = [L EXCEPT !.list = l]
  OBVIOUS
<1>7. /\ N \in Lists /\ N.list = l /\ N.live = L.live /\ N.stack = L.stack
      /\ N.stacking = L.stacking /\ N.memory = L.memory /\ N.fired = L.fired
      /\ N.firing = L.firing /\ N.data = L.data /\ N.firingStart = L.firingStart
      /\ N.firingLength = L.firingLength /\ N.firingIndex = L.firingIndex
  BY <1>5, <1>6, ListInvTypes DEF Lists
<1>8. Add(L, cs) = IF ~L.live THEN L
                   ELSE IF L.firing THEN [N EXCEPT !.firingLength = Len(N.list)]
                   ELSE IF L.memory # None
                        THEN Fire([N EXCEPT !.firingStart = Len(L.list)], L.memory)
                   ELSE N
  BY <1>2, <1>4, <1>6 DEF Add
<1>9. at \in {"idle", "call"}
  BY <1>1 DEF Use, CallerRuns
<1>10. ~L.firing => at = "idle"
  BY <1>9 DEF ListInv
<1>11. CASE ~L.live
  <2>1. L' = L /\ at' = at /\ UNCHANGED <<fires, call, thrown>> /\ uses' = uses + 1 /\ uses < MaxUses
    BY <1>1, <1>8, <1>11, ListInvTypes DEF Use, Becomes
  <2>2. uses' \in 0..MaxUses
    BY <2>1, CallbacksAssumption DEF ListInv
  <2>3. QED
    BY <2>1, <2>2, NothingUsed
<1>12. CASE L.live /\ L.firing
  <2>1. PICK M : M = [N EXCEPT !.firingLength = Len(l)]
    OBVIOUS
  <2>2. /\ M \in Lists /\ M.list = l /\ M.live = L.live /\ M.stack = L.stack
        /\ M.stacking = L.stacking /\ M.memory = L.memory /\ M.fired = L.fired
        /\ M.firing = L.firing /\ M.data = L.data /\ M.firingStart = L.firingStart
        /\ M.firingLength = Len(l) /\ M.firingIndex = L.firingIndex
    BY <1>5, <1>7, <2>1 DEF Lists
  <2>3. Use(M)
    BY <1>1, <1>7, <1>8, <1>12, <2>1
  <2>4. L' = M /\ at' = at
    BY <1>12, <2>2, <2>3 DEF Use, Becomes
  <2>5. /\ L.firingLength = Len(L.list) /\ L.firingIndex \in -1..(Len(L.list) - 1)
        /\ Len(L.list) \in Nat /\ Len(p) \in Nat /\ Len(l) = Len(L.list) + Len(p)
    BY <1>3, <1>4, <1>9, <1>12, ConcatProperties, LenProperties, ListInvTypes DEF ListInv, LoopOK
  <2>6. ListOK(M, fires) /\ LoopOK(M, at')
    <3>1. ListOK(M, fires)
      BY <1>12, <2>2 DEF ListInv, ListOK
    <3>2. M.firingIndex \in -1..(Len(l) - 1)
      BY <2>2, <2>5
    <3>3. LoopOK(M, at')
      BY <1>9, <2>2, <2>4, <3>2 DEF LoopOK
    <3>4. QED
      BY <3>1, <3>3
  <2>7. ListInv' /\ call' = call /\ call.value <= call'.value
    BY <2>2, <2>3, <2>6, UseKeeps
  <2>8. PICK k : k = L.firingIndex + 2
    OBVIOUS
  <2>9. k \in 1..(Len(L.list) + 1)
    BY <2>5, <2>8
  <2>10. SubSeq(l, k, Len(l)) = SubSeq(L.list, k, Len(L.list)) \o p
    BY <1>3, <1>4, <2>9, AppendRest, ListInvTypes
  <2>11. Unvisited' = Unvisited \o p
    BY <1>9, <1>12, <2>2, <2>4, <2>5, <2>8, <2>10 DEF Unvisited
  <2>12. L.data # None
    BY <1>12 DEF ListInv, ListOK
  <2>13. Rounds!Join
    BY <1>3, <1>4, <1>12, <2>2, <2>4, <2>7, <2>11, <2>12 DEF Rounds!Join
  <2>14. QED
    BY <2>7, <2>13 DEF ListStep, Rounds!Next
<1>13. CASE L.live /\ ~L.firing /\ L.memory # None
  <2>1. PICK n \in Nat, m \in 1..MaxFires : n = Len(L.list) /\ m = L.memory
    BY <1>13, ListInvTypes
  <2>2. PICK Q : Q = [N EXCEPT !.firingStart = n]
    OBVIOUS
  <2>3. /\ Q \in Lists /\ Q.list = l /\ Q.live = L.live /\ Q.stack = L.stack
        /\ Q.stacking = L.stacking /\ Q.firingStart = n
    BY <1>7, <2>1, <2>2 DEF Lists
  <2>4. PICK M : M = Fire(Q, m)
    OBVIOUS
  <2>5. /\ M \in Lists /\ M.list = l /\ M.live = L.live /\ M.stack = L.stack
        /\ M.stacking = L.stacking /\ M.memory \in {m, None} /\ M.fired /\ M.firing
        /\ M.data = m /\ M.firingStart = 0 /\ M.firingLength = Len(l) /\ M.firingIndex = n
    BY <2>3, <2>4, FireShape
  <2>6. Use(M)
    BY <1>1, <1>8, <1>13, <2>1, <2>2, <2>4
  <2>7. L' = M /\ at' = "loop" /\ at = "idle"
    BY <1>10, <1>13, <2>5, <2>6 DEF Use, Becomes
  <2>8. L.data = m /\ m <= fires /\ L.stack = <<>> /\ Len(L.stack) = 0
    BY <1>13, <2>1, EmptySeq DEF ListInv, ListOK
  <2>9. Len(l) = n + Len(p) /\ Len(p) \in Nat
    BY <1>3, <1>4, <2>1, ConcatProperties, LenProperties, ListInvTypes
  <2>10. ListOK(M, fires) /\ LoopOK(M, at')
    <3>1. ListOK(M, fires)
      <4>1. M.stack = <<>> /\ Len(M.stack) = 0 /\ m # None
        BY <2>1, <2>5, <2>8, CallbacksAssumption
      <4>2. QED
        BY <1>13, <2>5, <2>8, <4>1 DEF ListOK
    <3>2. n \in 0..Len(l)
      BY <2>9
    <3>3. LoopOK(M, at')
      BY <2>5, <2>7, <3>2 DEF LoopOK
    <3>4. QED
      BY <3>1, <3>3
  <2>11. ListInv' /\ call' = call /\ call.value <= call'.value
    BY <2>5, <2>6, <2>8, <2>10, UseKeeps
  <2>12. SubSeq(l, n + 1, Len(l)) = p
    <3>1. PICK k : k = n + 1
      OBVIOUS
    <3>2. k \in 1..(n + 1) /\ k \in 1..(Len(L.list) + 1)
      BY <2>1, <3>1
    <3>3. SubSeq(l, k, Len(l)) = SubSeq(L.list, k, Len(L.list)) \o p
      BY <1>3, <1>4, <3>2, AppendRest, ListInvTypes
    <3>4. SubSeq(L.list, k, Len(L.list)) = <<>>
      <4>1. PICK r : r = SubSeq(L.list, k, Len(L.list))
        OBVIOUS
      <4>2. k = Len(L.list) + 1 => r = <<>>
        BY <3>2, <4>1, RestFacts, ListInvTypes
      <4>3. QED
        BY <2>1, <3>1, <4>1, <4>2
    <3>5. <<>> \o p = p
      BY <1>3, ConcatEmptySeq
    <3>6. QED
      BY <3>1, <3>3, <3>4, <3>5
  <2>13. Unvisited' = p
    BY <1>13, <2>5, <2>7, <2>12 DEF Unvisited
  <2>14. Rounds!Join
    <3>1. BarRound = None /\ BarRound' = m
      BY <1>13, <2>5, <2>7 DEF BarRound
    <3>2. BarCall' = BarCall
      BY <2>7 DEF BarCall
    <3>3. L.list' = L.list \o p
      BY <1>4, <2>5, <2>7
    <3>4. QED
      BY <1>3, <2>1, <2>13, <3>1, <3>2, <3>3 DEF Rounds!Join, BarRound, BarCall
  <2>15. QED
    BY <2>11, <2>14 DEF ListStep, Rounds!Next
<1>14. CASE L.live /\ ~L.firing /\ L.memory = None
  <2>1. Use(N)
    BY <1>1, <1>8, <1>14
  <2>2. L' = N /\ at' = at
    BY <1>7, <1>14, <2>1 DEF Use, Becomes
  <2>3. ListOK(N, fires) /\ LoopOK(N, at')
    BY <1>7, <1>14 DEF ListInv, ListOK, LoopOK
  <2>4. ListInv' /\ call' = call /\ call.value <= call'.value
    BY <1>7, <1>14, <2>1, <2>3, UseKeeps
  <2>5. Unvisited = <<>> /\ Unvisited' = <<>>
    BY <1>7, <1>14, <2>2 DEF Unvisited
  <2>6. Rounds!Join
    BY <1>3, <1>4, <1>7, <1>14, <2>2, <2>4, <2>5 DEF Rounds!Join
  <2>7. QED
    BY <2>4, <2>6 DEF ListStep, Rounds!Next
<1>15. QED
  BY <1>11, <1>12, <1>13, <1>14, ListInvTypes

\* fireWith: the value begins a round, waits for the one there is, or is refused.
LEMMA FireSteps ==
    ASSUME ListInv, FireOne
    PROVE  ListStep
<1>1. PICK v : v = fires + 1
  OBVIOUS
<1>2. PICK M : M = FireWith(L, v)
  OBVIOUS
<1>3. /\ v \in 1..MaxFires /\ fires' = v /\ fires' \in 0..MaxFires /\ fires \in Nat /\ fires < v
      /\ UNCHANGED <<uses, call, thrown>> /\ at \in {"idle", "call"}
      /\ L' = M /\ at' = IF at = "idle" /\ M.firing /\ ~L.firing THEN "loop" ELSE at
  BY <1>1, <1>2, ListInvTypes DEF FireOne, CallerRuns, Becomes
<1>4. ~L.firing => at = "idle"
  BY <1>3 DEF ListInv
<1>5. call.value <= call'.value
  BY <1>3, ListInvTypes
<1>6. call.value <= fires
  <2>1. L.data # None => L.data <= fires /\ L.data \in Nat
    BY ListInvTypes DEF ListInv, ListOK
  <2>2. QED
    BY <2>1, ListInvTypes DEF ListInv
<1>7. ASSUME ListOK(M, v), LoopOK(M, at'), L.firing => M.firing, M.data = L.data \/ M.data = v
      PROVE  ListInv'
  <2>1. ListOK(L, fires)' /\ LoopOK(L, at)'
    BY <1>3, <1>7 DEF ListOK, LoopOK
  <2>2. IF M.data = None THEN call.value = 0 ELSE call.value <= M.data
    <3>1. CASE M.data = L.data
      BY <3>1 DEF ListInv
    <3>2. CASE M.data = v
      BY <1>3, <1>6, <3>2, ListInvTypes
    <3>3. QED
      BY <1>7, <3>1, <3>2
  <2>3. QED
    BY <1>3, <1>7, <2>1, <2>2 DEF ListInv
<1>8. L.data # None => L.data \in Nat /\ L.data <= fires
  BY ListInvTypes DEF ListInv, ListOK
<1>9. CASE ~Accepts(L)
  <2>1. M = L /\ at' = at
    BY <1>2, <1>3, <1>9 DEF FireWith
  <2>2. ListOK(M, v) /\ LoopOK(M, at')
    <3>1. \A i \in 1..Len(L.stack) : L.stack[i] \in Nat /\ L.stack[i] <= fires
      BY ElementOfSeq, ListInvTypes DEF ListInv, ListOK
    <3>2. QED
      BY <1>3, <1>8, <2>1, <3>1 DEF ListInv, ListOK, LoopOK
  <2>3. ListInv'
    BY <1>7, <2>1, <2>2
  <2>4. UNCHANGED Rounds!vars
    BY <1>3, <2>1 DEF Rounds!vars, Unvisited
  <2>5. QED
    BY <1>5, <2>3, <2>4 DEF ListStep
<1>10. CASE Accepts(L) /\ L.firing
  <2>1. PICK s : s = Append(L.stack, v)
    OBVIOUS
  <2>2. M = [L EXCEPT !.stack = s]
    BY <1>2, <1>10, <2>1 DEF FireWith
  <2>3. /\ s \in Seq(1..MaxFires) /\ Len(L.stack) \in Nat /\ Len(s) = Len(L.stack) + 1
        /\ \A i \in 1..Len(L.stack) : s[i] = L.stack[i]
        /\ s[Len(L.stack) + 1] = v
    BY <1>3, <2>1, AppendProperties, LenProperties, ListInvTypes
  <2>4. /\ M \in Lists /\ M.list = L.list /\ M.live = L.live /\ M.stack = s
        /\ M.stacking = L.stacking /\ M.memory = L.memory /\ M.fired = L.fired
        /\ M.firing = L.firing /\ M.data = L.data /\ M.firingStart = L.firingStart
        /\ M.firingLength = L.firingLength /\ M.firingIndex = L.firingIndex
    BY <2>2, <2>3, ListInvTypes DEF Lists
  <2>5. at' = at /\ L.live /\ L.stacking
    BY <1>3, <1>10 DEF Accepts, ListInv, ListOK
  <2>6. ListOK(M, v)
    <3>1. \A i \in 1..Len(L.stack) : L.stack[i] \in Nat /\ L.data < L.stack[i] /\ L.stack[i] <= fires
      BY ElementOfSeq, ListInvTypes DEF ListInv, ListOK
    <3>2. L.data \in Nat /\ L.data <= fires
      BY <1>8, <1>10 DEF ListInv, ListOK
    <3>3. \A i \in 1..Len(s) : i \in 1..Len(L.stack) \/ i = Len(L.stack) + 1
      BY <2>3
    <3>4. ASSUME NEW i \in 1..Len(s) PROVE L.data < s[i] /\ s[i] <= v
      <4>1. CASE i \in 1..Len(L.stack)
        <5>1. s[i] \in Nat /\ L.data < s[i] /\ s[i] <= fires
          BY <2>3, <3>1, <4>1
        <5>2. QED
          BY <1>3, <5>1
      <4>2. CASE i = Len(L.stack) + 1
        BY <1>3, <2>3, <3>2, <4>2
      <4>3. QED
        BY <3>3, <4>1, <4>2
    <3>5. \A i, j \in 1..Len(s) : i < j => s[i] < s[j]
      <4>1. SUFFICES ASSUME NEW i \in 1..Len(s), NEW j \in 1..Len(s), i < j PROVE s[i] < s[j]
        OBVIOUS
      <4>2. i \in 1..Len(L.stack)
        BY <2>3, <4>1
      <4>3. CASE j \in 1..Len(L.stack)
        BY <2>3, <4>1, <4>2, <4>3 DEF ListInv, ListOK
      <4>4. CASE j = Len(L.stack) + 1
        BY <1>3, <2>3, <3>1, <4>2, <4>4
      <4>5. QED
        BY <3>3, <4>3, <4>4
    <3>6. QED
      BY <1>3, <1>8, <1>10, <2>4, <2>5, <3>4, <3>5 DEF ListInv, ListOK
  <2>7. LoopOK(M, at')
    BY <2>4, <2>5 DEF ListInv, LoopOK
  <2>8. ListInv'
    BY <1>7, <2>4, <2>6, <2>7
  <2>9. UNCHANGED Rounds!vars
    BY <1>3, <2>4, <2>5 DEF Rounds!vars, Unvisited
  <2>10. QED
    BY <1>5, <2>8, <2>9 DEF ListStep
<1>11. CASE Accepts(L) /\ ~L.firing
  <2>1. M = Fire(L, v)
    BY <1>2, <1>11 DEF FireWith
  <2>2. /\ M \in Lists /\ M.list = L.list /\ M.live = L.live /\ M.stack = L.stack
        /\ M.stacking = L.stacking /\ M.memory \in {v, None} /\ M.fired /\ M.firing
        /\ M.data = v /\ M.firingStart = 0 /\ M.firingLength = Len(L.list)
        /\ M.firingIndex = 0
    <3>1. L \in Lists /\ L.firingStart = 0 /\ v \in 1..MaxFires
      BY <1>3, ListInvTypes
    <3>2. QED
      BY <2>1, <3>1, FireShape
  <2>3. at = "idle" /\ at' = "loop" /\ L.live /\ L.stack = <<>> /\ Len(L.stack) = 0
    BY <1>3, <1>4, <1>11, <2>2, EmptySeq DEF Accepts, ListInv, ListOK
  <2>4. ListOK(M, v) /\ LoopOK(M, at')
    <3>1. M.stack = <<>> /\ Len(M.stack) = 0 /\ v # None /\ v <= v
      BY <1>3, <2>2, <2>3, CallbacksAssumption
    <3>2. 0 \in 0..Len(L.list)
      BY ListInvTypes
    <3>3. QED
      BY <2>2, <2>3, <3>1, <3>2 DEF ListOK, LoopOK
  <2>5. ListInv'
    BY <1>7, <1>11, <2>2, <2>4
  <2>6. Unvisited' = L.list
    <3>1. PICK k : k = 1
      OBVIOUS
    <3>2. k \in 1..(Len(L.list) + 1)
      BY <3>1, ListInvTypes
    <3>3. SubSeq(L.list, k, Len(L.list)) = L.list
      <4>1. PICK r : r = SubSeq(L.list, k, Len(L.list))
        OBVIOUS
      <4>2. k = 1 => r = L.list
        BY <3>2, <4>1, RestFacts, ListInvTypes
      <4>3. QED
        BY <3>1, <4>1, <4>2
    <3>4. 0 + 1 = k
      BY <3>1
    <3>5. QED
      BY <1>3, <2>2, <2>3, <3>3, <3>4 DEF Unvisited
  <2>7. Rounds!Begin
    <3>1. BarRound = None /\ BarRound' = v /\ BarCall' = BarCall
      BY <1>3, <1>11, <2>2, <2>3 DEF BarRound, BarCall
    <3>2. QED
      BY <1>3, <2>2, <2>6, <3>1 DEF Rounds!Begin, BarRound, BarCall
  <2>8. QED
    BY <1>5, <2>5, <2>7 DEF ListStep, Rounds!Next
<1>12. QED
  BY <1>9, <1>10, <1>11

\* The loop is over: firing is.
LEMMA AfterLoopSteps ==
    ASSUME ListInv, NEW M \in {L, Forget(L)},
           (at = "loop" /\ ~MoreToCall(L)) \/ at = "call",
           L' = AfterLoop(M), at' = IF L'.firing THEN "loop" ELSE "idle",
           UNCHANGED <<fires, uses, call, thrown>>
    PROVE  ListStep
<1>1. /\ M \in Lists /\ M.list = L.list /\ M.live = L.live /\ M.stack = L.stack
      /\ M.stacking = L.stacking /\ M.memory \in {L.memory, None} /\ M.fired = L.fired
      /\ M.firing = L.firing /\ M.data = L.data /\ M.firingStart = L.firingStart
      /\ M.firingLength = L.firingLength /\ M.firingIndex = L.firingIndex
  BY ListInvTypes DEF Forget, Lists
<1>2. PICK N : N = [M EXCEPT !.firing = FALSE]
  OBVIOUS
<1>3. /\ N \in Lists /\ N.list = L.list /\ N.live = L.live /\ N.stack = L.stack
      /\ N.stacking = L.stacking /\ N.memory \in {L.memory, None} /\ N.fired = L.fired
      /\ ~N.firing /\ N.data = L.data /\ N.firingStart = L.firingStart
      /\ N.firingLength = L.firingLength /\ N.firingIndex = L.firingIndex
  BY <1>1, <1>2 DEF Lists
<1>4. L' = IF ~N.live THEN N
           ELSE IF N.stacking
                THEN IF N.stack = <<>> THEN N
                     ELSE Fire([N EXCEPT !.stack = Tail(N.stack)], Head(N.stack))
           ELSE IF N.memory # None THEN [N EXCEPT !.list = <<>>]
           ELSE Disable(N)
  BY <1>2 DEF AfterLoop
<1>5. at \in {"loop", "call"} /\ L.firing /\ L.fired /\ L.data \in 1..MaxFires /\ L.data <= fires
  BY ListInvTypes DEF ListInv, ListOK
<1>6. call'.value <= L.data /\ call.value <= call'.value /\ call'.value = call.value
  BY <1>5, ListInvTypes, CallbacksAssumption DEF ListInv
<1>7. /\ BarRound = L.data /\ BarRound # None /\ BarCall' = None
      /\ (BarCall = None /\ Unvisited = <<>>) \/ BarCall # None
  <2>1. BarRound = L.data /\ BarRound # None /\ BarCall' = None
    BY <1>5, CallbacksAssumption DEF BarRound, BarCall
  <2>2. CASE at = "call"
    <3>1. call.fn \in Functions /\ call.value \in 1..MaxFires
      BY <2>2 DEF ListInv
    <3>2. <<call.fn, call.value>> # None
      BY <3>1, CallbacksAssumption
    <3>3. BarCall # None
      BY <2>2, <3>2 DEF BarCall
    <3>4. QED
      BY <2>1, <3>3
  <2>3. CASE at = "loop"
    <3>1. BarCall = None /\ ~MoreToCall(L)
      BY <2>3 DEF BarCall
    <3>2. ASSUME ~L.live PROVE Unvisited = <<>>
      BY <3>2 DEF Unvisited
    <3>3. ASSUME L.live PROVE Unvisited = <<>>
      <4>1. /\ L.firingLength = Len(L.list) /\ L.firingIndex \in 0..Len(L.list)
            /\ ~(L.firingIndex < L.firingLength)
        BY <1>5, <2>3, <3>1, <3>3 DEF ListInv, LoopOK, MoreToCall
      <4>2. PICK k : k = L.firingIndex + 1
        OBVIOUS
      <4>3. k = Len(L.list) + 1 /\ k \in 1..(Len(L.list) + 1)
        BY <4>1, <4>2, ListInvTypes
      <4>4. SubSeq(L.list, k, Len(L.list)) = <<>>
        <5>1. PICK r : r = SubSeq(L.list, k, Len(L.list))
          OBVIOUS
        <5>2. r = <<>>
          BY <4>3, <5>1, RestFacts, ListInvTypes
        <5>3. QED
          BY <5>1, <5>2
      <4>5. QED
        BY <1>5, <2>3, <3>1, <3>3, <4>1, <4>2, <4>4 DEF Unvisited
    <3>4. QED
      BY <2>1, <3>1, <3>2, <3>3
  <2>4. QED
    BY <1>5, <2>1, <2>2, <2>3
<1>8. ASSUME ListOK(L', fires), ~L'.firing, L'.data = L.data, L'.list \in {L.list, <<>>}
      PROVE  ListStep
  <2>1. at' = "idle" /\ LoopOK(L', at')
    BY <1>8 DEF LoopOK
  <2>2. ListOK(L, fires)' /\ LoopOK(L, at)'
    BY <1>8, <2>1 DEF ListOK, LoopOK
  <2>3. ListInv'
    BY <1>5, <1>6, <1>8, <2>1, <2>2, CallbacksAssumption DEF ListInv
  <2>4. Unvisited' = <<>> /\ BarRound' = None
    BY <1>8 DEF Unvisited, BarRound
  <2>5. Rounds!End
    BY <1>7, <1>8, <2>4 DEF Rounds!End, BarRound, BarCall
  <2>6. QED
    BY <1>6, <2>3, <2>5 DEF ListStep, Rounds!Next
<1>9. CASE ~L.live \/ (L.stacking /\ L.stack = <<>>)
  <2>1. L' = N
    BY <1>3, <1>4, <1>9
  <2>2. ListOK(N, fires)
    <3>1. L.stack = <<>>
      BY <1>9 DEF ListInv, ListOK
    <3>2. QED
      BY <1>3, <1>9, <3>1 DEF ListInv, ListOK
  <2>3. QED
    BY <1>3, <1>8, <2>1, <2>2
<1>10. CASE L.live /\ L.stacking /\ L.stack # <<>>
  <2>1. PICK h, t : h = Head(L.stack) /\ t = Tail(L.stack)
    OBVIOUS
  <2>2. /\ h \in 1..MaxFires /\ h = L.stack[1] /\ Len(L.stack) \in Nat /\ Len(L.stack) > 0
        /\ t \in Seq(1..MaxFires) /\ Len(t) = Len(L.stack) - 1
        /\ \A i \in 1..Len(t) : t[i] = L.stack[i + 1]
    <3>1. L.stack \in Seq(1..MaxFires) /\ L.stack # <<>>
      BY <1>10, ListInvTypes
    <3>2. Len(L.stack) \in Nat /\ Len(L.stack) > 0
      BY <3>1, EmptySeq, LenProperties
    <3>3. h = L.stack[1]
      BY <2>1, <3>1, <3>2
    <3>4. QED
      BY <2>1, <3>1, <3>2, <3>3, HeadTailProperties
  <2>3. PICK Q : Q = [N EXCEPT !.stack = t]
    OBVIOUS
  <2>4. /\ Q \in Lists /\ Q.list = L.list /\ Q.live = L.live /\ Q.stack = t
        /\ Q.stacking = L.stacking /\ Q.firingStart = 0
    BY <1>3, <2>2, <2>3, ListInvTypes DEF Lists
  <2>5. PICK F : F = Fire(Q, h)
    OBVIOUS
  <2>6. /\ F \in Lists /\ F.list = L.list /\ F.live = L.live /\ F.stack = t
        /\ F.stacking = L.stacking /\ F.memory \in {h, None} /\ F.fired /\ F.firing
        /\ F.data = h /\ F.firingStart = 0 /\ F.firingLength = Len(L.list)
        /\ F.firingIndex = 0
    BY <2>2, <2>4, <2>5, FireShape
  <2>7. L' = F /\ at' = "loop"
    <3>1. L' = F
      BY <1>3, <1>4, <1>10, <2>1, <2>3, <2>5
    <3>2. QED
      BY <2>6, <3>1
  <2>8. ListOK(F, fires)
    <3>1. /\ \A i \in 1..Len(L.stack) : L.stack[i] \in Nat /\ L.stack[i] <= fires
          /\ \A i, j \in 1..Len(L.stack) : i < j => L.stack[i] < L.stack[j]
      BY ElementOfSeq, ListInvTypes DEF ListInv, ListOK
    <3>2. \A i \in 1..Len(t) : i + 1 \in 1..Len(L.stack) /\ 1 < i + 1 /\ 1 \in 1..Len(L.stack)
      BY <2>2
    <3>3. \A i \in 1..Len(t) : h < t[i] /\ t[i] <= fires
      BY <2>2, <3>1, <3>2
    <3>4. \A i, j \in 1..Len(t) : i < j => t[i] < t[j]
      <4>1. SUFFICES ASSUME NEW i \in 1..Len(t), NEW j \in 1..Len(t), i < j
                     PROVE  t[i] < t[j]
        OBVIOUS
      <4>2. i + 1 < j + 1 /\ i + 1 \in 1..Len(L.stack) /\ j + 1 \in 1..Len(L.stack)
        BY <3>2, <4>1
      <4>3. L.stack[i + 1] < L.stack[j + 1]
        BY <3>1, <4>2
      <4>4. QED
        BY <2>2, <4>3
    <3>5. h <= fires /\ h # None
      BY <2>2, <3>1, CallbacksAssumption
    <3>6. QED
      BY <1>10, <2>6, <3>3, <3>4, <3>5 DEF ListOK
  <2>9. LoopOK(F, at')
    <3>1. 0 \in 0..Len(L.list)
      BY ListInvTypes
    <3>2. QED
      BY <2>6, <2>7, <3>1 DEF LoopOK
  <2>10. ListInv'
    <3>1. ListOK(L, fires)' /\ LoopOK(L, at)'
      BY <2>7, <2>8, <2>9 DEF ListOK, LoopOK
    <3>2. L.data < h
      <4>1. 1 \in 1..Len(L.stack)
        BY <2>2
      <4>2. QED
        BY <2>2, <4>1 DEF ListInv, ListOK
    <3>3. call'.value <= h
      BY <1>5, <1>6, <2>2, <3>2, ListInvTypes
    <3>4. QED
      BY <2>2, <2>6, <2>7, <3>1, <3>3, CallbacksAssumption DEF ListInv
  <2>11. Unvisited' = L.list
    <3>1. PICK k : k = 1
      OBVIOUS
    <3>2. k \in 1..(Len(L.list) + 1)
      BY <3>1, ListInvTypes
    <3>3. PICK r : r = SubSeq(L.list, k, Len(L.list))
      OBVIOUS
    <3>4. k = 1 => r = L.list
      BY <3>2, <3>3, RestFacts, ListInvTypes
    <3>5. 0 + 1 = k
      BY <3>1
    <3>6. QED
      BY <1>10, <2>6, <2>7, <3>1, <3>3, <3>4, <3>5 DEF Unvisited
  <2>12. Rounds!End
    <3>1. BarRound' = h /\ L.list' = L.list
      BY <2>6, <2>7 DEF BarRound
    <3>2. QED
      BY <1>7, <2>2, <2>11, <3>1 DEF Rounds!End, BarRound, BarCall
  <2>13. QED
    BY <1>6, <2>10, <2>12 DEF ListStep, Rounds!Next
<1>11. CASE L.live /\ ~L.stacking
  <2>1. L.stack = <<>> /\ <<>> \in Seq(Functions)
    BY <1>11, EmptySeq DEF ListInv, ListOK
  <2>2. CASE N.memory # None
    <3>1. PICK Q : Q = [N EXCEPT !.list = <<>>]
      OBVIOUS
    <3>2. /\ Q \in Lists /\ Q.list = <<>> /\ Q.live = L.live /\ Q.stack = L.stack
          /\ Q.stacking = L.stacking /\ Q.memory \in {L.memory, None} /\ Q.fired = L.fired
          /\ ~Q.firing /\ Q.data = L.data /\ Q.firingStart = L.firingStart
      BY <1>3, <2>1, <3>1 DEF Lists
    <3>3. L' = Q
      BY <1>3, <1>4, <1>11, <2>2, <3>1
    <3>4. ListOK(Q, fires)
      BY <1>11, <2>1, <3>2 DEF ListInv, ListOK
    <3>5. QED
      BY <1>8, <3>2, <3>3, <3>4
  <2>3. CASE N.memory = None
    <3>1. PICK Q : Q = Disable(N)
      OBVIOUS
    <3>2. /\ Q \in Lists /\ Q.list = <<>> /\ ~Q.live /\ Q.stack = <<>> /\ ~Q.stacking
          /\ Q.memory = None /\ ~Q.firing /\ Q.data = L.data /\ Q.firingStart = L.firingStart
      BY <1>3, <3>1, DisableShape
    <3>3. L' = Q
      BY <1>3, <1>4, <1>11, <2>3, <3>1
    <3>4. ListOK(Q, fires)
      BY <3>2, EmptySeq DEF ListInv, ListOK
    <3>5. QED
      BY <1>8, <3>2, <3>3, <3>4
  <2>4. QED
    BY <2>2, <2>3
<1>12. QED
  BY <1>9, <1>10, <1>11, Zenon

\* The loop calls the next callback, or is over.
LEMMA CallSteps ==
    ASSUME ListInv, CallNext
    PROVE  ListStep
<1>1. CASE ~MoreToCall(L)
  <2>1. /\ at = "loop" /\ L' = AfterLoop(L) /\ at' = IF L'.firing THEN "loop" ELSE "idle"
        /\ UNCHANGED <<fires, uses, call, thrown>>
    BY <1>1 DEF CallNext
  <2>2. QED
    BY <1>1, <2>1, AfterLoopSteps
<1>2. CASE MoreToCall(L)
  <2>1. /\ at = "loop" /\ at' = "call" /\ call' = [fn |-> Callee(L), value |-> L.data]
        /\ L' = L /\ UNCHANGED <<fires, uses, thrown>>
    BY <1>2 DEF CallNext
  <2>2. /\ L.live /\ L.firing /\ L.firingLength = Len(L.list)
        /\ L.firingIndex \in 0..(Len(L.list) - 1)
    BY <1>2, <2>1, ListInvTypes DEF ListInv, LoopOK, MoreToCall
  <2>3. PICK k : k = L.firingIndex + 1
    OBVIOUS
  <2>4. k \in 1..(Len(L.list) + 1) /\ k \in 1..Len(L.list) /\ k <= Len(L.list)
        /\ k + 1 = L.firingIndex + 2
    <3>1. PICK n \in Nat : n = Len(L.list)
      BY ListInvTypes
    <3>2. L.firingIndex \in 0..(n - 1)
      BY <2>2, <3>1
    <3>3. QED
      BY <2>3, <3>1, <3>2
  <2>5. L.list[k] \in Functions /\ Callee(L) = L.list[k]
    BY <2>3, <2>4, ElementOfSeq, ListInvTypes DEF Callee
  <2>6. L.data \in 1..MaxFires /\ call.value <= L.data
    BY <2>2, ListInvTypes DEF ListInv, ListOK
  <2>7. ListInv'
    <3>1. ListOK(L, fires)' /\ LoopOK(L, at)'
      BY <2>1, <2>2 DEF ListInv, ListOK, LoopOK
    <3>2. call' \in [fn : Functions \cup {None}, value : 0..MaxFires]
      BY <2>1, <2>5, <2>6
    <3>3. call'.fn \in Functions /\ call'.value \in 1..MaxFires /\ call'.value <= L.data
      BY <2>1, <2>5, <2>6
    <3>4. QED
      BY <2>1, <2>2, <2>6, <3>1, <3>2, <3>3, CallbacksAssumption DEF ListInv
  <2>8. Rounds!Invoke
    <3>1. PICK r : r = SubSeq(L.list, k, Len(L.list))
      OBVIOUS
    <3>2. r # <<>> /\ Head(r) = L.list[k] /\ Tail(r) = SubSeq(L.list, k + 1, Len(L.list))
      <4>1. PICK s : s = L.list
        OBVIOUS
      <4>2. s \in Seq(Functions) /\ k \in 1..(Len(s) + 1) /\ k <= Len(s)
        BY <2>4, <4>1, ListInvTypes
      <4>3. r # <<>> /\ Head(r) = s[k] /\ Tail(r) = SubSeq(s, k + 1, Len(s))
        <5>1. r = SubSeq(s, k, Len(s))
          BY <3>1, <4>1
        <5>2. QED
          BY <4>2, <5>1, RestFacts, Zenon
      <4>4. QED
        BY <4>1, <4>3
    <3>3. Unvisited = r
      <4>1. Unvisited = SubSeq(L.list, L.firingIndex + 1, L.firingLength)
        BY <2>1, <2>2 DEF Unvisited
      <4>2. QED
        BY <2>2, <2>3, <3>1, <4>1
    <3>4. Unvisited' = Tail(r)
      BY <2>1, <2>2, <2>4, <3>2 DEF Unvisited
    <3>5. BarCall = None /\ BarCall' = <<L.list[k], L.data>> /\ BarRound = L.data /\ BarRound' = L.data
      BY <2>1, <2>2, <2>5 DEF BarCall, BarRound
    <3>6. QED
      BY <2>1, <3>2, <3>3, <3>4, <3>5 DEF Rounds!Invoke, BarCall, BarRound
  <2>9. QED
    BY <2>1, <2>6, <2>7, <2>8 DEF ListStep, Rounds!Next
<1>3. QED
  BY <1>1, <1>2

\* A callback comes back, to the loop or, when it throws, out of it.
LEMMA ReturnSteps ==
    ASSUME ListInv, CallbackReturns \/ CallbackThrows
    PROVE  ListStep
<1>1. /\ at = "call" /\ UNCHANGED <<fires, uses, call>> /\ L.firing
      /\ call.fn \in Functions /\ call.value \in 1..MaxFires
      /\ \/ L' = Advance(L) /\ at' = "loop" /\ thrown' = thrown
         \/ L' = L /\ at' = "idle" /\ thrown' = TRUE
  BY DEF CallbackReturns, CallbackThrows, ListInv
<1>2. PICK i : i = L.firingIndex + 1
  OBVIOUS
<1>3. i \in Nat /\ i + 1 = L.firingIndex + 2
  BY <1>2, ListInvTypes
<1>4. PICK N : N = [L EXCEPT !.firingIndex = i]
  OBVIOUS
<1>5. Advance(L) = N
  BY <1>2, <1>4 DEF Advance
<1>6. /\ N \in Lists /\ N.list = L.list /\ N.live = L.live /\ N.stack = L.stack
      /\ N.stacking = L.stacking /\ N.memory = L.memory /\ N.fired = L.fired
      /\ N.firing = L.firing /\ N.data = L.data /\ N.firingStart = L.firingStart
      /\ N.firingLength = L.firingLength /\ N.firingIndex = i
  BY <1>3, <1>4, ListInvTypes DEF Lists
<1>7. LoopOK(L', at')
  <2>1. L.live => L.firingLength = Len(L.list) /\ L.firingIndex \in -1..(Len(L.list) - 1)
    BY <1>1 DEF ListInv, LoopOK
  <2>2. L.live => i \in 0..Len(L.list)
    BY <1>2, <2>1, ListInvTypes
  <2>3. QED
    BY <1>1, <1>5, <1>6, <2>1, <2>2 DEF LoopOK
<1>8. ListOK(L', fires)
  <2>1. ListOK(N, fires)
    BY <1>6 DEF ListInv, ListOK
  <2>2. QED
    BY <1>1, <1>5, <2>1 DEF ListInv
<1>9. ListInv'
  <2>1. ListOK(L, fires)' /\ LoopOK(L, at)'
    BY <1>1, <1>7, <1>8 DEF ListOK, LoopOK
  <2>2. L'.firing = L.firing /\ L'.data = L.data
    BY <1>1, <1>5, <1>6
  <2>3. QED
    BY <1>1, <2>1, <2>2 DEF ListInv
<1>10. Rounds!Return
  <2>1. L'.list = L.list /\ L'.firing = L.firing /\ L'.data = L.data
    BY <1>1, <1>5, <1>6
  <2>2. Unvisited' = Unvisited
    BY <1>1, <1>3, <1>5, <1>6 DEF Unvisited
  <2>3. <<call.fn, call.value>> # None
    BY <1>1, CallbacksAssumption
  <2>4. BarCall # None /\ BarCall' = None /\ BarRound' = BarRound
    BY <1>1, <2>1, <2>3 DEF BarCall, BarRound
  <2>5. QED
    BY <2>1, <2>2, <2>4 DEF Rounds!Return, BarCall, BarRound
<1>11. call.value <= call'.value
  BY <1>1, ListInvTypes
<1>12. QED
  BY <1>9, <1>10, <1>11 DEF ListStep, Rounds!Next

\* A callback stops the round.
LEMMA StopSteps ==
    ASSUME ListInv, CallbackStops
    PROVE  ListStep
<1>1. PICK M : M = Forget(L)
  OBVIOUS
<1>2. /\ M \in {L, Forget(L)} /\ at = "call" /\ L' = AfterLoop(M)
      /\ at' = (IF L'.firing THEN "loop" ELSE "idle")
      /\ UNCHANGED <<fires, uses, call, thrown>>
  BY <1>1 DEF CallbackStops
<1>3. QED
  BY <1>2, AfterLoopSteps

\* Every step keeps the invariant and is a step, or a stutter, of the rounds.
LEMMA ListSteps ==
    ASSUME ListInv, ~EmptyWhileFiring, [Next]_vars
    PROVE  ListStep
<1>1. CASE UNCHANGED vars
  <2>1. L' = L /\ at' = at /\ UNCHANGED <<fires, call, thrown>> /\ uses' = uses
    BY <1>1 DEF vars
  <2>2. uses' \in 0..MaxUses
    BY <2>1 DEF ListInv
  <2>3. QED
    BY <2>1, <2>2, NothingUsed
<1>2. CASE Next
  BY <1>2, AddSteps, RemoveSteps, EmptySteps, DisableItSteps, LockSteps, FireSteps, CallSteps,
     ReturnSteps, StopSteps DEF Next
<1>3. QED
  BY <1>1, <1>2

\* A new list is empty, and so are its rounds.
LEMMA ListInit ==
    ASSUME Init
    PROVE  ListInv /\ Rounds!Init
<1>1. PICK options \in SUBSET Flags : L = NewList(options)
  BY DEF Init
<1>2. /\ L \in Lists /\ L.list = <<>> /\ L.live /\ L.stack = <<>> /\ L.memory = None
      /\ ~L.firing /\ L.data = None /\ L.firingStart = 0
  BY <1>1, EmptySeq DEF NewList, Lists
<1>3. ListInv
  <2>1. Len(L.stack) = 0
    BY <1>2, EmptySeq
  <2>2. ListOK(L, fires) /\ LoopOK(L, at)
    BY <1>2, <2>1 DEF ListOK, LoopOK
  <2>3. at = "idle" /\ fires = 0 /\ uses = 0 /\ call = [fn |-> None, value |-> 0] /\ thrown = FALSE
    BY DEF Init
  <2>4. fires \in 0..MaxFires /\ uses \in 0..MaxUses
    BY <2>3, CallbacksAssumption
  <2>5. call \in [fn : Functions \cup {None}, value : 0..MaxFires] /\ call.value = 0
    BY <2>3, CallbacksAssumption
  <2>6. QED
    BY <1>2, <2>2, <2>3, <2>4, <2>5 DEF ListInv
<1>4. Rounds!Init
  BY <1>2 DEF Init, Rounds!Init, Unvisited
<1>5. QED
  BY <1>3, <1>4

\* What the list promises of its states.
LEMMA ListIsSafe ==
    ASSUME ListInv
    PROVE  TypeOK /\ LoopInBounds /\ NothingLeftWaiting
<1>1. TypeOK
  BY ListInvTypes DEF ListInv, TypeOK
<1>2. LoopInBounds
  BY ListInvTypes DEF ListInv, LoopOK, LoopInBounds
<1>3. NothingLeftWaiting
  BY DEF ListInv, ListOK, NothingLeftWaiting
<1>4. QED
  BY <1>1, <1>2, <1>3

\* jQuery.Callbacks, for every set of functions and any number of uses: unless
\* empty is called on a list that is firing, the loop over the indexes with its
\* stack of fire calls keeps the promise of CallbackRounds, the values of its
\* calls never go back, it stays within the list and leaves no round half done.
THEOREM ListIsKept ==
    ASSUME ~EmptyWhileFiring
    PROVE  AllSpec => ListKeepsPromise
<1>1. AllInit => ListInv /\ Rounds!Init
  BY ListInit DEF AllInit
<1>2. ASSUME ListInv, [AllNext]_allVars PROVE ListStep
  <2>1. [Next]_vars
    BY <1>2 DEF AllNext, allVars, vars
  <2>2. QED
    BY <1>2, <2>1, ListSteps
<1>3. ListInv /\ [AllNext]_allVars => ListInv'
  BY <1>2 DEF ListStep
<1>4. ListInv /\ [AllNext]_allVars => [Rounds!Next]_(Rounds!vars)
  BY <1>2 DEF ListStep
<1>5. ListInv /\ [AllNext]_allVars => [call.value <= call'.value]_vars
  BY <1>2 DEF ListStep
<1>6. QED
  BY <1>1, <1>3, <1>4, <1>5, ListIsSafe, PTL
     DEF AllSpec, ListKeepsPromise, KeepsPromise, Rounds!Spec, NeverGoesBack

-----------------------------------------------------------------------------
(* The Deferred.                                                           *)

\* The outcomes, the callbacks that are the Deferred's own, and the values of
\* calls.
Ends == {"done", "fail"}
Own == {"setState", "disableOther", "lockProgress"}
Values == 1..MaxDeferredUses

\* The values of a list's variables.
DeferredLists ==
    [options : SUBSET {"once", "memory"}, list : Seq(Functions \cup Own), live : BOOLEAN,
     stack : Seq(Values), stacking : BOOLEAN, memory : Values \cup {None},
     fired : BOOLEAN, firing : BOOLEAN, data : Values \cup {None},
     firingStart : Nat, firingLength : Nat, firingIndex : Nat]

\* A list that is firing is alive, has a value, and is called to its end; one
\* that is disabled never fires.
Sound(M) ==
    /\ M \in DeferredLists
    /\ "memory" \in M.options
    /\ M.firingStart = 0
    /\ M.memory # None => M.fired
    /\ ~M.live => M.list = <<>> /\ ~M.firing /\ ~M.stacking
    /\ ~M.firing \/ ~M.stacking => M.stack = <<>>
    /\ M.firing =>
           /\ M.fired /\ M.memory # None /\ M.data # None
           /\ M.firingLength = Len(M.list)
           /\ M.firingIndex <= Len(M.list)

\* A list of which code of the page is called is at a handler.
AtHandler(M) ==
    M.firingIndex < Len(M.list) /\ M.list[M.firingIndex + 1] \in Functions

ListsInv ==
    /\ lists \in [D!ListNames -> DeferredLists]
    /\ \A n \in D!ListNames :
           /\ Sound(lists[n])
           /\ lists[n].firing /\ ~D!Innermost(n) => AtHandler(lists[n])

\* The lists being called are different ones, and are firing.
RunningInv ==
    /\ running \in Seq(D!ListNames)
    /\ calling \in BOOLEAN
    /\ \A i \in 1..Len(running) : lists[running[i]].firing
    /\ \A i, j \in 1..Len(running) : i # j => running[i] # running[j]
    /\ calling => running # <<>>

\* The own callbacks, and handlers behind them.
OwnFirst(s) ==
    /\ Len(s) >= 3
    /\ s[1] = "setState" /\ s[2] = "disableOther" /\ s[3] = "lockProgress"
    /\ \A i \in 4..Len(s) : s[i] \in Functions

\* The list of an outcome before it is fired, ...
Fresh(M) ==
    /\ M.live /\ ~M.stacking
    /\ ~M.fired /\ ~M.firing /\ M.memory = None
    /\ OwnFirst(M.list)

\* ... while its own callback k is next (counted from 0), ...
AtOwn(M, k) ==
    /\ M.live /\ ~M.stacking
    /\ M.firing
    /\ OwnFirst(M.list)
    /\ M.firingIndex = k

\* ... and from then on: it has handlers to call or none.
Open(M) ==
    /\ M.live /\ ~M.stacking /\ M.fired /\ M.memory # None
    /\ ~M.firing => M.list = <<>>
    /\ M.firing => \A i \in (M.firingIndex + 1)..Len(M.list) : M.list[i] \in Functions

\* Nothing is notified any more.
Locked(M) == ~M.stacking /\ (M.live => M.fired)

Pending ==
    /\ state = "pending"
    /\ \A n \in Ends : Fresh(lists[n])

Settling(n, k) ==
    /\ D!Innermost(n)
    /\ state = IF k = 0 THEN "pending" ELSE D!FinalState(n)
    /\ AtOwn(lists[n], k)
    /\ IF k = 2 THEN ~lists[D!Other(n)].live ELSE Fresh(lists[D!Other(n)])

Settled(n) ==
    /\ state = D!FinalState(n)
    /\ Open(lists[n])
    /\ ~lists[D!Other(n)].live
    /\ Locked(lists["progress"])

\* The Deferred is pending, or its own callbacks run, or it is settled.
PhaseInv ==
    Pending \/ \E n \in Ends : Settled(n) \/ \E k \in 0..2 : Settling(n, k)

\* No value that is late is in the progress list, and it has none of calls to
\* come; it has no own callbacks.
ProgressInv ==
    /\ lists["progress"].list \in Seq(Functions)
    /\ deferredUses \in 0..MaxDeferredUses
    /\ late \subseteq 1..deferredUses
    /\ told \subseteq (1..deferredUses) \ late
    /\ lists["progress"].memory \in ((1..deferredUses) \ late) \cup {None}
    /\ lists["progress"].data \in ((1..deferredUses) \ late) \cup {None}
    /\ lists["progress"].stack \in Seq((1..deferredUses) \ late)

DeferredInv == ListsInv /\ RunningInv /\ PhaseInv /\ ProgressInv

-----------------------------------------------------------------------------
(* Handlers in a sequence.                                                 *)

\* The callbacks of a Deferred's own are no handlers, and the value of a call is
\* not None.
LEMMA OwnFacts ==
    /\ \A c \in Own : c \notin Functions
    /\ None \notin Values
    /\ \A s \in {"resolved", "rejected"}, h \in Functions : <<s, h>> # None
<1>1. \A c \in Own : c \notin Functions
  BY PartsAssumption DEF Own
<1>2. None \notin Values
  BY PartsAssumption, Zenon DEF Values
<1>3. ASSUME NEW s \in {"resolved", "rejected"}, NEW h \in Functions PROVE <<s, h>> # None
  <2>1. <<s, h>> \in {"resolved", "rejected"} \X Functions
    OBVIOUS
  <2>2. QED
    BY <2>1, PartsAssumption, Zenon
<1>4. QED
  BY <1>1, <1>2, <1>3

\* Taking the positions from k on is the part of the sequence from k on.
LEMMA TailPositions ==
    ASSUME NEW S, NEW s \in Seq(S), NEW k \in 1..(Len(s) + 1)
    PROVE  D!Subsequence(s, k..Len(s)) = SubSeq(s, k, Len(s))
<1>1. PICK n \in Nat : n = Len(s)
  BY LenProperties
<1>2. k \in Int /\ n \in Int /\ 1 <= k /\ k <= n + 1
  BY <1>1
<1>3. PICK I : I = k..n
  OBVIOUS
<1>4. ASSUME NEW i \in I PROVE D!Rank(I, i) = i - k + 1
  <2>1. {j \in I : j <= i} = k..i /\ i \in Int /\ k <= i
    BY <1>2, <1>3, <1>4
  <2>2. Cardinality(k..i) = i - k + 1
    BY <1>2, <2>1, FS_Interval
  <2>3. QED
    BY <2>1, <2>2 DEF D!Rank, D!Cardinality, Cardinality
<1>5. D!Cardinality(I) = n - k + 1
  <2>1. Cardinality(k..n) = IF k > n THEN 0 ELSE n - k + 1
    BY <1>2, FS_Interval
  <2>2. (IF k > n THEN 0 ELSE n - k + 1) = n - k + 1
    BY <1>2
  <2>3. QED
    BY <1>3, <2>1, <2>2 DEF D!Cardinality, Cardinality
<1>6. ASSUME NEW j \in 1..(n - k + 1) PROVE D!Place(I, j) = k + j - 1
  <2>1. k + j - 1 \in I /\ D!Rank(I, k + j - 1) = j
    <3>1. k + j - 1 \in I /\ (k + j - 1) - k + 1 = j
      BY <1>2, <1>3, <1>6
    <3>2. QED
      BY <1>4, <3>1
  <2>2. PICK i \in I : i = D!Place(I, j) /\ D!Rank(I, i) = j
    BY <2>1, Zenon DEF D!Place
  <2>3. i - k + 1 = j /\ i \in Int
    BY <1>2, <1>3, <1>4, <2>2
  <2>4. QED
    BY <1>2, <1>6, <2>2, <2>3
<1>7. PICK r : r = SubSeq(s, k, n)
  OBVIOUS
<1>8. r \in Seq(S) /\ Len(r) = n - k + 1 /\ \A i \in 1..(n - k + 1) : r[i] = s[k + i - 1]
  BY <1>1, <1>2, <1>7, RestElements
<1>9. r = [j \in 1..(n - k + 1) |-> s[k + j - 1]]
  <2>1. r \in [1..(n - k + 1) -> S]
    BY <1>8, LenProperties
  <2>2. QED
    BY <1>8, <2>1
<1>10. D!Subsequence(s, I) = [j \in 1..(n - k + 1) |-> s[k + j - 1]]
  BY <1>5, <1>6 DEF D!Subsequence
<1>11. QED
  BY <1>1, <1>3, <1>7, <1>9, <1>10

\* The handlers from position k on are those from m on if there are only own
\* callbacks before m and only handlers from there.
LEMMA HandlersOf ==
    ASSUME NEW S, NEW s \in Seq(S), NEW n, n = Len(s), NEW k \in 1..(n + 1), NEW m \in k..(n + 1),
           \A i \in k..(m - 1) : s[i] \notin Functions,
           \A i \in m..n : s[i] \in Functions
    PROVE  /\ D!Handlers(SubSeq(s, k, n)) = SubSeq(s, m, n)
           /\ SubSeq(s, m, n) \in Seq(Functions)
<1>1. n \in Nat /\ k \in Nat /\ m \in Nat /\ 1 <= k /\ k <= m /\ m <= n + 1
  <2>1. n \in Nat
    BY LenProperties
  <2>2. QED
    BY <2>1
<1>2. PICK r : r = SubSeq(s, k, n)
  OBVIOUS
<1>3. PICK l \in Nat : l = n - k + 1
  BY <1>1
<1>4. r \in Seq(S) /\ Len(r) = l /\ \A i \in 1..l : r[i] = s[k + i - 1]
  BY <1>1, <1>2, <1>3, RestElements
<1>5. PICK a \in 1..(l + 1) : a = m - k + 1
  BY <1>1, <1>3
<1>6. {i \in 1..Len(r) : r[i] \in Functions} = a..l
  <2>1. ASSUME NEW i \in 1..l PROVE r[i] \in Functions <=> a <= i
    <3>1. r[i] = s[k + i - 1] /\ (a <= i <=> m <= k + i - 1)
      BY <1>1, <1>4, <1>5
    <3>2. k + i - 1 \in k..n
      BY <1>1, <1>3
    <3>3. CASE a <= i
      BY <1>1, <3>1, <3>2, <3>3
    <3>4. CASE ~(a <= i)
      BY <1>1, <3>1, <3>2, <3>4
    <3>5. QED
      BY <3>3, <3>4
  <2>2. QED
    BY <1>3, <1>4, <1>5, <2>1
<1>7. D!Handlers(r) = SubSeq(r, a, l)
  <2>1. D!Handlers(r) = D!Subsequence(r, a..Len(r))
    BY <1>4, <1>6 DEF D!Handlers
  <2>2. a \in 1..(Len(r) + 1)
    BY <1>4
  <2>3. QED
    BY <1>4, <2>1, <2>2, TailPositions
<1>8. PICK u : u = SubSeq(r, a, l)
  OBVIOUS
<1>9. PICK w : w = SubSeq(s, m, n)
  OBVIOUS
<1>10. u \in Seq(S) /\ Len(u) = l - a + 1 /\ \A i \in 1..(l - a + 1) : u[i] = r[a + i - 1]
  BY <1>4, <1>8, RestElements
<1>11. w \in Seq(S) /\ Len(w) = n - m + 1 /\ \A i \in 1..(n - m + 1) : w[i] = s[m + i - 1]
  <2>1. m \in 1..(n + 1)
    BY <1>1
  <2>2. QED
    BY <1>9, <2>1, RestElements
<1>12. Len(u) = Len(w)
  BY <1>1, <1>3, <1>5, <1>10, <1>11
<1>13. ASSUME NEW i \in 1..Len(u) PROVE u[i] = w[i]
  <2>1. /\ i \in 1..(l - a + 1) /\ i \in 1..(n - m + 1) /\ a + i - 1 \in 1..l
        /\ k + (a + i - 1) - 1 = m + i - 1
    BY <1>1, <1>3, <1>5, <1>10, <1>11, <1>12
  <2>2. QED
    BY <1>4, <1>10, <1>11, <2>1
<1>14. u = w
  BY <1>10, <1>11, <1>12, <1>13, SeqEqual
<1>15. w \in Seq(Functions)
  BY <1>1, <1>9, SubSeqProperties
<1>16. QED
  BY <1>2, <1>7, <1>8, <1>9, <1>14, <1>15

-----------------------------------------------------------------------------
(* What the operators return.                                              *)

\* The fields of a list.
LEMMA DeferredFields ==
    ASSUME NEW M \in DeferredLists
    PROVE  /\ M.options \in SUBSET {"once", "memory"} /\ M.list \in Seq(Functions \cup Own)
           /\ M.live \in BOOLEAN /\ M.stack \in Seq(Values) /\ M.stacking \in BOOLEAN
           /\ M.memory \in Values \cup {None} /\ M.fired \in BOOLEAN
           /\ M.firing \in BOOLEAN /\ M.data \in Values \cup {None}
           /\ M.firingStart \in Nat /\ M.firingLength \in Nat /\ M.firingIndex \in Nat
           /\ Len(M.list) \in Nat /\ Len(M.stack) \in Nat
BY LenProperties DEF DeferredLists

\* The loop goes on to the next callback.
LEMMA AdvanceShape ==
    ASSUME NEW M \in DeferredLists, NEW N, N = D!Advance(M)
    PROVE  /\ N \in DeferredLists
           /\ N.options = M.options /\ N.list = M.list /\ N.live = M.live
           /\ N.stack = M.stack /\ N.stacking = M.stacking /\ N.memory = M.memory
           /\ N.fired = M.fired /\ N.firing = M.firing /\ N.data = M.data
           /\ N.firingStart = M.firingStart /\ N.firingLength = M.firingLength
           /\ N.firingIndex = M.firingIndex + 1
<1>1. PICK i \in Nat : i = M.firingIndex + 1
  BY DeferredFields
<1>2. N = [M EXCEPT !.firingIndex = i]
  BY <1>1 DEF D!Advance
<1>3. QED
  BY <1>1, <1>2 DEF DeferredLists

\* A list with memory that begins to fire v is at its firingStart.
LEMMA DeferredFire ==
    ASSUME NEW M \in DeferredLists, "memory" \in M.options, NEW v \in Values,
           NEW N, N = D!Fire(M, v)
    PROVE  /\ N \in DeferredLists
           /\ N.options = M.options /\ N.list = M.list /\ N.live = M.live
           /\ N.stack = M.stack /\ N.stacking = M.stacking /\ N.memory = v
           /\ N.fired /\ N.firing /\ N.data = v
           /\ N.firingStart = 0 /\ N.firingLength = Len(M.list)
           /\ N.firingIndex = M.firingStart
<1>1. Len(M.list) \in Nat /\ 0 \in Nat /\ TRUE \in BOOLEAN /\ M.firingStart \in Nat
  BY DeferredFields
<1>2. N = [M EXCEPT !.memory = v, !.fired = TRUE, !.firingIndex = M.firingStart,
                    !.firingStart = 0, !.firingLength = Len(M.list),
                    !.firing = TRUE, !.data = v]
  BY DEF D!Fire
<1>3. N = [options |-> M.options, list |-> M.list, live |-> M.live,
           stack |-> M.stack, stacking |-> M.stacking, memory |-> v,
           fired |-> TRUE, firing |-> TRUE, data |-> v, firingStart |-> 0,
           firingLength |-> Len(M.list), firingIndex |-> M.firingStart]
  BY <1>2 DEF DeferredLists
<1>4. N \in DeferredLists
  BY <1>1, <1>3, DeferredFields DEF DeferredLists
<1>5. QED
  BY <1>3, <1>4

\* A list that is disabled loses what it has.
LEMMA DeferredDisable ==
    ASSUME NEW M \in DeferredLists, NEW N, N = D!Disable(M)
    PROVE  /\ N \in DeferredLists
           /\ N.options = M.options /\ N.list = <<>> /\ ~N.live
           /\ N.stack = <<>> /\ ~N.stacking /\ N.memory = None
           /\ N.fired = M.fired /\ N.firing = M.firing /\ N.data = M.data
           /\ N.firingStart = M.firingStart /\ N.firingLength = M.firingLength
           /\ N.firingIndex = M.firingIndex
<1>1. <<>> \in Seq(Functions \cup Own) /\ <<>> \in Seq(Values) /\ FALSE \in BOOLEAN
  BY EmptySeq
<1>2. N \in DeferredLists
  BY <1>1 DEF DeferredLists, D!Disable
<1>3. QED
  BY <1>2 DEF DeferredLists, D!Disable

\* A list that is locked keeps its callbacks if it has a value for them.
LEMMA LockKeepsSound ==
    ASSUME NEW M, Sound(M), NEW N, N = D!Lock(M)
    PROVE  /\ Sound(N) /\ Locked(N)
           /\ N.memory = M.memory /\ N.data = M.data /\ N.stack = <<>>
           /\ N.list = M.list \/ N.list = <<>>
           /\ N.firing = M.firing
           /\ M.firing => N.list = M.list /\ N.firingIndex = M.firingIndex
<1>1. M \in DeferredLists
  BY DEF Sound
<1>2. PICK K : K = [M EXCEPT !.stacking = FALSE, !.stack = <<>>]
  OBVIOUS
<1>3. /\ K \in DeferredLists
      /\ K.options = M.options /\ K.list = M.list /\ K.live = M.live
      /\ K.stack = <<>> /\ ~K.stacking /\ K.memory = M.memory
      /\ K.fired = M.fired /\ K.firing = M.firing /\ K.data = M.data
      /\ K.firingStart = M.firingStart /\ K.firingLength = M.firingLength
      /\ K.firingIndex = M.firingIndex
  <2>1. <<>> \in Seq(Values) /\ FALSE \in BOOLEAN
    BY EmptySeq
  <2>2. K \in DeferredLists
    BY <1>1, <1>2, <2>1 DEF DeferredLists
  <2>3. QED
    BY <1>1, <1>2, <2>2 DEF DeferredLists
<1>4. N = IF K.memory = None THEN D!Disable(K) ELSE K
  BY <1>2 DEF D!Lock
<1>5. CASE M.memory = None
  <2>1. N = D!Disable(K)
    BY <1>3, <1>4, <1>5
  <2>2. /\ N \in DeferredLists
        /\ N.options = M.options /\ N.list = <<>> /\ ~N.live
        /\ N.stack = <<>> /\ ~N.stacking /\ N.memory = None
        /\ N.fired = M.fired /\ N.firing = M.firing /\ N.data = M.data
        /\ N.firingStart = M.firingStart
    BY <1>3, <2>1, DeferredDisable
  <2>3. ~M.firing
    BY <1>5 DEF Sound
  <2>4. QED
    BY <1>5, <2>2, <2>3 DEF Sound, Locked
<1>6. CASE M.memory # None
  <2>1. N = K
    BY <1>3, <1>4, <1>6
  <2>2. QED
    BY <1>3, <1>6, <2>1 DEF Sound, Locked
<1>7. QED
  BY <1>5, <1>6

\* fireWith: the list begins to fire v, keeps it for later or refuses it.
LEMMA FireWithShape ==
    ASSUME NEW M, Sound(M), NEW v \in Values, NEW N, N = D!FireWith(M, v)
    PROVE  /\ Sound(N)
           /\ N.list = M.list /\ N.live = M.live /\ N.stacking = M.stacking
           /\ M.firing => N.firing /\ N.firingIndex = M.firingIndex
           /\ ~N.firing => N = M
           /\ N = M
              \/ /\ M.stacking /\ M.firing /\ N.stack = Append(M.stack, v)
                 /\ N.memory = M.memory /\ N.data = M.data
              \/ /\ ~M.firing /\ N.firing /\ N.stack = M.stack /\ N.firingIndex = 0
                 /\ N.memory = v /\ N.data = v
           /\ M.fired /\ ~M.stacking => N = M
           /\ ~M.live => N = M
           /\ M.live /\ ~M.fired /\ ~M.firing => N.firing
<1>1. M \in DeferredLists
  BY DEF Sound
<1>2. CASE ~D!Accepts(M)
  BY <1>1, <1>2, DeferredFields DEF D!FireWith, D!Accepts
<1>3. CASE D!Accepts(M) /\ M.firing
  <2>1. M.stacking /\ M.live /\ M.fired
    BY <1>3 DEF D!Accepts, Sound
  <2>2. PICK t : t = Append(M.stack, v)
    OBVIOUS
  <2>3. t \in Seq(Values)
    BY <1>1, <2>2, AppendProperties, DeferredFields
  <2>4. N = [M EXCEPT !.stack = t]
    BY <1>3, <2>2 DEF D!FireWith
  <2>5. /\ N \in DeferredLists
        /\ N.options = M.options /\ N.list = M.list /\ N.live = M.live
        /\ N.stack = t /\ N.stacking = M.stacking /\ N.memory = M.memory
        /\ N.fired = M.fired /\ N.firing = M.firing /\ N.data = M.data
        /\ N.firingStart = M.firingStart /\ N.firingLength = M.firingLength
        /\ N.firingIndex = M.firingIndex
    BY <1>1, <2>3, <2>4 DEF DeferredLists
  <2>6. QED
    BY <1>3, <2>1, <2>2, <2>5 DEF Sound
<1>4. CASE D!Accepts(M) /\ ~M.firing
  <2>1. M.live /\ (~M.fired \/ M.stacking)
    BY <1>4 DEF D!Accepts
  <2>2. N = D!Fire(M, v)
    BY <1>4 DEF D!FireWith
  <2>3. /\ N \in DeferredLists
        /\ N.options = M.options /\ N.list = M.list /\ N.live = M.live
        /\ N.stack = M.stack /\ N.stacking = M.stacking /\ N.memory = v
        /\ N.fired /\ N.firing /\ N.data = v
        /\ N.firingStart = 0 /\ N.firingLength = Len(M.list)
        /\ N.firingIndex = 0
    BY <1>1, <2>2, DeferredFire DEF Sound
  <2>4. v # None /\ 0 <= Len(M.list) /\ M.stack = <<>>
    BY <1>1, <1>4, OwnFacts, DeferredFields DEF Sound
  <2>5. Sound(N)
    BY <2>1, <2>3, <2>4 DEF Sound
  <2>6. QED
    BY <1>4, <2>1, <2>3, <2>5
<1>5. QED
  BY <1>2, <1>3, <1>4

\* Without unique, add pushes all of its arguments.
LEMMA PushedAll ==
    ASSUME NEW M \in DeferredLists, NEW S, NEW cs \in Seq(S)
    PROVE  D!Pushed(M, cs) = cs
<1>1. "unique" \notin M.options
  BY DeferredFields
<1>2. DOMAIN cs = 1..Len(cs) /\ Len(cs) \in Nat
  BY LenProperties
<1>3. {i \in DOMAIN cs : "unique" \in M.options =>
          ~D!Has(M, cs[i]) /\ \A j \in 1..(i - 1) : cs[j] # cs[i]} = 1..Len(cs)
  BY <1>1, <1>2, Zenon
<1>4. D!Pushed(M, cs) = D!Subsequence(cs, 1..Len(cs))
  BY <1>3, Zenon DEF D!Pushed
<1>5. 1 \in 1..(Len(cs) + 1)
  BY <1>2
<1>6. D!Subsequence(cs, 1..Len(cs)) = SubSeq(cs, 1, Len(cs))
  BY <1>5, TailPositions
<1>7. QED
  BY <1>4, <1>6, SubSeqFull

\* add: the callback joins the callbacks being called, is called with the last
\* value, or waits.
LEMMA AddShape ==
    ASSUME NEW M, Sound(M), NEW c \in Functions, NEW N, N = D!Add(M, <<c>>)
    PROVE  /\ Sound(N)
           /\ N.live = M.live /\ N.stacking = M.stacking /\ N.memory = M.memory
           /\ N.stack = M.stack /\ N.fired = M.fired
           /\ ~M.live => N = M
           /\ M.live => N.list = Append(M.list, c)
           /\ N.data = M.data \/ N.data = M.memory
           /\ M.firing => N.firing /\ N.firingIndex = M.firingIndex
           /\ M.memory = None => N.firing = M.firing
           /\ ~M.firing /\ M.live /\ M.memory # None =>
                  N.firing /\ N.firingIndex = Len(M.list)
<1>1. M \in DeferredLists /\ Len(M.list) \in Nat /\ M.list \in Seq(Functions \cup Own)
  BY DeferredFields DEF Sound
<1>2. <<c>> \in Seq(Functions)
  OBVIOUS
<1>3. D!Pushed(M, <<c>>) = <<c>>
  BY <1>1, <1>2, PushedAll
<1>4. PICK l : l = Append(M.list, c)
  OBVIOUS
<1>5. l \in Seq(Functions \cup Own) /\ Len(l) = Len(M.list) + 1 /\ Len(l) \in Nat
      /\ M.list \o <<c>> = l
  BY <1>1, <1>4, AppendProperties, AppendIsConcat
<1>6. PICK K : K = [M EXCEPT !.list = l]
  OBVIOUS
<1>7. /\ K \in DeferredLists
      /\ K.options = M.options /\ K.list = l /\ K.live = M.live
      /\ K.stack = M.stack /\ K.stacking = M.stacking /\ K.memory = M.memory
      /\ K.fired = M.fired /\ K.firing = M.firing /\ K.data = M.data
      /\ K.firingStart = M.firingStart /\ K.firingLength = M.firingLength
      /\ K.firingIndex = M.firingIndex
  BY <1>1, <1>5, <1>6 DEF DeferredLists
<1>8. N = IF ~M.live THEN M
          ELSE IF M.firing THEN [K EXCEPT !.firingLength = Len(l)]
          ELSE IF M.memory # None
               THEN D!Fire([K EXCEPT !.firingStart = Len(M.list)], M.memory)
          ELSE K
  BY <1>3, <1>5, <1>6, <1>7 DEF D!Add
<1>9. CASE ~M.live
  <2>1. N = M /\ ~M.firing
    BY <1>8, <1>9 DEF Sound
  <2>2. QED
    BY <1>9, <2>1
<1>10. CASE M.live /\ M.firing
  <2>1. N = [K EXCEPT !.firingLength = Len(l)]
    BY <1>8, <1>10
  <2>2. /\ N \in DeferredLists
        /\ N.options = M.options /\ N.list = l /\ N.live = M.live
        /\ N.stack = M.stack /\ N.stacking = M.stacking /\ N.memory = M.memory
        /\ N.fired = M.fired /\ N.firing = M.firing /\ N.data = M.data
        /\ N.firingStart = M.firingStart /\ N.firingLength = Len(l)
        /\ N.firingIndex = M.firingIndex
    BY <1>5, <1>7, <2>1 DEF DeferredLists
  <2>3. N.firingIndex <= Len(N.list) /\ N.memory # None
    <3>1. M.firingIndex <= Len(M.list) /\ M.firingIndex \in Nat /\ M.memory # None
      BY <1>1, <1>10, DeferredFields DEF Sound
    <3>2. QED
      BY <1>1, <1>5, <2>2, <3>1
  <2>4. QED
    BY <1>4, <1>10, <2>2, <2>3 DEF Sound
<1>11. CASE M.live /\ ~M.firing /\ M.memory # None
  <2>1. PICK Q : Q = [K EXCEPT !.firingStart = Len(M.list)]
    OBVIOUS
  <2>2. /\ Q \in DeferredLists
        /\ Q.options = M.options /\ Q.list = l /\ Q.live = M.live
        /\ Q.stack = M.stack /\ Q.stacking = M.stacking /\ Q.memory = M.memory
        /\ Q.firingStart = Len(M.list)
    BY <1>1, <1>7, <2>1 DEF DeferredLists
  <2>3. M.memory \in Values /\ "memory" \in Q.options /\ N = D!Fire(Q, M.memory)
    BY <1>1, <1>8, <1>11, <2>1, <2>2, DeferredFields DEF Sound
  <2>4. /\ N \in DeferredLists
        /\ N.options = Q.options /\ N.list = Q.list /\ N.live = Q.live
        /\ N.stack = Q.stack /\ N.stacking = Q.stacking /\ N.memory = M.memory
        /\ N.fired /\ N.firing /\ N.data = M.memory
        /\ N.firingStart = 0 /\ N.firingLength = Len(Q.list)
        /\ N.firingIndex = Q.firingStart
    BY <2>2, <2>3, DeferredFire
  <2>5. N.firingIndex <= Len(N.list) /\ M.fired /\ M.stack = <<>>
    BY <1>1, <1>5, <1>11, <2>2, <2>4 DEF Sound
  <2>6. M.fired = N.fired
    BY <1>1, <2>4, <2>5, DeferredFields
  <2>7. QED
    BY <1>4, <1>11, <2>2, <2>4, <2>5, <2>6 DEF Sound
<1>12. CASE M.live /\ ~M.firing /\ M.memory = None
  <2>1. N = K
    BY <1>8, <1>12
  <2>2. QED
    BY <1>4, <1>7, <1>12, <2>1 DEF Sound
<1>13. QED
  BY <1>1, <1>9, <1>10, <1>11, <1>12, DeferredFields

\* The end of the loop: the next value that waits is fired, or the list is no
\* longer firing; one that fires once is emptied.
LEMMA AfterLoopShape ==
    ASSUME NEW M, Sound(M), M.firing, NEW N, N = D!AfterLoop(M)
    PROVE  /\ Sound(N)
           /\ N.live /\ N.fired /\ N.stacking = M.stacking
           /\ N.list = M.list \/ N.list = <<>>
           /\ N.firing =>
                  /\ M.stack # <<>> /\ N.stack = Tail(M.stack)
                  /\ N.list = M.list /\ N.firingIndex = 0
                  /\ N.memory = Head(M.stack) /\ N.data = Head(M.stack)
           /\ ~N.firing => N.memory = M.memory /\ N.data = M.data /\ N.stack = <<>>
           /\ ~M.stacking => ~N.firing /\ N.list = <<>>
<1>1. /\ M \in DeferredLists /\ M.live /\ M.fired /\ M.memory # None
      /\ M.list \in Seq(Functions \cup Own) /\ M.stack \in Seq(Values) /\ Len(M.list) \in Nat
      /\ M.stacking \in BOOLEAN
  <2>1. M \in DeferredLists
    BY DEF Sound
  <2>2. QED
    BY <2>1, DeferredFields DEF Sound
<1>2. PICK K : K = [M EXCEPT !.firing = FALSE]
  OBVIOUS
<1>3. /\ K \in DeferredLists
      /\ K.options = M.options /\ K.list = M.list /\ K.live = M.live
      /\ K.stack = M.stack /\ K.stacking = M.stacking /\ K.memory = M.memory
      /\ K.fired = M.fired /\ ~K.firing /\ K.data = M.data
      /\ K.firingStart = M.firingStart /\ K.firingLength = M.firingLength
      /\ K.firingIndex = M.firingIndex
  <2>1. FALSE \in BOOLEAN
    OBVIOUS
  <2>2. QED
    BY <1>1, <1>2, <2>1 DEF DeferredLists
<1>4. N = IF M.stacking
          THEN IF M.stack = <<>> THEN K
               ELSE D!Fire([K EXCEPT !.stack = Tail(M.stack)], Head(M.stack))
          ELSE [K EXCEPT !.list = <<>>]
  <2>1. N = IF ~K.live THEN K
            ELSE IF K.stacking
                 THEN IF K.stack = <<>> THEN K
                      ELSE D!Fire([K EXCEPT !.stack = Tail(K.stack)], Head(K.stack))
            ELSE IF K.memory # None THEN [K EXCEPT !.list = <<>>]
            ELSE D!Disable(K)
    BY <1>2 DEF D!AfterLoop
  <2>2. QED
    BY <1>1, <1>3, <2>1, Zenon
<1>5. CASE M.stacking /\ M.stack = <<>>
  <2>1. N = K
    BY <1>4, <1>5
  <2>2. QED
    BY <1>1, <1>3, <1>5, <2>1 DEF Sound
<1>6. CASE M.stacking /\ M.stack # <<>>
  <2>1. PICK t, v : t = Tail(M.stack) /\ v = Head(M.stack)
    OBVIOUS
  <2>2. t \in Seq(Values) /\ v \in Values /\ v # None
    BY <1>1, <1>6, <2>1, HeadTailProperties, OwnFacts
  <2>3. PICK Q : Q = [K EXCEPT !.stack = t]
    OBVIOUS
  <2>4. /\ Q \in DeferredLists
        /\ Q.options = M.options /\ Q.list = M.list /\ Q.live = M.live
        /\ Q.stack = t /\ Q.stacking = M.stacking /\ Q.firingStart = M.firingStart
    BY <1>3, <2>2, <2>3 DEF DeferredLists
  <2>5. N = D!Fire(Q, v)
    BY <1>4, <1>6, <2>1, <2>3, Zenon
  <2>6. "memory" \in Q.options /\ M.firingStart = 0
    BY <2>4 DEF Sound
  <2>7. /\ N \in DeferredLists
        /\ N.options = Q.options /\ N.list = Q.list /\ N.live = Q.live
        /\ N.stack = Q.stack /\ N.stacking = Q.stacking /\ N.memory = v
        /\ N.fired /\ N.firing /\ N.data = v
        /\ N.firingStart = 0 /\ N.firingLength = Len(Q.list)
        /\ N.firingIndex = Q.firingStart
    BY <2>2, <2>4, <2>5, <2>6, DeferredFire
  <2>8. QED
    BY <1>1, <1>6, <2>1, <2>2, <2>4, <2>6, <2>7 DEF Sound
<1>7. CASE ~M.stacking
  <2>1. N = [K EXCEPT !.list = <<>>]
    BY <1>4, <1>7
  <2>2. <<>> \in Seq(Functions \cup Own) /\ M.stack = <<>>
    BY <1>7, EmptySeq DEF Sound
  <2>3. /\ N \in DeferredLists
        /\ N.options = M.options /\ N.list = <<>> /\ N.live = M.live
        /\ N.stack = M.stack /\ N.stacking = M.stacking /\ N.memory = M.memory
        /\ N.fired = M.fired /\ ~N.firing /\ N.data = M.data
        /\ N.firingStart = M.firingStart
    BY <1>3, <2>1, <2>2 DEF DeferredLists
  <2>4. QED
    BY <1>1, <1>7, <2>2, <2>3 DEF Sound
<1>8. QED
  BY <1>5, <1>6, <1>7

-----------------------------------------------------------------------------
(* The handlers that a list still has to call.                             *)

\* What is left of the list M; inner says that its loop is between two callbacks.
Rest(M, inner) ==
    IF M.firing
    THEN SubSeq(M.list, M.firingIndex + (IF inner THEN 1 ELSE 2), M.firingLength)
    ELSE M.list

Owes(M, inner) == D!Handlers(Rest(M, inner))

\* Until its own callbacks have run, a list owes the handlers behind them.
LEMMA OwnFirstOwes ==
    ASSUME NEW M, Sound(M), OwnFirst(M.list), NEW inner \in BOOLEAN,
           M.firing => inner /\ M.firingIndex \in 0..3
    PROVE  /\ Owes(M, inner) = SubSeq(M.list, 4, Len(M.list))
           /\ Owes(M, inner) \in Seq(Functions)
           /\ \A i \in 4..Len(M.list) : M.list[i] \in Functions
<1>1. PICK s \in Seq(Functions \cup Own), n \in Nat : s = M.list /\ n = Len(s)
  BY DeferredFields DEF Sound
<1>2. n >= 3 /\ 4 \in 1..(n + 1)
  BY <1>1 DEF OwnFirst
<1>3. PICK k \in 1..4 : k = IF M.firing THEN M.firingIndex + 1 ELSE 1
  OBVIOUS
<1>4. /\ \A i \in k..(4 - 1) : s[i] \notin Functions
      /\ \A i \in 4..n : s[i] \in Functions
      /\ k \in 1..(n + 1) /\ 4 \in k..(n + 1)
  <2>1. s[1] \in Own /\ s[2] \in Own /\ s[3] \in Own
    BY <1>1 DEF OwnFirst, Own
  <2>2. \A i \in k..(4 - 1) : i = 1 \/ i = 2 \/ i = 3
    OBVIOUS
  <2>3. \A i \in k..(4 - 1) : s[i] \notin Functions
    BY <2>1, <2>2, OwnFacts
  <2>4. QED
    BY <1>1, <1>2, <2>3 DEF OwnFirst
<1>5. D!Handlers(SubSeq(s, k, n)) = SubSeq(s, 4, n) /\ SubSeq(s, 4, n) \in Seq(Functions)
  BY <1>1, <1>4, HandlersOf, ZenonT(30)
<1>6. Rest(M, inner) = SubSeq(s, k, n)
  <2>1. CASE M.firing
    BY <1>1, <1>3, <2>1 DEF Rest, Sound
  <2>2. CASE ~M.firing
    BY <1>1, <1>3, <2>2, SubSeqFull DEF Rest
  <2>3. QED
    BY <2>1, <2>2
<1>7. QED
  BY <1>1, <1>4, <1>5, <1>6 DEF Owes

\* Afterwards it owes all that is left of it.
LEMMA OpenOwes ==
    ASSUME NEW M, Sound(M), Open(M), NEW inner \in BOOLEAN,
           M.firing => inner \/ AtHandler(M)
    PROVE  /\ Owes(M, inner) \in Seq(Functions)
           /\ ~M.firing => Owes(M, inner) = <<>>
           /\ M.firing => Owes(M, inner)
                  = SubSeq(M.list, M.firingIndex + (IF inner THEN 1 ELSE 2), Len(M.list))
<1>1. PICK s \in Seq(Functions \cup Own), n \in Nat : s = M.list /\ n = Len(s)
  BY DeferredFields DEF Sound
<1>2. CASE M.firing
  <2>1. M.firingIndex \in Nat /\ M.firingIndex <= n /\ M.firingLength = n
    BY <1>1, <1>2, DeferredFields DEF Sound
  <2>2. PICK k : k = M.firingIndex + (IF inner THEN 1 ELSE 2)
    OBVIOUS
  <2>3. k \in 1..(n + 1) /\ k \in k..(n + 1)
    <3>1. CASE inner
      BY <2>1, <2>2, <3>1
    <3>2. CASE ~inner
      <4>1. M.firingIndex < n
        BY <1>1, <1>2, <3>2 DEF AtHandler
      <4>2. QED
        BY <2>1, <2>2, <3>2, <4>1
    <3>3. QED
      BY <3>1, <3>2
  <2>4. \A i \in k..n : s[i] \in Functions
    <3>1. \A i \in (M.firingIndex + 1)..n : s[i] \in Functions
      BY <1>1, <1>2 DEF Open
    <3>2. \A i \in k..n : i \in (M.firingIndex + 1)..n
      BY <2>1, <2>2, <2>3
    <3>3. QED
      BY <3>1, <3>2
  <2>5. \A i \in k..(k - 1) : s[i] \notin Functions
    BY <2>3
  <2>6. D!Handlers(SubSeq(s, k, n)) = SubSeq(s, k, n) /\ SubSeq(s, k, n) \in Seq(Functions)
    BY <1>1, <2>3, <2>4, <2>5, HandlersOf, ZenonT(30)
  <2>7. Rest(M, inner) = SubSeq(s, k, n)
    BY <1>1, <1>2, <2>1, <2>2 DEF Rest
  <2>8. QED
    BY <1>1, <1>2, <2>2, <2>6, <2>7 DEF Owes
<1>3. CASE ~M.firing
  <2>1. s = <<>> /\ n = 0 /\ Rest(M, inner) = s
    BY <1>1, <1>3 DEF Open, Rest
  <2>2. /\ D!Handlers(SubSeq(s, 1, n)) = SubSeq(s, 1, n)
        /\ SubSeq(s, 1, n) \in Seq(Functions)
    <3>1. PICK k : k = 1
      OBVIOUS
    <3>2. /\ k \in 1..(n + 1) /\ k \in k..(n + 1)
          /\ \A i \in k..(k - 1) : s[i] \notin Functions
          /\ \A i \in k..n : s[i] \in Functions
      BY <2>1, <3>1
    <3>3. D!Handlers(SubSeq(s, k, n)) = SubSeq(s, k, n) /\ SubSeq(s, k, n) \in Seq(Functions)
      BY <1>1, <3>2, HandlersOf, ZenonT(30)
    <3>4. QED
      BY <3>1, <3>3
  <2>3. SubSeq(s, 1, n) = s
    BY <1>1, SubSeqFull
  <2>4. QED
    BY <1>3, <2>1, <2>2, <2>3 DEF Owes
<1>4. QED
  BY <1>2, <1>3

\* A handler that is added to a list comes last of those it owes.
LEMMA AppendOwes ==
    ASSUME NEW S, NEW s \in Seq(S), NEW c \in Functions, c \in S, NEW k \in 1..(Len(s) + 1),
           SubSeq(s, k, Len(s)) \in Seq(Functions)
    PROVE  SubSeq(Append(s, c), k, Len(Append(s, c))) = Append(SubSeq(s, k, Len(s)), c)
<1>1. Append(s, c) = s \o <<c>> /\ <<c>> \in Seq(S)
  BY AppendIsConcat
<1>2. SubSeq(s \o <<c>>, k, Len(s \o <<c>>)) = SubSeq(s, k, Len(s)) \o <<c>>
  BY <1>1, AppendRest
<1>3. Append(SubSeq(s, k, Len(s)), c) = SubSeq(s, k, Len(s)) \o <<c>>
  BY AppendIsConcat
<1>4. QED
  BY <1>1, <1>2, <1>3

\* A handler for an outcome that has not been decided.
LEMMA FreshAdd ==
    ASSUME NEW M, Sound(M), Fresh(M), NEW c \in Functions, NEW N, N = D!Add(M, <<c>>),
           NEW i \in BOOLEAN, NEW j \in BOOLEAN
    PROVE  Fresh(N) /\ Owes(N, j) = Append(Owes(M, i), c)
<1>1. PICK s \in Seq(Functions \cup Own), n \in Nat : s = M.list /\ n = Len(s)
  BY DeferredFields DEF Sound
<1>2. /\ Sound(N) /\ N.live /\ ~N.stacking /\ N.memory = None /\ ~N.fired /\ ~N.firing
      /\ N.list = Append(s, c)
  BY <1>1, AddShape DEF Fresh
<1>3. n >= 3 /\ 4 \in 1..(n + 1) /\ c \in Functions \cup Own
  BY <1>1 DEF Fresh, OwnFirst
<1>4. /\ Len(Append(s, c)) = n + 1 /\ Append(s, c)[n + 1] = c
      /\ \A x \in 1..n : Append(s, c)[x] = s[x]
  BY <1>1, <1>3, AppendProperties
<1>5. OwnFirst(N.list)
  <2>1. /\ Append(s, c)[1] = s[1] /\ Append(s, c)[2] = s[2] /\ Append(s, c)[3] = s[3]
        /\ Len(Append(s, c)) >= 3
    BY <1>3, <1>4
  <2>2. ASSUME NEW x \in 4..(n + 1) PROVE Append(s, c)[x] \in Functions
    <3>1. CASE x = n + 1
      BY <1>4, <3>1
    <3>2. CASE x # n + 1
      <4>1. x \in 1..n /\ x \in 4..n
        BY <3>2
      <4>2. QED
        BY <1>1, <1>4, <4>1 DEF Fresh, OwnFirst
    <3>3. QED
      BY <3>1, <3>2
  <2>3. QED
    BY <1>1, <1>2, <1>4, <2>1, <2>2 DEF Fresh, OwnFirst
<1>6. Owes(M, i) = SubSeq(s, 4, n) /\ Owes(M, i) \in Seq(Functions)
  BY <1>1, OwnFirstOwes DEF Fresh
<1>7. Owes(N, j) = SubSeq(Append(s, c), 4, Len(Append(s, c)))
  BY <1>2, <1>5, OwnFirstOwes
<1>8. SubSeq(Append(s, c), 4, Len(Append(s, c))) = Append(SubSeq(s, 4, n), c)
  BY <1>1, <1>3, <1>6, AppendOwes
<1>9. QED
  BY <1>2, <1>5, <1>6, <1>7, <1>8 DEF Fresh

\* The first fire of an outcome's list.
LEMMA FreshFire ==
    ASSUME NEW M, Sound(M), Fresh(M), NEW v \in Values, NEW N, N = D!FireWith(M, v)
    PROVE  AtOwn(N, 0) /\ Owes(N, TRUE) = Owes(M, FALSE)
<1>1. /\ Sound(N) /\ N.live /\ ~N.stacking /\ N.firing /\ N.list = M.list /\ N.firingIndex = 0
  <2>1. M.live /\ ~M.stacking /\ ~M.fired /\ ~M.firing
    BY DEF Fresh
  <2>2. /\ Sound(N) /\ N.list = M.list /\ N.live = M.live /\ N.stacking = M.stacking
        /\ M.live /\ ~M.fired /\ ~M.firing => N.firing
        /\ N = M \/ M.firing \/ N.firingIndex = 0
    BY FireWithShape
  <2>3. N.firing /\ N # M
    BY <2>1, <2>2
  <2>4. QED
    BY <2>1, <2>2, <2>3
<1>2. OwnFirst(M.list) /\ ~M.firing
  BY DEF Fresh
<1>3. Owes(M, FALSE) = SubSeq(M.list, 4, Len(M.list))
  BY <1>2, OwnFirstOwes
<1>4. Owes(N, TRUE) = SubSeq(N.list, 4, Len(N.list))
  <2>1. OwnFirst(N.list) /\ TRUE \in BOOLEAN /\ N.firingIndex \in 0..3
    BY <1>1, <1>2
  <2>2. QED
    BY <1>1, <2>1, OwnFirstOwes
<1>5. QED
  BY <1>1, <1>2, <1>3, <1>4 DEF AtOwn

\* An own callback has run.
LEMMA OwnAdvance ==
    ASSUME NEW M, Sound(M), NEW k \in 0..2, AtOwn(M, k), NEW N, N = D!Advance(M)
    PROVE  /\ Sound(N)
           /\ k < 2 => AtOwn(N, k + 1)
           /\ k = 2 => Open(N)
           /\ Owes(N, TRUE) = Owes(M, TRUE) /\ Owes(N, TRUE) \in Seq(Functions)
<1>1. M \in DeferredLists /\ OwnFirst(M.list) /\ M.firing /\ M.firingIndex = k
      /\ M.live /\ ~M.stacking /\ Len(M.list) >= 3 /\ Len(M.list) \in Nat
  BY DeferredFields DEF Sound, AtOwn, OwnFirst
<1>2. /\ N \in DeferredLists
      /\ N.options = M.options /\ N.list = M.list /\ N.live = M.live
      /\ N.stack = M.stack /\ N.stacking = M.stacking /\ N.memory = M.memory
      /\ N.fired = M.fired /\ N.firing = M.firing /\ N.data = M.data
      /\ N.firingStart = M.firingStart /\ N.firingLength = M.firingLength
      /\ N.firingIndex = k + 1
  BY <1>1, AdvanceShape
<1>3. k + 1 <= Len(M.list) /\ k + 1 \in 0..3 /\ k \in 0..3
  BY <1>1
<1>4. Sound(N)
  BY <1>1, <1>2, <1>3 DEF Sound
<1>5. Owes(M, TRUE) = SubSeq(M.list, 4, Len(M.list)) /\ Owes(M, TRUE) \in Seq(Functions)
  BY <1>1, <1>3, OwnFirstOwes
<1>6. Owes(N, TRUE) = SubSeq(N.list, 4, Len(N.list))
  BY <1>1, <1>2, <1>3, <1>4, OwnFirstOwes
<1>7. k = 2 => Open(N)
  <2>1. SUFFICES ASSUME k = 2 PROVE Open(N)
    OBVIOUS
  <2>2. N.firingIndex + 1 = 4 /\ N.memory # None /\ N.fired
    BY <1>1, <1>2, <2>1 DEF Sound
  <2>3. QED
    BY <1>1, <1>2, <2>2 DEF Open, OwnFirst
<1>8. QED
  BY <1>1, <1>2, <1>4, <1>5, <1>6, <1>7 DEF AtOwn

\* A handler that is added to the list of the outcome that was reached.
LEMMA OpenAdd ==
    ASSUME NEW M, Sound(M), Open(M), M.firing => AtHandler(M), NEW c \in Functions,
           NEW N, N = D!Add(M, <<c>>), NEW inner \in BOOLEAN, inner <=> ~M.firing
    PROVE  /\ Open(N) /\ N.firing
           /\ M.firing => AtHandler(N)
           /\ Owes(N, inner) = Append(Owes(M, FALSE), c)
<1>1. PICK s \in Seq(Functions \cup Own), n \in Nat : s = M.list /\ n = Len(s)
  BY DeferredFields DEF Sound
<1>2. /\ Sound(N) /\ N.live /\ ~N.stacking /\ N.memory # None /\ N.fired /\ N.firing
      /\ N.list = Append(s, c)
      /\ N.firingIndex = IF M.firing THEN M.firingIndex ELSE n
  BY <1>1, AddShape DEF Open
<1>3. /\ Len(Append(s, c)) = n + 1 /\ Append(s, c)[n + 1] = c
      /\ \A x \in 1..n : Append(s, c)[x] = s[x]
      /\ c \in Functions \cup Own
  BY <1>1, AppendProperties
<1>4. M.firingIndex \in Nat
  BY DeferredFields DEF Sound
<1>5. CASE M.firing
  <2>1. /\ M.firingIndex < n /\ s[M.firingIndex + 1] \in Functions
        /\ M.firingIndex + 1 \in 1..n
    BY <1>1, <1>4, <1>5 DEF AtHandler
  <2>2. AtHandler(N)
    <3>1. N.firingIndex = M.firingIndex /\ M.firingIndex < n + 1
      <4>1. N.firingIndex = M.firingIndex
        BY <1>2, <1>5
      <4>2. M.firingIndex < n + 1
        BY <1>1, <1>4, <2>1
      <4>3. QED
        BY <4>1, <4>2
    <3>2. Append(s, c)[M.firingIndex + 1] \in Functions
      BY <1>3, <2>1
    <3>3. QED
      BY <1>2, <1>3, <3>1, <3>2 DEF AtHandler
  <2>3. Open(N)
    <3>1. ASSUME NEW x \in (M.firingIndex + 1)..(n + 1) PROVE Append(s, c)[x] \in Functions
      <4>1. CASE x = n + 1
        BY <1>3, <4>1
      <4>2. CASE x # n + 1
        <5>1. x \in 1..n /\ x \in (M.firingIndex + 1)..n
          BY <1>4, <4>2
        <5>2. QED
          BY <1>1, <1>3, <1>5, <5>1 DEF Open
      <4>3. QED
        BY <4>1, <4>2
    <3>2. QED
      BY <1>2, <1>3, <1>5, <3>1 DEF Open
  <2>4. PICK k \in 1..(n + 1) : k = M.firingIndex + 2
    BY <1>4, <2>1
  <2>5. Owes(M, FALSE) = SubSeq(s, k, n) /\ Owes(M, FALSE) \in Seq(Functions)
    BY <1>1, <1>5, <2>4, OpenOwes
  <2>6. Owes(N, FALSE) = SubSeq(Append(s, c), k, Len(Append(s, c)))
    BY <1>2, <1>5, <2>2, <2>3, <2>4, OpenOwes
  <2>7. SubSeq(Append(s, c), k, Len(Append(s, c))) = Append(SubSeq(s, k, n), c)
    BY <1>1, <1>3, <2>4, <2>5, AppendOwes
  <2>8. inner = FALSE
    BY <1>5
  <2>9. QED
    BY <1>2, <2>2, <2>3, <2>5, <2>6, <2>7, <2>8
<1>6. CASE ~M.firing
  <2>1. s = <<>> /\ n = 0 /\ N.firingIndex = 0 /\ inner = TRUE
    BY <1>1, <1>2, <1>6 DEF Open
  <2>2. Append(s, c) = <<c>> /\ Append(<<>>, c) = <<c>>
    BY <2>1
  <2>3. N.list = <<c>> /\ Len(N.list) = 1 /\ N.list[1] = c
    BY <1>2, <1>3, <2>1, <2>2
  <2>4. Open(N)
    <3>1. \A x \in (N.firingIndex + 1)..Len(N.list) : N.list[x] \in Functions
      BY <2>1, <2>3
    <3>2. QED
      BY <1>2, <3>1 DEF Open
  <2>5. Owes(N, TRUE) = SubSeq(N.list, N.firingIndex + 1, Len(N.list))
    BY <1>2, <2>4, OpenOwes
  <2>6. SubSeq(<<c>>, 1, 1) = <<c>>
    <3>1. <<c>> \in Seq(Functions) /\ Len(<<c>>) = 1
      OBVIOUS
    <3>2. QED
      BY <3>1, SubSeqFull
  <2>7. Owes(N, TRUE) = <<c>>
    <3>1. N.firingIndex + 1 = 1
      BY <2>1
    <3>2. SubSeq(N.list, N.firingIndex + 1, Len(N.list)) = SubSeq(<<c>>, 1, 1)
      BY <2>3, <3>1, Zenon
    <3>3. QED
      BY <2>5, <2>6, <3>2
  <2>8. Owes(M, FALSE) = <<>>
    BY <1>6, OpenOwes
  <2>9. QED
    BY <1>2, <1>6, <2>1, <2>2, <2>4, <2>7, <2>8
<1>7. M.firing \in BOOLEAN
  BY DeferredFields DEF Sound
<1>8. QED
  BY <1>5, <1>6, <1>7

\* The handler that is called is the first of those that are owed.
LEMMA OpenCall ==
    ASSUME NEW M, Sound(M), Open(M), M.firing, AtHandler(M)
    PROVE  /\ Owes(M, TRUE) # <<>>
           /\ Head(Owes(M, TRUE)) = M.list[M.firingIndex + 1]
           /\ Owes(M, FALSE) = Tail(Owes(M, TRUE))
<1>1. PICK s \in Seq(Functions \cup Own), n \in Nat : s = M.list /\ n = Len(s)
  BY DeferredFields DEF Sound
<1>2. M.firingIndex \in Nat /\ M.firingIndex < n
  BY <1>1, DeferredFields DEF Sound, AtHandler
<1>3. PICK k \in 1..n : k = M.firingIndex + 1
  BY <1>2
<1>4. Owes(M, TRUE) = SubSeq(s, k, n)
  BY <1>1, <1>3, OpenOwes
<1>5. Owes(M, FALSE) = SubSeq(s, k + 1, n)
  <2>1. k + 1 = M.firingIndex + 2
    BY <1>2, <1>3
  <2>2. QED
    BY <1>1, <2>1, OpenOwes
<1>6. PICK r : r = SubSeq(s, k, n)
  OBVIOUS
<1>7. r # <<>> /\ Head(r) = s[k] /\ Tail(r) = SubSeq(s, k + 1, n)
  <2>1. k \in 1..(Len(s) + 1) /\ k <= Len(s) /\ r = SubSeq(s, k, Len(s))
    BY <1>1, <1>3, <1>6
  <2>2. QED
    BY <1>1, <2>1, RestFacts, ZenonT(30)
<1>8. QED
  BY <1>1, <1>3, <1>4, <1>5, <1>6, <1>7

\* When the handler returns, the list owes what it owed while the handler ran.
LEMMA OpenReturn ==
    ASSUME NEW M, Sound(M), Open(M), M.firing, AtHandler(M), NEW N, N = D!Advance(M)
    PROVE  Open(N) /\ N.firing /\ Owes(N, TRUE) = Owes(M, FALSE)
<1>1. /\ M \in DeferredLists /\ M.firingIndex \in Nat /\ M.firingIndex < Len(M.list)
      /\ Len(M.list) \in Nat
  BY DeferredFields DEF Sound, AtHandler
<1>2. /\ N \in DeferredLists
      /\ N.options = M.options /\ N.list = M.list /\ N.live = M.live
      /\ N.stack = M.stack /\ N.stacking = M.stacking /\ N.memory = M.memory
      /\ N.fired = M.fired /\ N.firing = M.firing /\ N.data = M.data
      /\ N.firingStart = M.firingStart /\ N.firingLength = M.firingLength
      /\ N.firingIndex = M.firingIndex + 1
  BY <1>1, AdvanceShape
<1>3. M.firingIndex + 1 <= Len(M.list)
  BY <1>1
<1>4. Sound(N)
  BY <1>1, <1>2, <1>3 DEF Sound
<1>5. Open(N)
  <2>1. ASSUME NEW i \in (N.firingIndex + 1)..Len(N.list) PROVE N.list[i] \in Functions
    <3>1. i \in (M.firingIndex + 1)..Len(M.list)
      BY <1>1, <1>2
    <3>2. QED
      BY <1>2, <3>1 DEF Open
  <2>2. QED
    BY <1>2, <2>1 DEF Open
<1>6. Owes(N, TRUE) = SubSeq(N.list, N.firingIndex + 1, Len(N.list))
  BY <1>2, <1>4, <1>5, OpenOwes
<1>7. Owes(M, FALSE) = SubSeq(M.list, M.firingIndex + 2, Len(M.list))
  BY OpenOwes
<1>8. (M.firingIndex + 1) + 1 = M.firingIndex + 2
  BY <1>1
<1>9. QED
  BY <1>2, <1>5, <1>6, <1>7, <1>8

\* At the end of the loop, nothing is owed.
LEMMA OpenLeave ==
    ASSUME NEW M, Sound(M), Open(M), M.firing, ~D!MoreToCall(M), NEW N, N = D!AfterLoop(M)
    PROVE  Open(N) /\ ~N.firing /\ Owes(N, FALSE) = Owes(M, TRUE)
<1>1. /\ M.firingIndex \in Nat /\ M.firingIndex <= Len(M.list) /\ Len(M.list) \in Nat
      /\ M.live /\ M.firingLength = Len(M.list) /\ M.list \in Seq(Functions \cup Own)
  BY DeferredFields DEF Sound
<1>2. M.firingIndex = Len(M.list)
  BY <1>1 DEF D!MoreToCall
<1>3. Owes(M, TRUE) = <<>>
  <2>1. Owes(M, TRUE) = SubSeq(M.list, M.firingIndex + 1, Len(M.list))
    BY OpenOwes
  <2>2. PICK k : k = M.firingIndex + 1
    OBVIOUS
  <2>3. k \in 1..(Len(M.list) + 1) /\ k = Len(M.list) + 1
    BY <1>1, <1>2, <2>2
  <2>4. PICK r : r = SubSeq(M.list, k, Len(M.list))
    OBVIOUS
  <2>5. r = <<>>
    BY <1>1, <2>3, <2>4, RestFacts
  <2>6. QED
    BY <2>1, <2>2, <2>4, <2>5
<1>4. /\ Sound(N) /\ N.live /\ N.fired /\ ~N.stacking /\ ~N.firing
      /\ N.memory # None /\ N.list = <<>>
  BY AfterLoopShape DEF Open
<1>5. Open(N)
  BY <1>4 DEF Open
<1>6. Owes(N, FALSE) = <<>>
  BY <1>4, <1>5, OpenOwes
<1>7. QED
  BY <1>3, <1>4, <1>5, <1>6

-----------------------------------------------------------------------------
(* The promise: what is owed, and what is being called.                    *)

\* The handlers that the list of an outcome owes.
OwedBy(n) == Owes(lists[n], D!Innermost(n))

HandlersOwed ==
    [s \in {"resolved", "rejected"} |->
        IF state \in {"pending", s} THEN OwedBy(D!NameOf(s)) ELSE <<>>]

CallMade ==
    IF \E s \in {"resolved", "rejected"} : D!InHandler(D!NameOf(s))
    THEN <<state, D!Callee(lists[D!NameOf(state)])>>
    ELSE None

\* A step of the Deferred is one of the promise, or none.
DeferredStep ==
    /\ DeferredInv'
    /\ D!P!Next \/ UNCHANGED <<state, HandlersOwed, CallMade>>

\* What is owed for outcomes that can come about is still owed.
OwedStays ==
    \A m \in Ends : state \in {"pending", D!FinalState(m)} => OwedBy(m)' = OwedBy(m)

\* The names of the outcomes.
LEMMA EndFacts ==
    /\ D!ListNames = Ends \cup {"progress"} /\ "progress" \notin Ends
    /\ \A n \in Ends :
           /\ D!Other(n) \in Ends /\ D!Other(n) # n /\ D!Other(D!Other(n)) = n
           /\ D!FinalState(n) \in {"resolved", "rejected"}
           /\ D!FinalState(n) # "pending"
           /\ D!FinalState(n) # D!FinalState(D!Other(n))
           /\ D!NameOf(D!FinalState(n)) = n
           /\ \A m \in Ends : m = n \/ m = D!Other(n)
    /\ \A s \in {"resolved", "rejected"} :
           D!NameOf(s) \in Ends /\ D!FinalState(D!NameOf(s)) = s
BY DEF Ends, D!ListNames, D!Other, D!FinalState, D!NameOf

\* The handlers of D!Unvisited are those that are owed.
LEMMA UnvisitedIsRest ==
    /\ \A n : D!Handlers(D!Unvisited(n)) = OwedBy(n)
    /\ \A n : (D!Handlers(D!Unvisited(n)))' = (OwedBy(n))'
<1>1. \A n : D!Unvisited(n) = Rest(lists[n], D!Innermost(n))
  BY Zenon DEF D!Unvisited, Rest
<1>2. \A n : (D!Unvisited(n))' = (Rest(lists[n], D!Innermost(n)))'
  BY Zenon DEF D!Unvisited, Rest
<1>3. \A n : D!Handlers(D!Unvisited(n)) = OwedBy(n)
  BY <1>1, Zenon DEF OwedBy, Owes
<1>4. \A n : (D!Handlers(D!Unvisited(n)))' = (OwedBy(n))'
  BY <1>2, Zenon DEF OwedBy, Owes, D!Handlers
<1>5. QED
  BY <1>3, <1>4

\* The variable owed of Promise.
LEMMA OwedIsHandlersOwed ==
    /\ [s \in {"resolved", "rejected"} |->
           IF state \in {"pending", s} THEN D!Handlers(D!Unvisited(D!NameOf(s))) ELSE <<>>]
         = HandlersOwed
    /\ [s \in {"resolved", "rejected"} |->
           IF state \in {"pending", s} THEN D!Handlers(D!Unvisited(D!NameOf(s))) ELSE <<>>]'
         = HandlersOwed'
BY UnvisitedIsRest DEF HandlersOwed, D!NameOf

\* A handler is added.
LEMMA PromiseOn ==
    ASSUME NEW n \in Ends, NEW c \in Functions, state' = state, CallMade' = CallMade,
           state \in {"pending", D!FinalState(n)} => (OwedBy(n))' = Append(OwedBy(n), c),
           state = "pending" => (OwedBy(D!Other(n)))' = OwedBy(D!Other(n)),
           state = D!FinalState(D!Other(n)) => (OwedBy(D!Other(n)))' = OwedBy(D!Other(n)),
           state \in {"pending", D!FinalState(n), D!FinalState(D!Other(n))}
    PROVE  D!P!Next
<1>1. PICK s \in {"resolved", "rejected"} : s = D!FinalState(n) /\ n = D!NameOf(s)
  BY EndFacts
<1>2. \A o \in {"resolved", "rejected"} : o = s \/ o = D!FinalState(D!Other(n))
  BY <1>1, EndFacts
<1>3. HandlersOwed' = IF state \in {"pending", s} THEN [HandlersOwed EXCEPT ![s] = Append(@, c)] ELSE HandlersOwed
  <2>1. ASSUME NEW o \in {"resolved", "rejected"}
        PROVE  (IF state \in {"pending", o} THEN OwedBy(D!NameOf(o)) ELSE <<>>)'
                 = IF state \in {"pending", s} /\ o = s THEN Append(OwedBy(n), c)
                   ELSE IF state \in {"pending", o} THEN OwedBy(D!NameOf(o)) ELSE <<>>
    <3>1. CASE o = s
      BY <1>1, <3>1 DEF D!NameOf
    <3>2. CASE o # s
      <4>1. o = D!FinalState(D!Other(n)) /\ D!NameOf(o) = D!Other(n)
        BY <1>2, <3>2, EndFacts
      <4>2. state \in {"pending", o} => (OwedBy(D!NameOf(o)))' = OwedBy(D!NameOf(o))
        BY <4>1 DEF D!NameOf
      <4>3. QED
        BY <3>2, <4>2 DEF D!NameOf
    <3>3. QED
      BY <3>1, <3>2
  <2>2. QED
    BY <1>1, <2>1 DEF HandlersOwed
<1>4. D!P!On(s, c)
  BY <1>3, OwedIsHandlersOwed DEF D!P!On, CallMade
<1>5. QED
  BY <1>1, <1>4 DEF D!P!Next, D!P!Outcomes

\* The outcome is decided.
LEMMA PromiseSettle ==
    ASSUME NEW n \in Ends, state = "pending", state' = D!FinalState(n), CallMade' = CallMade,
           (OwedBy(n))' = OwedBy(n)
    PROVE  D!P!Next
<1>1. PICK s \in {"resolved", "rejected"} : s = D!FinalState(n) /\ n = D!NameOf(s)
  BY EndFacts
<1>2. HandlersOwed' = [o \in {"resolved", "rejected"} |-> IF o = s THEN HandlersOwed[o] ELSE <<>>]
  <2>1. ASSUME NEW o \in {"resolved", "rejected"}
        PROVE  (IF state \in {"pending", o} THEN OwedBy(D!NameOf(o)) ELSE <<>>)'
                 = IF o = s THEN HandlersOwed[o] ELSE <<>>
    <3>1. CASE o = s
      BY <1>1, <3>1 DEF D!NameOf, HandlersOwed
    <3>2. CASE o # s
      BY <1>1, <3>2
    <3>3. QED
      BY <3>1, <3>2
  <2>2. QED
    BY <2>1 DEF HandlersOwed
<1>3. D!P!Settle(s)
  BY <1>1, <1>2, OwedIsHandlersOwed DEF D!P!Settle, D!P!Outcomes, CallMade
<1>4. QED
  BY <1>3 DEF D!P!Next, D!P!Outcomes

\* The next handler is called.
LEMMA PromiseCall ==
    ASSUME NEW n \in Ends, state = D!FinalState(n), state' = state,
           CallMade = None, OwedBy(n) # <<>>,
           CallMade' = <<state, Head(OwedBy(n))>>, (OwedBy(n))' = Tail(OwedBy(n))
    PROVE  D!P!Next
<1>1. PICK s \in {"resolved", "rejected"} : s = D!FinalState(n) /\ n = D!NameOf(s) /\ state = s
  BY EndFacts
<1>2. HandlersOwed[state] = OwedBy(n)
  BY <1>1 DEF HandlersOwed
<1>3. HandlersOwed' = [HandlersOwed EXCEPT ![state] = Tail(@)]
  <2>1. ASSUME NEW o \in {"resolved", "rejected"}
        PROVE  (IF state \in {"pending", o} THEN OwedBy(D!NameOf(o)) ELSE <<>>)'
                 = IF o = s THEN Tail(OwedBy(n)) ELSE HandlersOwed[o]
    <3>1. CASE o = s
      BY <1>1, <3>1 DEF D!NameOf
    <3>2. CASE o # s
      BY <1>1, <3>2 DEF HandlersOwed
    <3>3. QED
      BY <3>1, <3>2
  <2>2. HandlersOwed' = [o \in {"resolved", "rejected"} |->
                             IF o = s THEN Tail(OwedBy(n)) ELSE HandlersOwed[o]]
    BY <2>1 DEF HandlersOwed
  <2>3. DOMAIN HandlersOwed = {"resolved", "rejected"}
    BY DEF HandlersOwed
  <2>4. HandlersOwed = [o \in {"resolved", "rejected"} |-> HandlersOwed[o]]
    BY DEF HandlersOwed
  <2> HIDE DEF HandlersOwed
  <2>5. QED
    BY <1>1, <1>2, <2>2, <2>3, <2>4
<1>4. D!P!Call
  BY <1>1, <1>2, <1>3, OwedIsHandlersOwed DEF D!P!Call, CallMade
<1>5. QED
  BY <1>4 DEF D!P!Next

\* What is owed does not change.
LEMMA SameOwed ==
    ASSUME state' = state, OwedStays
    PROVE  HandlersOwed' = HandlersOwed
<1>1. ASSUME NEW o \in {"resolved", "rejected"}
      PROVE  (IF state \in {"pending", o} THEN OwedBy(D!NameOf(o)) ELSE <<>>)'
               = IF state \in {"pending", o} THEN OwedBy(D!NameOf(o)) ELSE <<>>
  <2>1. D!NameOf(o) \in Ends /\ D!FinalState(D!NameOf(o)) = o
    BY EndFacts
  <2>2. state \in {"pending", o} => (OwedBy(D!NameOf(o)))' = OwedBy(D!NameOf(o))
    BY <2>1 DEF OwedStays, D!NameOf
  <2>3. QED
    BY <2>2 DEF D!NameOf
<1>2. QED
  BY <1>1 DEF HandlersOwed

\* The handler returns, or throws.
LEMMA PromiseReturn ==
    ASSUME state' = state, OwedStays, CallMade # None, CallMade' = None
    PROVE  D!P!Next
<1>1. D!P!Return
  BY SameOwed, OwedIsHandlersOwed DEF D!P!Return, CallMade
<1>2. QED
  BY <1>1 DEF D!P!Next

\* A Deferred calls a handler of the outcome it has, or none.
CallsAre ==
    /\ \A n \in Ends : D!InHandler(n) =>
           /\ Settled(n) /\ AtHandler(lists[n]) /\ lists[n].firing
           /\ CallMade = <<D!FinalState(n), lists[n].list[lists[n].firingIndex + 1]>>
           /\ CallMade # None
    /\ (\A n \in Ends : ~D!InHandler(n)) => CallMade = None

LEMMA CallIs == DeferredInv => CallsAre
<1> SUFFICES ASSUME DeferredInv PROVE CallsAre
  OBVIOUS
<1>1. ASSUME NEW n \in Ends, D!InHandler(n) PROVE Settled(n) /\ AtHandler(lists[n]) /\ lists[n].firing
  <2>1. D!Contains(running, n) /\ ~D!Innermost(n)
    BY <1>1 DEF D!InHandler
  <2>2. lists[n].firing
    BY <2>1 DEF D!Contains, DeferredInv, RunningInv
  <2>3. n \in D!ListNames
    BY EndFacts
  <2>4. Sound(lists[n]) /\ AtHandler(lists[n])
    BY <2>1, <2>2, <2>3 DEF DeferredInv, ListsInv
  <2>5. ~Pending
    BY <2>2 DEF Pending, Fresh
  <2>6. ASSUME NEW m \in Ends, NEW k \in 0..2, Settling(m, k) PROVE FALSE
    <3>1. m # n
      BY <2>1, <2>6 DEF Settling
    <3>2. n = D!Other(m)
      BY <3>1, EndFacts
    <3>3. Fresh(lists[n]) \/ ~lists[n].live
      BY <2>6, <3>2 DEF Settling
    <3>4. QED
      BY <2>2, <2>4, <3>3 DEF Sound, Fresh
  <2>7. ASSUME Settled(D!Other(n)) PROVE FALSE
    <3>1. ~lists[n].live
      BY <2>7, EndFacts DEF Settled
    <3>2. QED
      BY <2>2, <2>4, <3>1 DEF Sound
  <2>8. QED
    BY <2>2, <2>4, <2>5, <2>6, <2>7, EndFacts DEF DeferredInv, PhaseInv
<1>2. ASSUME NEW n \in Ends, D!InHandler(n)
      PROVE  /\ CallMade = <<D!FinalState(n), lists[n].list[lists[n].firingIndex + 1]>>
             /\ CallMade # None
  <2>1. state = D!FinalState(n) /\ AtHandler(lists[n])
    BY <1>1, <1>2 DEF Settled
  <2>2. PICK s \in {"resolved", "rejected"} : s = D!FinalState(n) /\ n = D!NameOf(s)
    BY EndFacts
  <2>3. CallMade = <<state, D!Callee(lists[n])>>
    BY <1>2, <2>1, <2>2 DEF CallMade
  <2>4. D!Callee(lists[n]) = lists[n].list[lists[n].firingIndex + 1]
    BY DEF D!Callee
  <2>5. lists[n].list[lists[n].firingIndex + 1] \in Functions
    BY <2>1 DEF AtHandler
  <2>6. CallMade # None
    BY <2>1, <2>2, <2>3, <2>4, <2>5, OwnFacts
  <2>7. QED
    BY <2>1, <2>3, <2>4, <2>6
<1>3. ASSUME \A n \in Ends : ~D!InHandler(n) PROVE CallMade = None
  BY <1>3, EndFacts DEF CallMade
<1>4. QED
  BY <1>1, <1>2, <1>3 DEF CallsAre

\* The same of the next state.
LEMMA CallWillBe == ASSUME DeferredInv' PROVE CallsAre'
<1>1. (DeferredInv => CallsAre)'
  BY CallIs, PTL
<1>2. QED
  BY <1>1

-----------------------------------------------------------------------------
(* What the code that holds the Deferred does with it.                     *)

\* The list that is between two callbacks is the last of those being called.
LEMMA InnermostFacts ==
    ASSUME DeferredInv, NEW n, D!Innermost(n)
    PROVE  /\ Len(running) \in Nat \ {0} /\ n = running[Len(running)] /\ n \in D!ListNames
           /\ D!Contains(running, n)
           /\ lists[n].firing /\ ~calling
           /\ Sound(lists[n]) /\ lists[n] \in DeferredLists /\ lists[n].live
           /\ \A m : D!Innermost(m) <=> m = n
<1>1. running # <<>> /\ ~calling /\ n = running[Len(running)]
  BY DEF D!Innermost, D!Top, D!Last
<1>2. running \in Seq(D!ListNames)
  BY DEF DeferredInv, RunningInv
<1>3. Len(running) \in Nat \ {0} /\ Len(running) \in 1..Len(running)
  BY <1>1, <1>2, LenProperties, EmptySeq
<1>4. n \in D!ListNames /\ lists[n].firing /\ D!Contains(running, n)
  BY <1>1, <1>2, <1>3, ElementOfSeq DEF DeferredInv, RunningInv, D!Contains
<1>5. Sound(lists[n]) /\ lists[n] \in DeferredLists /\ lists[n].live
  BY <1>4 DEF DeferredInv, ListsInv, Sound
<1>6. \A m : D!Innermost(m) <=> m = n
  BY <1>1 DEF D!Innermost, D!Top, D!Last
<1>7. QED
  BY <1>1, <1>3, <1>4, <1>5, <1>6

\* A use of list n, which becomes N: the loop of a list that begins to fire
\* comes first.
UseFacts(n, N) ==
    /\ lists' = [lists EXCEPT ![n] = N]
    /\ deferredUses' = deferredUses + 1 /\ deferredUses' \in 0..MaxDeferredUses
    /\ state' = state /\ told' = told
    /\ \A m : ~D!Innermost(m)
    /\ \A m \in D!ListNames : lists[m].firing => AtHandler(lists[m])
    /\ \A m : D!Innermost(m)' <=> m = n /\ N.firing /\ ~lists[n].firing
    /\ \A m : D!InHandler(m)' <=> D!InHandler(m)
    /\ ListsInv'
    /\ RunningInv'

LEMMA UseIs ==
    ASSUME DeferredInv, NEW n \in D!ListNames, NEW N, D!Use(n, N),
           Sound(N), lists[n].firing => N.firing,
           AtHandler(lists[n]) /\ lists[n].firing => AtHandler(N)
    PROVE  UseFacts(n, N)
<1>1. /\ lists' = [lists EXCEPT ![n] = N]
      /\ deferredUses' = deferredUses + 1 /\ deferredUses < MaxDeferredUses
      /\ state' = state /\ told' = told
      /\ running = <<>> \/ calling
      /\ IF N.firing /\ ~lists[n].firing
         THEN running' = Append(running, n) /\ calling' = FALSE
         ELSE running' = running /\ calling' = calling
  BY DEF D!Use, D!CallerRuns
<1>2. deferredUses' \in 0..MaxDeferredUses
  BY <1>1, PartsAssumption DEF DeferredInv, ProgressInv
<1>3. \A m : ~D!Innermost(m)
  BY <1>1 DEF D!Innermost
<1>4. /\ lists \in [D!ListNames -> DeferredLists]
      /\ \A m \in D!ListNames : Sound(lists[m]) /\ (lists[m].firing => AtHandler(lists[m]))
  BY <1>3 DEF DeferredInv, ListsInv
<1>5. /\ running \in Seq(D!ListNames) /\ calling \in BOOLEAN
      /\ \A i \in 1..Len(running) : lists[running[i]].firing
      /\ \A i, j \in 1..Len(running) : i # j => running[i] # running[j]
      /\ calling => running # <<>>
      /\ Len(running) \in Nat
  BY LenProperties DEF DeferredInv, RunningInv
<1>6. N \in DeferredLists
  BY DEF Sound
<1>7. \A m \in D!ListNames : lists'[m] = IF m = n THEN N ELSE lists[m]
  BY <1>1, <1>4
<1>8. ASSUME N.firing, ~lists[n].firing
      PROVE  /\ \A m : D!Innermost(m)' <=> m = n
             /\ \A m : D!InHandler(m)' <=> D!InHandler(m)
             /\ RunningInv'
  <2>1. running' = Append(running, n) /\ calling' = FALSE
    BY <1>1, <1>8
  <2>2. /\ running' \in Seq(D!ListNames) /\ running' # <<>> /\ Len(running') = Len(running) + 1
        /\ \A i \in 1..Len(running) : running'[i] = running[i]
        /\ running'[Len(running) + 1] = n
    BY <1>5, <2>1, AppendProperties
  <2>3. \A m : D!Innermost(m)' <=> m = n
    BY <2>1, <2>2 DEF D!Innermost, D!Top, D!Last
  <2>4. \A i \in 1..Len(running) : running[i] # n /\ running[i] \in D!ListNames
    BY <1>5, <1>8, ElementOfSeq
  <2>5. \A i \in 1..Len(running') :
            \/ i = Len(running) + 1 /\ running'[i] = n
            \/ i \in 1..Len(running) /\ running'[i] = running[i]
    <3>1. ASSUME NEW i \in 1..Len(running'), i # Len(running) + 1 PROVE i \in 1..Len(running)
      BY <1>5, <2>2, <3>1
    <3>2. QED
      BY <2>2, <3>1
  <2>6. \A m : D!Contains(running, m)' <=> D!Contains(running, m) \/ m = n
    <3>1. ASSUME NEW m, D!Contains(running, m)' PROVE D!Contains(running, m) \/ m = n
      BY <2>5, <3>1 DEF D!Contains
    <3>2. ASSUME NEW m, D!Contains(running, m) \/ m = n PROVE D!Contains(running, m)'
      <4>1. CASE m = n
        <5>1. Len(running) + 1 \in 1..Len(running')
          BY <1>5, <2>2
        <5>2. QED
          BY <2>2, <4>1, <5>1 DEF D!Contains
      <4>2. CASE D!Contains(running, m)
        <5>1. PICK i \in 1..Len(running) : running[i] = m
          BY <4>2 DEF D!Contains
        <5>2. i \in 1..Len(running')
          BY <1>5, <2>2
        <5>3. QED
          BY <2>2, <5>1, <5>2 DEF D!Contains
      <4>3. QED
        BY <3>2, <4>1, <4>2
    <3>3. QED
      BY <3>1, <3>2
  <2>7. ~D!Contains(running, n)
    BY <2>4 DEF D!Contains
  <2>8. \A m : D!InHandler(m)' <=> D!InHandler(m)
    BY <1>3, <2>3, <2>6, <2>7 DEF D!InHandler
  <2>9. \A i \in 1..Len(running') : lists'[running'[i]].firing
    BY <1>5, <1>7, <1>8, <2>4, <2>5
  <2>10. \A i, j \in 1..Len(running') : i # j => running'[i] # running'[j]
    BY <1>5, <2>4, <2>5
  <2>11. RunningInv'
    BY <2>1, <2>2, <2>9, <2>10 DEF RunningInv
  <2>12. QED
    BY <2>3, <2>8, <2>11
<1>9. ASSUME ~(N.firing /\ ~lists[n].firing)
      PROVE  /\ \A m : ~D!Innermost(m)'
             /\ \A m : D!InHandler(m)' <=> D!InHandler(m)
             /\ RunningInv'
  <2>1. running' = running /\ calling' = calling
    BY <1>1, <1>9, Zenon
  <2>2. \A m : D!Innermost(m)' <=> D!Innermost(m)
    BY <2>1 DEF D!Innermost, D!Top
  <2>3. \A m : D!InHandler(m)' <=> D!InHandler(m)
    BY <2>1, <2>2 DEF D!InHandler
  <2>4. \A i \in 1..Len(running) : lists'[running[i]].firing
    BY <1>5, <1>7, ElementOfSeq
  <2>5. RunningInv'
    BY <1>5, <2>1, <2>4 DEF RunningInv
  <2>6. QED
    BY <1>3, <2>2, <2>3, <2>5
<1>10. \A m : D!Innermost(m)' <=> m = n /\ N.firing /\ ~lists[n].firing
  BY <1>8, <1>9
<1>11. ListsInv'
  <2>1. lists' \in [D!ListNames -> DeferredLists]
    BY <1>1, <1>4, <1>6
  <2>2. ASSUME NEW m \in D!ListNames
        PROVE  Sound(lists'[m]) /\ (lists'[m].firing /\ ~D!Innermost(m)' => AtHandler(lists'[m]))
    BY <1>4, <1>7, <1>10
  <2>3. QED
    BY <2>1, <2>2 DEF ListsInv
<1>12. QED
  BY <1>1, <1>2, <1>3, <1>4, <1>8, <1>9, <1>10, <1>11 DEF UseFacts

\* In a use, what is not of the lists stays as it is.
LEMMA UseOwes ==
    ASSUME DeferredInv, NEW n \in D!ListNames, NEW N, UseFacts(n, N), NEW m \in Ends,
           m # n \/ N = lists[n]
    PROVE  lists'[m] = lists[m] /\ ~D!Innermost(m)' /\ (OwedBy(m))' = OwedBy(m)
<1>1. m \in D!ListNames /\ lists \in [D!ListNames -> DeferredLists]
  BY EndFacts DEF DeferredInv, ListsInv
<1>2. lists'[m] = lists[m]
  BY <1>1 DEF UseFacts
<1>3. ~D!Innermost(m)' /\ ~D!Innermost(m)
  BY DEF UseFacts
<1>4. (OwedBy(m))' = OwedBy(m)
  BY <1>2, <1>3 DEF OwedBy, Owes, Rest, D!Handlers
<1>5. QED
  BY <1>2, <1>3, <1>4

\* A use of the progress list, or one that changes nothing, is no step of the
\* promise.
LEMMA UseOfOther ==
    ASSUME DeferredInv, NEW n \in D!ListNames, NEW N, UseFacts(n, N),
           n = "progress" \/ N = lists[n],
           Locked(lists["progress"]) => Locked(lists'["progress"]),
           ProgressInv'
    PROVE  DeferredStep
<1>1. \A m \in Ends : lists'[m] = lists[m] /\ ~D!Innermost(m)' /\ (OwedBy(m))' = OwedBy(m)
  BY UseOwes, EndFacts
<1>2. PhaseInv'
  <2>1. \A m \in Ends : D!Other(m) \in Ends
    BY EndFacts
  <2>2. state' = state /\ \A m : ~D!Innermost(m)
    BY DEF UseFacts
  <2>3. CASE Pending
    <3>1. Pending'
      BY <1>1, <2>2, <2>3 DEF Pending
    <3>2. QED
      BY <3>1 DEF PhaseInv
  <2>4. ASSUME NEW m \in Ends, Settled(m) PROVE PhaseInv'
    <3>1. Settled(m)'
      BY <1>1, <2>1, <2>2, <2>4 DEF Settled, D!FinalState, D!Other
    <3>2. QED
      BY <3>1 DEF PhaseInv
  <2>5. ASSUME NEW m \in Ends, NEW k \in 0..2, Settling(m, k) PROVE FALSE
    BY <2>2, <2>5 DEF Settling
  <2>6. QED
    BY <2>3, <2>4, <2>5 DEF DeferredInv, PhaseInv
<1>3. DeferredInv'
  BY <1>2 DEF UseFacts, DeferredInv
<1>4. CallMade' = CallMade
  <2>1. CallsAre /\ CallsAre'
    BY <1>3, CallIs, CallWillBe
  <2>2. \A m : D!InHandler(m)' <=> D!InHandler(m)
    BY DEF UseFacts
  <2>3. CASE \E m \in Ends : D!InHandler(m)
    <3>1. PICK m \in Ends : D!InHandler(m)
      BY <2>3
    <3>2. CallMade' = <<D!FinalState(m), lists'[m].list[lists'[m].firingIndex + 1]>>
      BY <2>1, <2>2, <3>1 DEF CallsAre, D!FinalState
    <3>3. QED
      BY <1>1, <2>1, <3>1, <3>2 DEF CallsAre
  <2>4. CASE ~\E m \in Ends : D!InHandler(m)
    BY <2>1, <2>2, <2>4 DEF CallsAre
  <2>5. QED
    BY <2>3, <2>4
<1>5. state' = state
  BY DEF UseFacts
<1>6. OwedStays
  BY <1>1 DEF OwedStays
<1>7. QED
  BY <1>3, <1>4, <1>5, <1>6, SameOwed DEF DeferredStep

\* The values in the progress list are there after the next use, too.
LEMMA ProgressKept ==
    ASSUME ProgressInv, deferredUses' = deferredUses + 1, deferredUses' \in 0..MaxDeferredUses,
           late' \in {late, late \cup {deferredUses + 1}}, told' = told,
           lists'["progress"].list \in Seq(Functions),
           lists'["progress"].memory = lists["progress"].memory,
           lists'["progress"].data = lists["progress"].data
               \/ lists'["progress"].data = lists["progress"].memory,
           lists'["progress"].stack = lists["progress"].stack
    PROVE  ProgressInv'
<1>1. deferredUses \in Nat /\ late \subseteq 1..deferredUses
  BY DEF ProgressInv
<1>2. (1..deferredUses) \ late \subseteq (1..deferredUses') \ late'
  BY <1>1
<1>3. late' \subseteq 1..deferredUses'
  BY <1>1
<1>4. lists["progress"].stack \in Seq((1..deferredUses') \ late')
  BY <1>2 DEF ProgressInv
<1>5. told' \subseteq (1..deferredUses') \ late'
  BY <1>2 DEF ProgressInv
<1>6. QED
  BY <1>2, <1>3, <1>4, <1>5 DEF ProgressInv

\* progress: a handler for what is notified.
LEMMA OnProgressSteps ==
    ASSUME DeferredInv, NEW c \in Functions, D!On("progress", c)
    PROVE  DeferredStep
<1>1. PICK M, N : M = lists["progress"] /\ N = D!Add(M, <<c>>)
  OBVIOUS
<1>2. "progress" \in D!ListNames /\ D!Use("progress", N) /\ late' = late
  BY <1>1, EndFacts DEF D!On
<1>3. Sound(M)
  BY <1>1, <1>2 DEF DeferredInv, ListsInv
<1>4. /\ Sound(N)
      /\ N.live = M.live /\ N.stacking = M.stacking /\ N.memory = M.memory
      /\ N.stack = M.stack /\ N.fired = M.fired
      /\ ~M.live => N = M
      /\ M.live => N.list = Append(M.list, c)
      /\ N.data = M.data \/ N.data = M.memory
      /\ M.firing => N.firing /\ N.firingIndex = M.firingIndex
  BY <1>1, <1>3, AddShape
<1>5. M.list \in Seq(Functions) /\ M.live \in BOOLEAN /\ M.firingIndex \in Nat
  BY <1>1, <1>3, DeferredFields DEF DeferredInv, ProgressInv, Sound
<1>6. Append(M.list, c) \in Seq(Functions) /\ Len(Append(M.list, c)) = Len(M.list) + 1
      /\ \A i \in 1..Len(M.list) : Append(M.list, c)[i] = M.list[i]
  BY <1>5, AppendProperties
<1>7. N.list \in Seq(Functions)
  BY <1>4, <1>5, <1>6
<1>8. ASSUME AtHandler(M), M.firing PROVE AtHandler(N)
  <2>1. M.live /\ M.firingIndex + 1 \in 1..Len(M.list) /\ Len(M.list) \in Nat
    BY <1>3, <1>5, <1>8, LenProperties DEF Sound, AtHandler
  <2>2. N.list = Append(M.list, c) /\ N.firingIndex = M.firingIndex
    BY <1>4, <1>8, <2>1
  <2>3. Append(M.list, c)[M.firingIndex + 1] = M.list[M.firingIndex + 1]
    BY <1>6, <2>1
  <2>4. M.firingIndex < Len(M.list) + 1
    BY <1>5, <1>8, <2>1 DEF AtHandler
  <2>5. QED
    BY <1>6, <1>8, <2>2, <2>3, <2>4 DEF AtHandler
<1>9. UseFacts("progress", N)
  BY <1>1, <1>2, <1>4, <1>8, UseIs
<1>10. lists'["progress"] = N
  BY <1>2, <1>9 DEF UseFacts, DeferredInv, ListsInv
<1>11. ProgressInv'
  BY <1>1, <1>2, <1>4, <1>7, <1>9, <1>10, ProgressKept DEF UseFacts, DeferredInv
<1>12. Locked(M) => Locked(N)
  BY <1>4 DEF Locked
<1>13. QED
  BY <1>1, <1>2, <1>9, <1>10, <1>11, <1>12, UseOfOther

\* notify: the value is called back, waits, or is refused as the Deferred has
\* settled.
LEMMA NotifySteps ==
    ASSUME DeferredInv, D!Notify
    PROVE  DeferredStep
<1>1. PICK M, v, N : M = lists["progress"] /\ v = deferredUses + 1 /\ N = D!FireWith(M, v)
  OBVIOUS
<1>2. /\ "progress" \in D!ListNames /\ D!Use("progress", N)
      /\ late' = IF state = "pending" THEN late ELSE late \cup {v}
      /\ deferredUses < MaxDeferredUses
  BY <1>1, EndFacts DEF D!Notify, D!Use
<1>3. Sound(M)
  BY <1>1, <1>2 DEF DeferredInv, ListsInv
<1>4. deferredUses \in Nat /\ v \in Values
  BY <1>1, <1>2, PartsAssumption DEF DeferredInv, ProgressInv, Values
<1>5. /\ Sound(N)
      /\ N.list = M.list /\ N.live = M.live /\ N.stacking = M.stacking
      /\ M.firing => N.firing /\ N.firingIndex = M.firingIndex
      /\ N = M
         \/ /\ M.stacking /\ M.firing /\ N.stack = Append(M.stack, v)
            /\ N.memory = M.memory /\ N.data = M.data
         \/ /\ ~M.firing /\ N.firing /\ N.stack = M.stack /\ N.firingIndex = 0
            /\ N.memory = v /\ N.data = v
      /\ M.fired /\ ~M.stacking => N = M
      /\ ~M.live => N = M
  BY <1>1, <1>3, <1>4, FireWithShape
<1>6. AtHandler(M) /\ M.firing => AtHandler(N)
  BY <1>5 DEF AtHandler
<1>7. UseFacts("progress", N)
  BY <1>1, <1>2, <1>5, <1>6, UseIs
<1>8. lists'["progress"] = N
  BY <1>2, <1>7 DEF UseFacts, DeferredInv, ListsInv
<1>9. state # "pending" => Locked(M)
  <2>1. \A m : ~D!Innermost(m)
    BY <1>7 DEF UseFacts
  <2>2. QED
    BY <1>1, <2>1 DEF DeferredInv, PhaseInv, Pending, Settling, Settled
<1>10. state # "pending" => N = M
  BY <1>5, <1>9 DEF Locked
<1>11. /\ deferredUses' = v /\ deferredUses' \in 0..MaxDeferredUses
       /\ told' = told /\ late' \in {late, late \cup {v}}
  BY <1>1, <1>2, <1>7 DEF UseFacts
<1>12. CASE N = M
  <2>1. ProgressInv'
    BY <1>1, <1>8, <1>11, <1>12, ProgressKept DEF DeferredInv, ProgressInv
  <2>2. Locked(M) => Locked(N)
    BY <1>12
  <2>3. QED
    BY <1>1, <1>2, <1>7, <1>8, <2>1, <2>2, UseOfOther
<1>13. CASE N # M
  <2>1. late' = late /\ late \subseteq 1..deferredUses
    BY <1>2, <1>10, <1>13 DEF DeferredInv, ProgressInv
  <2>2. v \in (1..deferredUses') \ late' /\ (1..deferredUses) \ late \subseteq (1..deferredUses') \ late'
        /\ late' \subseteq 1..deferredUses'
    BY <1>1, <1>4, <1>11, <2>1
  <2>3. M.stack \in Seq((1..deferredUses') \ late')
    BY <1>1, <2>2 DEF DeferredInv, ProgressInv
  <2>4. Append(M.stack, v) \in Seq((1..deferredUses') \ late')
    BY <2>2, <2>3, AppendProperties
  <2>5. /\ N.stack \in Seq((1..deferredUses') \ late')
        /\ N.memory \in ((1..deferredUses') \ late') \cup {None}
        /\ N.data \in ((1..deferredUses') \ late') \cup {None}
        /\ N.list \in Seq(Functions)
    <3>1. /\ M.memory \in ((1..deferredUses) \ late) \cup {None}
          /\ M.data \in ((1..deferredUses) \ late) \cup {None}
          /\ M.list \in Seq(Functions)
      BY <1>1 DEF DeferredInv, ProgressInv
    <3>2. QED
      BY <1>5, <1>13, <2>2, <2>3, <2>4, <3>1
  <2>6. told' \subseteq (1..deferredUses') \ late'
    BY <1>11, <2>2 DEF DeferredInv, ProgressInv
  <2>7. ProgressInv'
    BY <1>8, <1>11, <2>2, <2>5, <2>6 DEF ProgressInv
  <2>8. Locked(M) => Locked(N)
    BY <1>5, <1>13 DEF Locked
  <2>9. QED
    BY <1>1, <1>2, <1>7, <1>8, <2>7, <2>8, UseOfOther
<1>14. QED
  BY <1>12, <1>13

\* A use of another list leaves the progress list's values.
LEMMA ProgressUntouched ==
    ASSUME DeferredInv, NEW n \in Ends, NEW N, UseFacts(n, N), late' = late
    PROVE  ProgressInv' /\ lists'["progress"] = lists["progress"] /\ lists'[n] = N
<1>1. n # "progress" /\ n \in D!ListNames /\ "progress" \in D!ListNames
  BY EndFacts
<1>2. lists'["progress"] = lists["progress"] /\ lists'[n] = N
  BY <1>1 DEF UseFacts, DeferredInv, ListsInv
<1>3. ProgressInv
  BY DEF DeferredInv
<1>4. ProgressInv'
  BY <1>2, <1>3, ProgressKept DEF UseFacts, ProgressInv
<1>5. QED
  BY <1>2, <1>4

\* A use of an outcome's list that does not make a Deferred settle.
LEMMA SameCalls ==
    ASSUME DeferredInv, DeferredInv', NEW n, NEW N, UseFacts(n, N),
           \A m \in Ends : D!InHandler(m) =>
               lists'[m].list[lists'[m].firingIndex + 1] = lists[m].list[lists[m].firingIndex + 1]
    PROVE  CallMade' = CallMade
<1>1. CallsAre /\ CallsAre'
  BY CallIs, CallWillBe
<1>2. \A m : D!InHandler(m)' <=> D!InHandler(m)
  BY DEF UseFacts
<1>3. CASE \E m \in Ends : D!InHandler(m)
  <2>1. PICK m \in Ends : D!InHandler(m)
    BY <1>3
  <2>2. CallMade' = <<D!FinalState(m), lists'[m].list[lists'[m].firingIndex + 1]>>
    BY <1>1, <1>2, <2>1 DEF CallsAre, D!FinalState
  <2>3. CallMade = <<D!FinalState(m), lists[m].list[lists[m].firingIndex + 1]>>
    BY <1>1, <2>1 DEF CallsAre
  <2>4. QED
    BY <2>1, <2>2, <2>3
<1>4. CASE ~\E m \in Ends : D!InHandler(m)
  BY <1>1, <1>2, <1>4 DEF CallsAre
<1>5. QED
  BY <1>3, <1>4

\* done and fail: a handler for an outcome.
LEMMA OnSteps ==
    ASSUME DeferredInv, NEW n \in Ends, NEW c \in Functions, D!On(n, c)
    PROVE  DeferredStep
<1>1. PICK M, N : M = lists[n] /\ N = D!Add(M, <<c>>)
  OBVIOUS
<1>2. n \in D!ListNames /\ D!Use(n, N) /\ late' = late
  BY <1>1, EndFacts DEF D!On
<1>3. Sound(M) /\ M \in DeferredLists
  BY <1>1, <1>2 DEF DeferredInv, ListsInv
<1>4. /\ Sound(N)
      /\ N.live = M.live /\ N.stacking = M.stacking /\ N.memory = M.memory
      /\ N.stack = M.stack /\ N.fired = M.fired
      /\ ~M.live => N = M
      /\ M.live => N.list = Append(M.list, c)
      /\ M.firing => N.firing /\ N.firingIndex = M.firingIndex
  BY <1>1, <1>3, AddShape
<1>5. /\ Len(M.list) \in Nat /\ M.firingIndex \in Nat
      /\ Len(Append(M.list, c)) = Len(M.list) + 1
      /\ \A i \in 1..Len(M.list) : Append(M.list, c)[i] = M.list[i]
  <2>1. M.list \in Seq(Functions \cup Own) /\ c \in Functions \cup Own
    BY <1>3, DeferredFields
  <2>2. QED
    BY <1>3, <2>1, DeferredFields, AppendProperties
<1>6. ASSUME AtHandler(M), M.firing
      PROVE  AtHandler(N) /\ N.list[N.firingIndex + 1] = M.list[M.firingIndex + 1]
  <2>1. M.live /\ M.firingIndex + 1 \in 1..Len(M.list) /\ M.firingIndex < Len(M.list) + 1
    BY <1>3, <1>5, <1>6 DEF Sound, AtHandler
  <2>2. N.list = Append(M.list, c) /\ N.firingIndex = M.firingIndex
    BY <1>4, <1>6, <2>1
  <2>3. Append(M.list, c)[M.firingIndex + 1] = M.list[M.firingIndex + 1]
    BY <1>5, <2>1
  <2>4. QED
    BY <1>5, <1>6, <2>1, <2>2, <2>3 DEF AtHandler
<1>7. UseFacts(n, N)
  BY <1>1, <1>2, <1>4, <1>6, UseIs
<1>8. ProgressInv' /\ lists'["progress"] = lists["progress"] /\ lists'[n] = N
  BY <1>2, <1>7, ProgressUntouched
<1>9. PICK o \in Ends : o = D!Other(n) /\ o # n /\ D!Other(o) = n
  BY EndFacts
<1>10. lists'[o] = lists[o] /\ ~D!Innermost(o)' /\ (OwedBy(o))' = OwedBy(o)
  BY <1>2, <1>7, <1>9, UseOwes
<1>11. /\ state' = state /\ ~D!Innermost(n)
       /\ D!Innermost(n)' <=> N.firing /\ ~M.firing
       /\ M.firing => AtHandler(M)
       /\ D!Innermost(n)' \in BOOLEAN
  BY <1>1, <1>2, <1>7 DEF UseFacts, D!Innermost
<1>12. \A m \in Ends : m = n \/ m = o
  BY <1>9, EndFacts
<1>13. ASSUME NEW m \in Ends, D!InHandler(m)
       PROVE  lists'[m].list[lists'[m].firingIndex + 1] = lists[m].list[lists[m].firingIndex + 1]
  <2>1. CASE m = n
    <3>1. M.firing /\ AtHandler(M)
      BY <1>1, <1>13, <2>1, CallIs DEF CallsAre
    <3>2. QED
      BY <1>1, <1>6, <1>8, <2>1, <3>1
  <2>2. CASE m = o
    BY <1>10, <2>2
  <2>3. QED
    BY <1>12, <2>1, <2>2
<1>14. OwedBy(n) = Owes(M, FALSE) /\ (OwedBy(n))' = Owes(N, D!Innermost(n)')
  <2>1. D!Innermost(n) = FALSE
    BY <1>11 DEF D!Innermost
  <2>2. QED
    BY <1>1, <1>8, <2>1 DEF OwedBy, Owes, Rest, D!Handlers
<1>15. CASE Pending
  <2>1. state = "pending" /\ Fresh(M) /\ Fresh(lists[o])
    BY <1>1, <1>15 DEF Pending
  <2>2. Fresh(N) /\ (OwedBy(n))' = Append(OwedBy(n), c)
    <3>1. PICK j \in BOOLEAN : j = D!Innermost(n)'
      BY <1>11
    <3>2. Fresh(N) /\ Owes(N, j) = Append(Owes(M, FALSE), c)
      BY <1>1, <1>3, <2>1, FreshAdd
    <3>3. QED
      BY <1>14, <3>1, <3>2
  <2>3. Pending'
    BY <1>8, <1>10, <1>11, <1>12, <2>1, <2>2 DEF Pending
  <2>4. DeferredInv'
    BY <1>7, <1>8, <2>3 DEF DeferredInv, UseFacts, PhaseInv
  <2>5. CallMade' = CallMade
    BY <1>7, <1>13, <2>4, SameCalls
  <2>6. D!P!Next
    BY <1>9, <1>10, <1>11, <2>1, <2>2, <2>5, PromiseOn
  <2>7. QED
    BY <2>4, <2>6 DEF DeferredStep
<1>16. CASE Settled(n)
  <2>1. state = D!FinalState(n) /\ Open(M) /\ ~lists[o].live /\ Locked(lists["progress"])
    BY <1>1, <1>9, <1>16 DEF Settled
  <2>2. PICK inner \in BOOLEAN : inner <=> ~M.firing
    OBVIOUS
  <2>3. Open(N) /\ N.firing /\ Owes(N, inner) = Append(Owes(M, FALSE), c)
    BY <1>1, <1>3, <1>11, <2>1, <2>2, OpenAdd
  <2>4. D!Innermost(n)' = inner
    BY <1>11, <2>2, <2>3
  <2>5. Settled(n)'
    BY <1>8, <1>9, <1>10, <1>11, <2>1, <2>3 DEF Settled, D!FinalState, D!Other
  <2>6. DeferredInv'
    BY <1>7, <1>8, <2>5 DEF DeferredInv, UseFacts, PhaseInv
  <2>7. CallMade' = CallMade
    BY <1>7, <1>13, <2>6, SameCalls
  <2>8. (OwedBy(n))' = Append(OwedBy(n), c)
    BY <1>14, <2>3, <2>4
  <2>9. D!P!Next
    BY <1>9, <1>10, <1>11, <2>1, <2>7, <2>8, PromiseOn
  <2>10. QED
    BY <2>6, <2>9 DEF DeferredStep
<1>17. CASE Settled(o)
  <2>1. state = D!FinalState(o) /\ Open(lists[o]) /\ ~M.live /\ Locked(lists["progress"])
    BY <1>1, <1>9, <1>17 DEF Settled
  <2>2. N = M /\ ~N.live
    BY <1>4, <2>1
  <2>3. Settled(o)'
    BY <1>8, <1>9, <1>10, <1>11, <2>1, <2>2 DEF Settled, D!FinalState, D!Other
  <2>4. DeferredInv'
    BY <1>7, <1>8, <2>3 DEF DeferredInv, UseFacts, PhaseInv
  <2>5. CallMade' = CallMade
    BY <1>7, <1>13, <2>4, SameCalls
  <2>6. state \notin {"pending", D!FinalState(n)}
    BY <1>9, <2>1, EndFacts
  <2>7. D!P!Next
    BY <1>9, <1>10, <1>11, <2>1, <2>5, <2>6, PromiseOn
  <2>8. QED
    BY <2>4, <2>7 DEF DeferredStep
<1>18. ASSUME NEW m \in Ends, NEW k \in 0..2, Settling(m, k) PROVE FALSE
  BY <1>7, <1>18 DEF Settling, UseFacts
<1>19. QED
  BY <1>12, <1>15, <1>16, <1>17, <1>18 DEF DeferredInv, PhaseInv

\* resolve and reject: the list of the outcome begins to fire if it never did.
LEMMA SettleSteps ==
    ASSUME DeferredInv, NEW n \in Ends, D!Settle(n)
    PROVE  DeferredStep
<1>1. PICK M, v, N : M = lists[n] /\ v = deferredUses + 1 /\ N = D!FireWith(M, v)
  OBVIOUS
<1>2. n \in D!ListNames /\ D!Use(n, N) /\ late' = late /\ deferredUses < MaxDeferredUses
  BY <1>1, EndFacts DEF D!Settle, D!Use
<1>3. Sound(M) /\ M \in DeferredLists
  BY <1>1, <1>2 DEF DeferredInv, ListsInv
<1>4. v \in Values
  BY <1>1, <1>2, PartsAssumption DEF DeferredInv, ProgressInv, Values
<1>5. /\ Sound(N)
      /\ N.list = M.list /\ N.live = M.live
      /\ M.firing => N.firing /\ N.firingIndex = M.firingIndex
      /\ M.fired /\ ~M.stacking => N = M
      /\ ~M.live => N = M
  BY <1>1, <1>3, <1>4, FireWithShape
<1>6. AtHandler(M) /\ M.firing => AtHandler(N)
  BY <1>5 DEF AtHandler
<1>7. UseFacts(n, N)
  BY <1>1, <1>2, <1>5, <1>6, UseIs
<1>8. ProgressInv' /\ lists'["progress"] = lists["progress"] /\ lists'[n] = N
  BY <1>2, <1>7, ProgressUntouched
<1>9. PICK o \in Ends : o = D!Other(n) /\ o # n /\ D!Other(o) = n
  BY EndFacts
<1>10. \A m \in Ends : m = n \/ m = o
  BY <1>9, EndFacts
<1>11. CASE Pending
  <2>1. state = "pending" /\ state' = state /\ Fresh(M) /\ Fresh(lists[o])
    BY <1>1, <1>7, <1>11 DEF Pending, UseFacts
  <2>2. AtOwn(N, 0) /\ Owes(N, TRUE) = Owes(M, FALSE) /\ N.firing /\ ~M.firing
    BY <1>1, <1>3, <1>4, <2>1, FreshFire DEF AtOwn, Fresh
  <2>3. D!Innermost(n)' /\ ~D!Innermost(n)
    BY <1>1, <1>7, <2>2 DEF UseFacts
  <2>4. lists'[o] = lists[o] /\ (OwedBy(o))' = OwedBy(o)
    BY <1>2, <1>7, <1>9, UseOwes
  <2>5. Settling(n, 0)'
    BY <1>8, <1>9, <2>1, <2>2, <2>3, <2>4 DEF Settling, D!Other
  <2>6. DeferredInv'
    <3>1. 0 \in 0..2
      OBVIOUS
    <3>2. PhaseInv'
      BY <2>5, <3>1 DEF PhaseInv
    <3>3. QED
      BY <1>7, <1>8, <3>2 DEF DeferredInv, UseFacts
  <2>7. \A m \in Ends : ~D!InHandler(m)
    <3>1. \A m \in Ends : ~lists[m].firing
      BY <1>11 DEF Pending, Fresh
    <3>2. QED
      BY <3>1, CallIs DEF CallsAre
  <2>8. CallMade' = CallMade
    BY <1>7, <2>6, <2>7, SameCalls
  <2>9. (OwedBy(n))' = OwedBy(n)
    <3>1. D!Innermost(n) = FALSE /\ D!Innermost(n)' = TRUE
      BY <2>3 DEF D!Innermost
    <3>2. OwedBy(n) = Owes(M, FALSE) /\ (OwedBy(n))' = Owes(N, TRUE)
      BY <1>1, <1>8, <3>1 DEF OwedBy, Owes, Rest, D!Handlers
    <3>3. QED
      BY <2>2, <3>2
  <2>10. OwedStays
    BY <1>10, <2>4, <2>9 DEF OwedStays
  <2>11. QED
    BY <2>1, <2>6, <2>8, <2>10, SameOwed DEF DeferredStep
<1>12. ASSUME NEW m \in Ends, Settled(m) PROVE DeferredStep
  <2>1. N = M
    <3>1. CASE m = n
      BY <1>1, <1>5, <1>12, <3>1 DEF Settled, Open
    <3>2. CASE m = o
      BY <1>1, <1>5, <1>9, <1>12, <3>2 DEF Settled
    <3>3. QED
      BY <1>10, <3>1, <3>2
  <2>2. QED
    BY <1>1, <1>2, <1>7, <1>8, <2>1, UseOfOther
<1>13. ASSUME NEW m \in Ends, NEW k \in 0..2, Settling(m, k) PROVE FALSE
  BY <1>7, <1>13 DEF Settling, UseFacts
<1>14. QED
  BY <1>11, <1>12, <1>13 DEF DeferredInv, PhaseInv

-----------------------------------------------------------------------------
(* The loops.                                                              *)

\* No list begins or ends to be called.
LEMMA StillRunning ==
    ASSUME DeferredInv, running' = running, calling' = calling,
           \A m \in D!ListNames : lists[m].firing => lists'[m].firing
    PROVE  /\ RunningInv'
           /\ \A m : D!Innermost(m)' <=> D!Innermost(m)
           /\ \A m : D!InHandler(m)' <=> D!InHandler(m)
<1>1. \A m : D!Innermost(m)' <=> D!Innermost(m)
  BY DEF D!Innermost, D!Top
<1>2. \A m : D!InHandler(m)' <=> D!InHandler(m)
  BY <1>1 DEF D!InHandler
<1>3. running \in Seq(D!ListNames) /\ \A i \in 1..Len(running) : lists[running[i]].firing
  BY DEF DeferredInv, RunningInv
<1>4. \A i \in 1..Len(running) : lists'[running[i]].firing
  BY <1>3, ElementOfSeq
<1>5. RunningInv'
  BY <1>4 DEF DeferredInv, RunningInv
<1>6. QED
  BY <1>1, <1>2, <1>5

\* No handler of an outcome runs while the own callbacks do.
LEMMA SettlingCalls ==
    ASSUME DeferredInv, NEW n \in Ends, NEW k \in 0..2, Settling(n, k)
    PROVE  /\ \A m \in Ends : ~D!InHandler(m)
           /\ CallMade = None
<1>1. ~D!InHandler(n)
  BY DEF Settling, D!InHandler
<1>2. PICK o \in Ends : o = D!Other(n) /\ \A m \in Ends : m = n \/ m = o
  BY EndFacts
<1>3. ~lists[o].firing
  <2>1. o \in D!ListNames
    BY EndFacts
  <2>2. Fresh(lists[o]) \/ ~lists[o].live
    BY <1>2 DEF Settling
  <2>3. QED
    BY <2>1, <2>2 DEF Fresh, DeferredInv, ListsInv, Sound
<1>4. ~D!InHandler(o)
  BY <1>3, CallIs DEF CallsAre
<1>5. QED
  BY <1>1, <1>2, <1>4, CallIs DEF CallsAre

\* The progress list keeps its values when it is locked or left alone.
LEMMA ProgressStays ==
    ASSUME ProgressInv, UNCHANGED <<deferredUses, late, told>>,
           lists'["progress"].list \in Seq(Functions),
           lists'["progress"].memory = lists["progress"].memory,
           lists'["progress"].data = lists["progress"].data,
           lists'["progress"].stack \in {lists["progress"].stack, <<>>}
    PROVE  ProgressInv'
<1>1. <<>> \in Seq((1..deferredUses) \ late)
  BY EmptySeq
<1>2. lists'["progress"].stack \in Seq((1..deferredUses) \ late)
  BY <1>1 DEF ProgressInv
<1>3. QED
  BY <1>2 DEF ProgressInv

\* An own callback: it sets the state, disables the other list or locks
\* progress.
LEMMA OwnSteps ==
    ASSUME DeferredInv, NEW n \in D!ListNames, D!CallOwn(n)
    PROVE  DeferredStep
<1>1. PICK M, N : M = lists[n] /\ N = D!Advance(M)
  OBVIOUS
<1>2. /\ D!Innermost(n) /\ D!MoreToCall(M) /\ D!Callee(M) \notin Functions
      /\ D!RunOwn(n, D!Callee(M))
      /\ UNCHANGED <<running, calling, deferredUses, late, told>>
  BY <1>1 DEF D!CallOwn
<1>3. /\ M.firing /\ M.live /\ Sound(M) /\ M \in DeferredLists
      /\ \A m : D!Innermost(m) <=> m = n
  BY <1>1, <1>2, InnermostFacts
<1>4. /\ M.firingIndex < Len(M.list) /\ M.firingIndex \in Nat /\ Len(M.list) \in Nat
      /\ D!Callee(M) = M.list[M.firingIndex + 1]
  BY <1>2, <1>3, DeferredFields DEF D!MoreToCall, D!Callee, Sound
<1>5. n \in Ends
  <2>1. ASSUME n = "progress" PROVE FALSE
    <3>1. M.list \in Seq(Functions) /\ M.firingIndex + 1 \in 1..Len(M.list)
      BY <1>1, <1>4, <2>1 DEF DeferredInv, ProgressInv
    <3>2. QED
      BY <1>2, <1>4, <3>1, ElementOfSeq
  <2>2. QED
    BY <2>1, EndFacts
<1>6. PICK o \in Ends : /\ o = D!Other(n) /\ o # n /\ D!Other(o) = n
                        /\ \A m \in Ends : m = n \/ m = o
  BY <1>5, EndFacts
<1>7. PICK k \in 0..2 : Settling(n, k)
  <2>1. ~Pending
    BY <1>1, <1>3, <1>5 DEF Pending, Fresh
  <2>2. ~Settled(n)
    <3>1. ASSUME Open(M) PROVE FALSE
      <4>1. M.firingIndex + 1 \in (M.firingIndex + 1)..Len(M.list)
        BY <1>4
      <4>2. QED
        BY <1>2, <1>3, <1>4, <3>1, <4>1 DEF Open
    <3>2. QED
      BY <1>1, <3>1 DEF Settled
  <2>3. ~Settled(o)
    BY <1>1, <1>3, <1>6 DEF Settled
  <2>4. ~\E j \in 0..2 : Settling(o, j)
    BY <1>3, <1>6 DEF Settling
  <2>5. QED
    BY <1>5, <1>6, <2>1, <2>2, <2>3, <2>4 DEF DeferredInv, PhaseInv
<1>8. /\ AtOwn(M, k) /\ M.firingIndex = k /\ OwnFirst(M.list)
      /\ state = IF k = 0 THEN "pending" ELSE D!FinalState(n)
      /\ k # 2 => Fresh(lists[o])
      /\ k = 2 => ~lists[o].live
  BY <1>1, <1>6, <1>7 DEF Settling, AtOwn
<1>9. /\ Sound(N) /\ N \in DeferredLists /\ N.firing
      /\ k < 2 => AtOwn(N, k + 1)
      /\ k = 2 => Open(N)
      /\ Owes(N, TRUE) = Owes(M, TRUE)
  <2>1. N.firing
    BY <1>1, <1>3, AdvanceShape
  <2>2. QED
    BY <1>1, <1>3, <1>8, <2>1, OwnAdvance DEF Sound
<1>10. CallMade = None /\ \A m \in Ends : ~D!InHandler(m)
  BY <1>5, <1>7, SettlingCalls
<1>11. lists \in [D!ListNames -> DeferredLists] /\ "progress" \in D!ListNames /\ o \in D!ListNames
       /\ n # "progress" /\ o # "progress" /\ D!ListNames = {n, o, "progress"}
  BY <1>5, <1>6, EndFacts DEF DeferredInv, ListsInv
<1>12. \A m \in D!ListNames : Sound(lists[m]) /\ (lists[m].firing /\ m # n => AtHandler(lists[m]))
  BY <1>3 DEF DeferredInv, ListsInv
<1>13. ASSUME lists' \in [D!ListNames -> DeferredLists], lists'[n] = N,
              lists'[o] = lists[o] \/ (Sound(lists'[o]) /\ ~lists'[o].firing /\ ~lists[o].firing),
              lists'["progress"] = lists["progress"]
                  \/ lists'["progress"] = D!Lock(lists["progress"]),
              PhaseInv'
       PROVE  /\ DeferredInv' /\ CallMade' = CallMade
              /\ (OwedBy(n))' = OwedBy(n) /\ D!Innermost(n)'
  <2>1. PICK Q, T : Q = lists["progress"] /\ T = lists'["progress"]
    OBVIOUS
  <2>2. /\ Sound(T) /\ T.firing = Q.firing
        /\ Q.firing => T.list = Q.list /\ T.firingIndex = Q.firingIndex
        /\ T.memory = Q.memory /\ T.data = Q.data
        /\ T.stack = Q.stack \/ T.stack = <<>>
        /\ T.list = Q.list \/ T.list = <<>>
    <3>1. Sound(Q)
      BY <1>11, <1>12, <2>1
    <3>2. CASE T = Q
      BY <3>1, <3>2
    <3>3. CASE T = D!Lock(Q)
      BY <3>1, <3>3, LockKeepsSound
    <3>4. QED
      BY <1>13, <2>1, <3>2, <3>3
  <2>3. \A m \in D!ListNames : lists[m].firing => lists'[m].firing
    BY <1>3, <1>9, <1>11, <1>13, <2>1, <2>2
  <2>4. /\ RunningInv'
        /\ \A m : D!Innermost(m)' <=> D!Innermost(m)
        /\ \A m : D!InHandler(m)' <=> D!InHandler(m)
    BY <1>2, <2>3, StillRunning
  <2>5. ListsInv'
    <3>1. ASSUME NEW m \in D!ListNames
          PROVE  /\ Sound(lists'[m])
                 /\ lists'[m].firing /\ m # n => AtHandler(lists'[m])
      <4>1. CASE m = n
        BY <1>9, <1>13, <4>1
      <4>2. CASE m = o
        BY <1>12, <1>13, <4>2
      <4>3. CASE m = "progress"
        <5>1. Q.firing => AtHandler(Q)
          BY <1>11, <1>12, <2>1
        <5>2. T.firing => AtHandler(T)
          BY <2>2, <5>1 DEF AtHandler
        <5>3. QED
          BY <2>1, <2>2, <4>3, <5>2
      <4>4. QED
        BY <1>11, <4>1, <4>2, <4>3
    <3>2. QED
      BY <1>3, <1>13, <2>4, <3>1 DEF ListsInv
  <2>6. ProgressInv'
    <3>1. Q.list \in Seq(Functions) /\ <<>> \in Seq(Functions)
      BY <2>1, EmptySeq DEF DeferredInv, ProgressInv
    <3>2. T.list \in Seq(Functions) /\ T.stack \in {Q.stack, <<>>}
      BY <2>2, <3>1
    <3>3. QED
      BY <1>2, <2>1, <2>2, <3>2, ProgressStays DEF DeferredInv
  <2>7. DeferredInv'
    BY <1>13, <2>4, <2>5, <2>6 DEF DeferredInv
  <2>8. CallMade' = None
    BY <1>10, <2>4, <2>7, CallWillBe DEF CallsAre
  <2>9. D!Innermost(n) = TRUE /\ D!Innermost(n)' = TRUE
    BY <1>2, <2>4 DEF D!Innermost
  <2>10. OwedBy(n) = Owes(M, TRUE) /\ (OwedBy(n))' = Owes(N, TRUE)
    BY <1>1, <1>13, <2>9 DEF OwedBy, Owes, Rest, D!Handlers
  <2>11. QED
    BY <1>9, <1>10, <2>7, <2>8, <2>9, <2>10
<1>14. D!Innermost(n)'
  BY <1>2 DEF D!Innermost, D!Top
<1>15. CASE k = 0
  <2>1. D!Callee(M) = "setState"
    BY <1>4, <1>8, <1>15 DEF OwnFirst
  <2>2. state' = D!FinalState(n) /\ lists' = [lists EXCEPT ![n] = N]
    BY <1>1, <1>2, <2>1 DEF D!RunOwn
  <2>3. /\ lists' \in [D!ListNames -> DeferredLists]
        /\ lists'[n] = N /\ lists'[o] = lists[o] /\ lists'["progress"] = lists["progress"]
    BY <1>6, <1>9, <1>11, <2>2
  <2>4. Settling(n, 1)'
    <3>1. AtOwn(N, 1)
      BY <1>9, <1>15
    <3>2. Fresh(lists[o])
      BY <1>8, <1>15
    <3>3. QED
      BY <1>6, <1>14, <2>2, <2>3, <3>1, <3>2 DEF Settling, D!FinalState, D!Other
  <2>5. PhaseInv'
    <3>1. 1 \in 0..2
      OBVIOUS
    <3>2. QED
      BY <1>5, <2>4, <3>1 DEF PhaseInv
  <2>6. DeferredInv' /\ CallMade' = CallMade /\ (OwedBy(n))' = OwedBy(n)
    BY <1>13, <2>3, <2>5
  <2>7. D!P!Next
    BY <1>5, <1>8, <1>15, <2>2, <2>6, PromiseSettle
  <2>8. QED
    BY <2>6, <2>7 DEF DeferredStep
<1>16. CASE k \in {1, 2}
  <2>1. /\ state = D!FinalState(n)
        /\ \A m \in Ends : state \in {"pending", D!FinalState(m)} => m = n
    BY <1>5, <1>6, <1>8, <1>16, EndFacts
  <2>2. ASSUME DeferredInv', CallMade' = CallMade, (OwedBy(n))' = OwedBy(n), state' = state
        PROVE  DeferredStep
    <3>1. OwedStays
      BY <2>1, <2>2 DEF OwedStays
    <3>2. QED
      BY <2>2, <3>1, SameOwed DEF DeferredStep
  <2>3. CASE k = 1
    <3>1. D!Callee(M) = "disableOther"
      BY <1>4, <1>8, <2>3 DEF OwnFirst
    <3>2. PICK T : T = D!Disable(lists[o])
      OBVIOUS
    <3>3. state' = state /\ lists' = [lists EXCEPT ![n] = N, ![o] = T]
      BY <1>1, <1>2, <1>6, <1>11, <3>1, <3>2 DEF D!RunOwn
    <3>4. Fresh(lists[o]) /\ ~lists[o].firing
      BY <1>8, <2>3 DEF Fresh
    <3>5. /\ T \in DeferredLists /\ ~T.live /\ ~T.firing /\ T.list = <<>> /\ T.stack = <<>>
          /\ ~T.stacking /\ T.memory = None /\ T.options = lists[o].options
          /\ T.firingStart = lists[o].firingStart
      BY <1>11, <3>2, <3>4, DeferredDisable
    <3>6. Sound(T)
      BY <1>11, <1>12, <3>5 DEF Sound
    <3>7. /\ lists' \in [D!ListNames -> DeferredLists]
          /\ lists'[n] = N /\ lists'[o] = T /\ lists'["progress"] = lists["progress"]
      BY <1>6, <1>9, <1>11, <3>3, <3>5
    <3>8. Settling(n, 2)'
      <4>1. AtOwn(N, 2)
        BY <1>9, <2>3
      <4>2. QED
        BY <1>6, <1>14, <2>1, <3>3, <3>5, <3>7, <4>1 DEF Settling, D!FinalState, D!Other
    <3>9. PhaseInv'
      <4>1. 2 \in 0..2
        OBVIOUS
      <4>2. QED
        BY <1>5, <3>8, <4>1 DEF PhaseInv
    <3>10. DeferredInv' /\ CallMade' = CallMade /\ (OwedBy(n))' = OwedBy(n)
      BY <1>13, <3>4, <3>5, <3>6, <3>7, <3>9
    <3>11. QED
      BY <2>2, <3>3, <3>10
  <2>4. CASE k = 2
    <3>1. D!Callee(M) = "lockProgress"
      BY <1>4, <1>8, <2>4 DEF OwnFirst
    <3>2. PICK T : T = D!Lock(lists["progress"])
      OBVIOUS
    <3>3. state' = state /\ lists' = [lists EXCEPT ![n] = N, !["progress"] = T]
      BY <1>1, <1>2, <1>11, <3>1, <3>2 DEF D!RunOwn
    <3>4. Sound(T) /\ Locked(T) /\ T \in DeferredLists
      BY <1>11, <1>12, <3>2, LockKeepsSound DEF Sound
    <3>5. /\ lists' \in [D!ListNames -> DeferredLists]
          /\ lists'[n] = N /\ lists'[o] = lists[o] /\ lists'["progress"] = T
      BY <1>6, <1>9, <1>11, <3>3, <3>4
    <3>6. Settled(n)'
      BY <1>6, <1>8, <1>9, <2>1, <2>4, <3>3, <3>4, <3>5 DEF Settled, D!FinalState, D!Other
    <3>7. PhaseInv'
      BY <1>5, <3>6 DEF PhaseInv
    <3>8. DeferredInv' /\ CallMade' = CallMade /\ (OwedBy(n))' = OwedBy(n)
      BY <1>13, <3>2, <3>5, <3>7
    <3>9. QED
      BY <2>2, <3>3, <3>8
  <2>5. QED
    BY <1>16, <2>3, <2>4
<1>17. QED
  BY <1>15, <1>16

\* The lists of the outcomes, and whether they are at a handler, stay as they
\* are.
LEMMA OutcomesUntouched ==
    ASSUME DeferredInv, ListsInv', RunningInv', ProgressInv', state' = state,
           \A m \in Ends : lists'[m] = lists[m] /\ ~D!Innermost(m) /\ ~D!Innermost(m)',
           Locked(lists["progress"]) => Locked(lists'["progress"])
    PROVE  DeferredInv' /\ OwedStays
<1>1. \A m \in Ends : D!Other(m) \in Ends
  BY EndFacts
<1>2. ASSUME Pending PROVE DeferredInv'
  <2>1. Pending'
    BY <1>2 DEF Pending
  <2>2. PhaseInv'
    BY <2>1 DEF PhaseInv
  <2>3. QED
    BY <2>2 DEF DeferredInv
<1>3. ASSUME NEW m \in Ends, Settled(m) PROVE DeferredInv'
  <2>1. Settled(m)'
    BY <1>1, <1>3 DEF Settled, D!FinalState, D!Other
  <2>2. QED
    BY <2>1 DEF DeferredInv, PhaseInv
<1>4. ASSUME NEW m \in Ends, NEW k \in 0..2, Settling(m, k) PROVE FALSE
  BY <1>4 DEF Settling
<1>5. DeferredInv'
  BY <1>2, <1>3, <1>4 DEF DeferredInv, PhaseInv
<1>6. ASSUME NEW m \in Ends PROVE (OwedBy(m))' = OwedBy(m)
  BY DEF OwedBy, Owes, Rest, D!Handlers
<1>7. QED
  BY <1>5, <1>6 DEF OwedStays

\* Nor does the handler that is called change.
LEMMA CallsStay ==
    ASSUME DeferredInv, DeferredInv',
           \A m \in Ends : (D!InHandler(m)' <=> D!InHandler(m))
                        /\ (D!InHandler(m) => lists'[m] = lists[m])
    PROVE  CallMade' = CallMade
<1>1. CallsAre /\ CallsAre'
  BY CallIs, CallWillBe
<1>2. CASE \E m \in Ends : D!InHandler(m)
  <2>1. PICK m \in Ends : D!InHandler(m)
    BY <1>2
  <2>2. CallMade' = <<D!FinalState(m), lists'[m].list[lists'[m].firingIndex + 1]>>
    BY <1>1, <2>1 DEF CallsAre, D!FinalState
  <2>3. QED
    BY <1>1, <2>1, <2>2 DEF CallsAre
<1>3. CASE ~\E m \in Ends : D!InHandler(m)
  BY <1>1, <1>3 DEF CallsAre
<1>4. QED
  BY <1>2, <1>3

\* While the list of an outcome is being called and past its own callbacks,
\* the Deferred is settled with that outcome, and the other list is dead.
LEMMA FiringIsSettled ==
    ASSUME DeferredInv, NEW n \in Ends, lists[n].firing, \A k \in 0..2 : ~Settling(n, k)
    PROVE  /\ Settled(n)
           /\ ~D!InHandler(D!Other(n)) /\ ~lists[D!Other(n)].firing
<1>1. PICK o \in Ends : o = D!Other(n) /\ o # n /\ D!Other(o) = n /\ \A m \in Ends : m = n \/ m = o
  BY EndFacts
<1>2. n \in D!ListNames /\ o \in D!ListNames
  BY EndFacts
<1>3. Sound(lists[n]) /\ Sound(lists[o])
  BY <1>2 DEF DeferredInv, ListsInv
<1>4. ~Pending
  BY DEF Pending, Fresh
<1>5. ~Settled(o)
  BY <1>1, <1>3 DEF Settled, Sound
<1>6. ASSUME NEW k \in 0..2, Settling(o, k) PROVE FALSE
  BY <1>1, <1>3, <1>6 DEF Settling, Sound, Fresh
<1>7. Settled(n)
  BY <1>1, <1>4, <1>5, <1>6 DEF DeferredInv, PhaseInv
<1>8. ~lists[o].firing
  BY <1>1, <1>3, <1>7 DEF Settled, Sound
<1>9. QED
  BY <1>1, <1>7, <1>8, CallIs DEF CallsAre

\* The loop calls a handler.
LEMMA CallHandlerSteps ==
    ASSUME DeferredInv, NEW n \in D!ListNames, D!CallHandler(n)
    PROVE  DeferredStep
<1>1. PICK M : M = lists[n]
  OBVIOUS
<1>2. /\ D!Innermost(n) /\ D!MoreToCall(M) /\ D!Callee(M) \in Functions
      /\ calling' = TRUE /\ running' = running /\ lists' = lists /\ state' = state
      /\ deferredUses' = deferredUses /\ late' = late
      /\ told' = IF n = "progress" THEN told \cup {M.data} ELSE told
  BY <1>1 DEF D!CallHandler
<1>3. /\ M.firing /\ Sound(M) /\ M \in DeferredLists /\ running # <<>>
      /\ \A m : D!Innermost(m) <=> m = n
  BY <1>1, <1>2, InnermostFacts DEF D!Innermost
<1>4. AtHandler(M)
  BY <1>2, <1>3 DEF AtHandler, D!MoreToCall, D!Callee, Sound
<1>5. \A m : ~D!Innermost(m)'
  BY <1>2 DEF D!Innermost
<1>6. ListsInv'
  <2>1. ASSUME NEW m \in D!ListNames, lists[m].firing PROVE AtHandler(lists[m])
    BY <1>1, <1>3, <1>4, <2>1 DEF DeferredInv, ListsInv
  <2>2. QED
    BY <1>2, <2>1 DEF DeferredInv, ListsInv
<1>7. RunningInv'
  BY <1>2, <1>3 DEF DeferredInv, RunningInv
<1>8. D!Contains(running, n)
  BY <1>2, InnermostFacts
<1>9. \A m : D!InHandler(m)' <=> D!InHandler(m) \/ m = n
  BY <1>2, <1>3, <1>5, <1>8 DEF D!InHandler, D!Contains
<1>10. CASE n = "progress"
  <2>1. M.data \in (1..deferredUses) \ late
    BY <1>1, <1>3, <1>10 DEF DeferredInv, ProgressInv, Sound
  <2>2. ProgressInv'
    <3>1. told \cup {M.data} \subseteq (1..deferredUses) \ late
      BY <2>1 DEF DeferredInv, ProgressInv
    <3>2. told' \subseteq (1..deferredUses) \ late
      BY <1>2, <1>10, <3>1
    <3>3. QED
      BY <1>2, <3>2 DEF DeferredInv, ProgressInv
  <2>3. \A m \in Ends : m # n
    BY <1>10, EndFacts
  <2>4. DeferredInv' /\ OwedStays
    BY <1>2, <1>3, <1>5, <1>6, <1>7, <2>2, <2>3, OutcomesUntouched
  <2>5. CallMade' = CallMade
    BY <1>2, <1>9, <2>3, <2>4, CallsStay
  <2>6. QED
    BY <1>2, <2>4, <2>5, SameOwed DEF DeferredStep
<1>11. CASE n \in Ends
  <2>1. ASSUME NEW k \in 0..2, Settling(n, k) PROVE FALSE
    <3>1. AtOwn(M, k)
      BY <1>1, <2>1 DEF Settling
    <3>2. M.list[k + 1] \in Own
      BY <3>1 DEF AtOwn, OwnFirst, Own
    <3>3. M.list[k + 1] \in Functions
      BY <1>4, <3>1 DEF AtHandler, AtOwn
    <3>4. QED
      BY <3>2, <3>3, OwnFacts
  <2>2. Settled(n) /\ ~D!InHandler(D!Other(n))
    BY <1>1, <1>3, <1>11, <2>1, FiringIsSettled
  <2>3. CallMade = None
    <3>1. ~D!InHandler(n)
      BY <1>2 DEF D!InHandler
    <3>2. QED
      BY <1>11, <2>2, <3>1, EndFacts, CallIs DEF CallsAre
  <2>4. n # "progress"
    BY <1>11, EndFacts
  <2>5. Settled(n)'
    BY <1>2, <2>2 DEF Settled, D!FinalState, D!Other
  <2>6. ProgressInv'
    BY <1>2, <2>4 DEF DeferredInv, ProgressInv
  <2>7. DeferredInv'
    BY <1>6, <1>7, <1>11, <2>5, <2>6 DEF DeferredInv, PhaseInv
  <2>8. state = D!FinalState(n) /\ Open(M)
    BY <1>1, <2>2 DEF Settled
  <2>9. CallMade' = <<state, M.list[M.firingIndex + 1]>>
    <3>1. CallsAre' /\ D!InHandler(n)'
      BY <1>9, <2>7, CallWillBe
    <3>2. CallMade' = <<D!FinalState(n), lists'[n].list[lists'[n].firingIndex + 1]>>
      BY <1>11, <3>1 DEF CallsAre, D!FinalState
    <3>3. QED
      BY <1>1, <1>2, <2>8, <3>2
  <2>10. OwedBy(n) = Owes(M, TRUE) /\ (OwedBy(n))' = Owes(M, FALSE)
    <3>1. D!Innermost(n) = TRUE /\ D!Innermost(n)' = FALSE
      BY <1>2, <1>5 DEF D!Innermost
    <3>2. QED
      BY <1>1, <1>2, <3>1 DEF OwedBy, Owes, Rest, D!Handlers
  <2>11. /\ Owes(M, TRUE) # <<>>
         /\ Head(Owes(M, TRUE)) = M.list[M.firingIndex + 1]
         /\ Owes(M, FALSE) = Tail(Owes(M, TRUE))
    BY <1>3, <1>4, <2>8, OpenCall
  <2>12. D!P!Next
    BY <1>2, <1>11, <2>3, <2>8, <2>9, <2>10, <2>11, PromiseCall
  <2>13. QED
    BY <2>7, <2>12 DEF DeferredStep
<1>12. QED
  BY <1>10, <1>11, EndFacts

\* The handler throws: no list is called any more.
LEMMA HandlerThrowSteps ==
    ASSUME DeferredInv, D!HandlerThrows
    PROVE  DeferredStep
<1>1. /\ calling /\ calling' = FALSE /\ running' = <<>> /\ lists' = lists /\ state' = state
      /\ deferredUses' = deferredUses /\ late' = late /\ told' = told
  BY DEF D!HandlerThrows
<1>2. \A m : ~D!Innermost(m) /\ ~D!Innermost(m)'
  BY <1>1 DEF D!Innermost
<1>3. \A m : ~D!InHandler(m)'
  <2>1. \A i \in 1..Len(<<>>) : FALSE
    OBVIOUS
  <2>2. QED
    BY <1>1, <2>1 DEF D!InHandler, D!Contains
<1>4. ListsInv'
  BY <1>1, <1>2 DEF DeferredInv, ListsInv
<1>5. RunningInv'
  <2>1. <<>> \in Seq(D!ListNames) /\ \A i \in 1..Len(<<>>) : FALSE
    BY EmptySeq
  <2>2. QED
    BY <1>1, <2>1 DEF RunningInv
<1>6. ProgressInv'
  BY <1>1 DEF DeferredInv, ProgressInv
<1>7. DeferredInv' /\ OwedStays
  BY <1>1, <1>2, <1>4, <1>5, <1>6, OutcomesUntouched
<1>8. CallMade' = None
  BY <1>3, <1>7, CallWillBe DEF CallsAre
<1>9. CASE CallMade = None
  BY <1>1, <1>7, <1>8, <1>9, SameOwed DEF DeferredStep
<1>10. CASE CallMade # None
  BY <1>1, <1>7, <1>8, <1>10, PromiseReturn DEF DeferredStep
<1>11. QED
  BY <1>9, <1>10

\* The loop of a list is over: the list waits, or is called again with the
\* next value.
LEMMA LeaveSteps ==
    ASSUME DeferredInv, NEW n \in D!ListNames, D!LeaveList(n)
    PROVE  DeferredStep
<1>1. PICK M, N : M = lists[n] /\ N = D!AfterLoop(M)
  OBVIOUS
<1>2. /\ D!Innermost(n) /\ ~D!MoreToCall(M)
      /\ lists' = [lists EXCEPT ![n] = N] /\ state' = state
      /\ deferredUses' = deferredUses /\ late' = late /\ told' = told
      /\ IF N.firing
         THEN running' = running /\ calling' = calling
         ELSE running' = D!Front(running) /\ calling' = (Len(running) > 1)
  BY <1>1 DEF D!LeaveList
<1>3. /\ M.firing /\ ~calling /\ Sound(M) /\ M \in DeferredLists /\ M.live
      /\ \A m : D!Innermost(m) <=> m = n
      /\ Len(running) \in Nat \ {0} /\ n = running[Len(running)]
  BY <1>1, <1>2, InnermostFacts
<1>4. /\ Sound(N) /\ N.live /\ N.fired /\ N.stacking = M.stacking
      /\ N.list = M.list \/ N.list = <<>>
      /\ N.firing =>
             /\ M.stack # <<>> /\ N.stack = Tail(M.stack)
             /\ N.memory = Head(M.stack) /\ N.data = Head(M.stack)
      /\ ~N.firing => N.memory = M.memory /\ N.data = M.data /\ N.stack = <<>>
      /\ ~M.stacking => ~N.firing
  BY <1>1, <1>3, AfterLoopShape
<1>5. /\ lists \in [D!ListNames -> DeferredLists]
      /\ lists' \in [D!ListNames -> DeferredLists]
      /\ \A m \in D!ListNames : lists'[m] = IF m = n THEN N ELSE lists[m]
  <2>1. N \in DeferredLists
    BY <1>4 DEF Sound
  <2>2. QED
    BY <1>2, <2>1 DEF DeferredInv, ListsInv
<1>6. ASSUME NEW m \in Ends, NEW k \in 0..2, Settling(m, k) PROVE FALSE
  <2>1. m = n /\ AtOwn(M, k)
    BY <1>1, <1>3, <1>6 DEF Settling
  <2>2. M.firingIndex = k /\ Len(M.list) >= 3 /\ M.firingLength = Len(M.list)
        /\ Len(M.list) \in Nat
    BY <1>3, <2>1, DeferredFields DEF AtOwn, OwnFirst, Sound
  <2>3. M.firingIndex < M.firingLength
    BY <2>2
  <2>4. QED
    BY <1>2, <1>3, <2>3 DEF D!MoreToCall
<1>7. CASE N.firing
  <2>1. running' = running /\ calling' = calling
    BY <1>2, <1>7, Zenon
  <2>2. M.stacking
    BY <1>4, <1>7
  <2>3. n = "progress"
    <3>1. ASSUME n \in Ends PROVE FALSE
      <4>1. Settled(n)
        BY <1>1, <1>3, <1>6, <3>1, FiringIsSettled
      <4>2. QED
        BY <1>1, <2>2, <4>1 DEF Settled, Open
    <3>2. QED
      BY <3>1, EndFacts
  <2>4. \A m \in Ends : m # n /\ m \in D!ListNames
    BY <2>3, EndFacts
  <2>5. \A m \in D!ListNames : lists[m].firing => lists'[m].firing
    BY <1>5, <1>7
  <2>6. /\ RunningInv'
        /\ \A m : D!Innermost(m)' <=> D!Innermost(m)
        /\ \A m : D!InHandler(m)' <=> D!InHandler(m)
    BY <2>1, <2>5, StillRunning
  <2>7. ListsInv'
    <3>1. ASSUME NEW m \in D!ListNames
          PROVE  /\ Sound(lists'[m])
                 /\ lists'[m].firing /\ ~D!Innermost(m)' => AtHandler(lists'[m])
      BY <1>3, <1>4, <1>5, <2>6 DEF DeferredInv, ListsInv
    <3>2. QED
      BY <1>5, <3>1 DEF ListsInv
  <2>8. ProgressInv'
    <3>1. /\ M.list \in Seq(Functions) /\ M.stack \in Seq((1..deferredUses) \ late)
      BY <1>1, <2>3 DEF DeferredInv, ProgressInv
    <3>2. N.list \in Seq(Functions)
      BY <1>4, <3>1, EmptySeq
    <3>3. Head(M.stack) \in (1..deferredUses) \ late /\ Tail(M.stack) \in Seq((1..deferredUses) \ late)
      BY <1>4, <1>7, <3>1, HeadTailProperties
    <3>4. /\ N.memory \in ((1..deferredUses) \ late) \cup {None}
          /\ N.data \in ((1..deferredUses) \ late) \cup {None}
          /\ N.stack \in Seq((1..deferredUses) \ late)
      BY <1>4, <1>7, <3>3
    <3>5. lists'["progress"] = N
      BY <1>5, <2>3
    <3>6. QED
      BY <1>2, <3>2, <3>4, <3>5 DEF DeferredInv, ProgressInv
  <2>9. ~Locked(lists["progress"])
    BY <1>1, <2>2, <2>3 DEF Locked
  <2>10. DeferredInv' /\ OwedStays
    BY <1>2, <1>3, <1>5, <2>4, <2>6, <2>7, <2>8, <2>9, OutcomesUntouched
  <2>11. CallMade' = CallMade
    BY <1>5, <2>4, <2>6, <2>10, CallsStay
  <2>12. QED
    BY <1>2, <2>10, <2>11, SameOwed DEF DeferredStep
<1>8. CASE ~N.firing
  <2>1. running' = D!Front(running) /\ calling' = (Len(running) > 1)
    BY <1>2, <1>8, Zenon
  <2>2. PICK k \in Nat : k = Len(running) /\ k > 0
    BY <1>3
  <2>3. /\ running \in Seq(D!ListNames)
        /\ \A i \in 1..k : lists[running[i]].firing /\ running[i] \in D!ListNames
        /\ \A i, j \in 1..k : i # j => running[i] # running[j]
    BY <2>2, ElementOfSeq DEF DeferredInv, RunningInv
  <2>4. running' = SubSeq(running, 1, k - 1)
    BY <2>1, <2>2 DEF D!Front
  <2>5. /\ running' \in Seq(D!ListNames) /\ Len(running') = k - 1
        /\ \A i \in 1..(k - 1) : running'[i] = running[i]
    <3>1. /\ 1 \in Int /\ k - 1 \in Int /\ \A i \in 1..(k - 1) : i \in 1..k
      OBVIOUS
    <3>2. \A i \in 1..(k - 1) : running[i] \in D!ListNames
      BY <2>3, <3>1
    <3>3. /\ running' \in Seq(D!ListNames)
          /\ Len(running') = IF 1 <= k - 1 THEN k - 1 - 1 + 1 ELSE 0
          /\ \A i \in 1..(k - 1 - 1 + 1) : running'[i] = running[1 + i - 1]
      BY <2>4, <3>1, <3>2, SubSeqProperties
    <3>4. Len(running') = k - 1
      BY <2>2, <3>3
    <3>5. ASSUME NEW i \in 1..(k - 1) PROVE running'[i] = running[i]
      <4>1. i \in 1..(k - 1 - 1 + 1) /\ 1 + i - 1 = i
        OBVIOUS
      <4>2. QED
        BY <3>3, <4>1
    <3>6. QED
      BY <3>3, <3>4, <3>5
  <2>6. \A i \in 1..(k - 1) : i \in 1..k /\ k \in 1..k /\ i # k /\ running[i] # n
    BY <1>3, <2>2, <2>3
  <2>7. calling' \in BOOLEAN /\ (calling' <=> k > 1)
    <3>1. calling' = (k > 1)
      BY <2>1, <2>2, Zenon
    <3>2. calling' \in BOOLEAN
      BY <3>1, SMT
    <3>3. calling' <=> k > 1
      BY <3>1, Zenon
    <3>4. QED
      BY <3>2, <3>3
  <2>8. k > 1 \/ running' = <<>>
    BY <2>2, <2>5, EmptySeq
  <2>9. \A m : ~D!Innermost(m)'
    BY <2>7, <2>8 DEF D!Innermost
  <2>10. \A m : D!Contains(running, m)' <=> D!Contains(running, m) /\ m # n
    <3>1. ASSUME NEW m, D!Contains(running, m)' PROVE D!Contains(running, m) /\ m # n
      <4>1. PICK i \in 1..(k - 1) : running'[i] = m
        BY <2>5, <3>1 DEF D!Contains
      <4>2. running[i] = m /\ i \in 1..Len(running) /\ running[i] # n
        BY <2>2, <2>5, <2>6, <4>1
      <4>3. QED
        BY <4>2 DEF D!Contains
    <3>2. ASSUME NEW m, D!Contains(running, m), m # n PROVE D!Contains(running, m)'
      <4>1. PICK i \in 1..k : running[i] = m
        BY <2>2, <3>2 DEF D!Contains
      <4>2. i # k
        BY <1>3, <2>2, <3>2, <4>1
      <4>3. i \in 1..(k - 1)
        BY <4>2
      <4>4. QED
        BY <2>5, <4>1, <4>3 DEF D!Contains
    <3>3. QED
      BY <3>1, <3>2
  <2>11. \A m : D!InHandler(m)' <=> D!InHandler(m)
    BY <1>3, <2>9, <2>10 DEF D!InHandler
  <2>12. RunningInv'
    <3>1. \A i \in 1..(k - 1) : lists'[running'[i]].firing
      BY <1>5, <2>3, <2>5, <2>6
    <3>2. \A i, j \in 1..(k - 1) : i # j => running'[i] # running'[j]
      BY <2>3, <2>5, <2>6
    <3>3. calling' => running' # <<>>
      <4>1. Len(<<>>) = 0
        BY EmptySeq
      <4>2. running' = <<>> => k - 1 = 0
        BY <2>5, <4>1
      <4>3. QED
        BY <2>7, <4>2
    <3>4. QED
      BY <2>5, <2>7, <3>1, <3>2, <3>3 DEF RunningInv
  <2>13. ListsInv'
    <3>1. ASSUME NEW m \in D!ListNames
          PROVE  /\ Sound(lists'[m])
                 /\ lists'[m].firing => AtHandler(lists'[m])
      BY <1>3, <1>4, <1>5, <1>8 DEF DeferredInv, ListsInv
    <3>2. QED
      BY <1>5, <3>1 DEF ListsInv
  <2>14. ProgressInv'
    <3>1. lists["progress"].list \in Seq(Functions) /\ <<>> \in Seq(Functions)
      BY EmptySeq DEF DeferredInv, ProgressInv
    <3>2. "progress" \in D!ListNames
      BY EndFacts
    <3>3. CASE n = "progress"
      BY <1>1, <1>2, <1>4, <1>5, <1>8, <3>1, <3>2, <3>3, ProgressStays DEF DeferredInv
    <3>4. CASE n # "progress"
      BY <1>2, <1>5, <3>2, <3>4 DEF DeferredInv, ProgressInv
    <3>5. QED
      BY <3>3, <3>4
  <2>15. CASE n = "progress"
    <3>1. \A m \in Ends : m # n /\ m \in D!ListNames
      BY <2>15, EndFacts
    <3>2. Locked(lists["progress"]) => Locked(lists'["progress"])
      BY <1>1, <1>4, <1>5, <2>15 DEF Locked
    <3>3. DeferredInv' /\ OwedStays
      BY <1>2, <1>3, <1>5, <2>9, <2>12, <2>13, <2>14, <3>1, <3>2, OutcomesUntouched
    <3>4. CallMade' = CallMade
      BY <1>5, <2>11, <3>1, <3>3, CallsStay
    <3>5. QED
      BY <1>2, <3>3, <3>4, SameOwed DEF DeferredStep
  <2>16. CASE n \in Ends
    <3>1. PICK o \in Ends : o = D!Other(n) /\ o # n /\ \A m \in Ends : m = n \/ m = o
      BY <2>16, EndFacts
    <3>2. Settled(n) /\ ~D!InHandler(o) /\ ~D!InHandler(n)
      BY <1>1, <1>2, <1>3, <1>6, <2>16, <3>1, FiringIsSettled DEF D!InHandler
    <3>3. o \in D!ListNames /\ "progress" \in D!ListNames /\ "progress" # n
      BY <2>16, EndFacts
    <3>4. lists'[o] = lists[o] /\ lists'[n] = N /\ lists'["progress"] = lists["progress"]
      BY <1>5, <3>1, <3>3
    <3>5. Open(M)
      BY <1>1, <3>2 DEF Settled
    <3>6. Open(N) /\ Owes(N, FALSE) = Owes(M, TRUE)
      BY <1>1, <1>2, <1>3, <3>5, OpenLeave
    <3>7. Settled(n)'
      BY <1>2, <3>1, <3>2, <3>4, <3>6 DEF Settled, D!FinalState, D!Other
    <3>8. DeferredInv'
      BY <2>12, <2>13, <2>14, <2>16, <3>7 DEF DeferredInv, PhaseInv
    <3>9. CallMade' = CallMade
      BY <2>11, <3>1, <3>2, <3>8, CallsStay
    <3>10. (OwedBy(n))' = OwedBy(n)
      <4>1. D!Innermost(n) = TRUE /\ D!Innermost(n)' = FALSE
        BY <1>2, <2>9 DEF D!Innermost
      <4>2. OwedBy(n) = Owes(M, TRUE) /\ (OwedBy(n))' = Owes(N, FALSE)
        BY <1>1, <3>4, <4>1 DEF OwedBy, Owes, Rest, D!Handlers
      <4>3. QED
        BY <3>6, <4>2
    <3>11. OwedStays
      <4>1. state = D!FinalState(n)
        BY <3>2 DEF Settled
      <4>2. state \notin {"pending", D!FinalState(o)}
        BY <2>16, <3>1, <4>1, EndFacts
      <4>3. QED
        BY <3>1, <3>10, <4>2 DEF OwedStays
    <3>12. QED
      BY <1>2, <3>8, <3>9, <3>11, SameOwed DEF DeferredStep
  <2>17. QED
    BY <2>15, <2>16, EndFacts
<1>9. QED
  BY <1>7, <1>8

\* The handler returns: the list it is of is called further.
LEMMA HandlerReturnSteps ==
    ASSUME DeferredInv, D!HandlerReturns
    PROVE  DeferredStep
<1>1. PICK n, M, N : n = D!Top /\ M = lists[n] /\ N = D!Advance(M)
  OBVIOUS
<1>2. /\ calling /\ calling' = FALSE /\ running' = running
      /\ lists' = [lists EXCEPT ![n] = N] /\ state' = state
      /\ deferredUses' = deferredUses /\ late' = late /\ told' = told
  BY <1>1 DEF D!HandlerReturns
<1>3. /\ n \in D!ListNames /\ M.firing /\ D!Contains(running, n) /\ running # <<>>
  <2>1. running \in Seq(D!ListNames) /\ running # <<>>
    BY <1>2 DEF DeferredInv, RunningInv
  <2>2. Len(running) \in 1..Len(running) /\ n = running[Len(running)]
    BY <1>1, <2>1, EmptySeq DEF D!Top, D!Last
  <2>3. QED
    BY <1>1, <2>1, <2>2, ElementOfSeq DEF DeferredInv, RunningInv, D!Contains
<1>4. \A m : ~D!Innermost(m)
  BY <1>2 DEF D!Innermost
<1>5. \A m : D!Innermost(m)' <=> m = n
  BY <1>1, <1>2, <1>3 DEF D!Innermost, D!Top
<1>6. \A m : D!InHandler(m)' <=> D!InHandler(m) /\ m # n
  BY <1>2, <1>4, <1>5 DEF D!InHandler, D!Contains
<1>7. D!InHandler(n)
  BY <1>3, <1>4 DEF D!InHandler
<1>8. Sound(M) /\ AtHandler(M) /\ M \in DeferredLists
  BY <1>1, <1>3, <1>4 DEF DeferredInv, ListsInv, Sound
<1>9. /\ Sound(N) /\ N \in DeferredLists /\ N.firing
      /\ N.list = M.list /\ N.memory = M.memory /\ N.data = M.data /\ N.stack = M.stack
      /\ N.stacking = M.stacking /\ N.live = M.live /\ N.fired = M.fired
  <2>1. /\ N \in DeferredLists
        /\ N.options = M.options /\ N.list = M.list /\ N.live = M.live
        /\ N.stack = M.stack /\ N.stacking = M.stacking /\ N.memory = M.memory
        /\ N.fired = M.fired /\ N.firing = M.firing /\ N.data = M.data
        /\ N.firingStart = M.firingStart /\ N.firingLength = M.firingLength
        /\ N.firingIndex = M.firingIndex + 1
    BY <1>1, <1>8, AdvanceShape
  <2>2. M.firingIndex + 1 <= Len(M.list)
    BY <1>8, DeferredFields DEF AtHandler
  <2>3. QED
    BY <1>1, <1>3, <1>8, <2>1, <2>2 DEF Sound
<1>10. /\ lists' \in [D!ListNames -> DeferredLists]
       /\ \A m \in D!ListNames : lists'[m] = IF m = n THEN N ELSE lists[m]
  BY <1>2, <1>9 DEF DeferredInv, ListsInv
<1>11. ListsInv'
  <2>1. ASSUME NEW m \in D!ListNames
        PROVE  /\ Sound(lists'[m])
               /\ lists'[m].firing /\ m # n => AtHandler(lists'[m])
    BY <1>4, <1>9, <1>10 DEF DeferredInv, ListsInv
  <2>2. QED
    BY <1>5, <1>10, <2>1 DEF ListsInv
<1>12. RunningInv'
  <2>1. running \in Seq(D!ListNames) /\ \A i \in 1..Len(running) : lists[running[i]].firing
    BY DEF DeferredInv, RunningInv
  <2>2. \A i \in 1..Len(running) : lists'[running[i]].firing
    BY <1>9, <1>10, <2>1, ElementOfSeq
  <2>3. QED
    BY <1>2, <2>2 DEF DeferredInv, RunningInv
<1>13. ProgressInv'
  <2>1. "progress" \in D!ListNames /\ lists["progress"].list \in Seq(Functions)
    BY EndFacts DEF DeferredInv, ProgressInv
  <2>2. CASE n = "progress"
    BY <1>1, <1>2, <1>9, <1>10, <2>1, <2>2, ProgressStays DEF DeferredInv
  <2>3. CASE n # "progress"
    BY <1>2, <1>10, <2>1, <2>3 DEF DeferredInv, ProgressInv
  <2>4. QED
    BY <2>2, <2>3
<1>14. CASE n = "progress"
  <2>1. \A m \in Ends : m # n /\ m \in D!ListNames
    BY <1>14, EndFacts
  <2>2. Locked(lists["progress"]) => Locked(lists'["progress"])
    BY <1>1, <1>3, <1>9, <1>10, <1>14 DEF Locked
  <2>3. DeferredInv' /\ OwedStays
    BY <1>2, <1>4, <1>5, <1>10, <1>11, <1>12, <1>13, <2>1, <2>2, OutcomesUntouched
  <2>4. CallMade' = CallMade
    BY <1>6, <1>10, <2>1, <2>3, CallsStay
  <2>5. QED
    BY <1>2, <2>3, <2>4, SameOwed DEF DeferredStep
<1>15. CASE n \in Ends
  <2>1. PICK o \in Ends : o = D!Other(n) /\ o # n /\ \A m \in Ends : m = n \/ m = o
    BY <1>15, EndFacts
  <2>2. \A k \in 0..2 : ~Settling(n, k)
    BY <1>4 DEF Settling
  <2>3. Settled(n) /\ ~D!InHandler(o)
    BY <1>1, <1>3, <1>15, <2>1, <2>2, FiringIsSettled
  <2>4. o \in D!ListNames /\ "progress" \in D!ListNames /\ "progress" # n
    BY <1>15, EndFacts
  <2>5. lists'[o] = lists[o] /\ lists'[n] = N /\ lists'["progress"] = lists["progress"]
    BY <1>3, <1>10, <2>1, <2>4
  <2>6. Open(M)
    BY <1>1, <2>3 DEF Settled
  <2>7. Open(N) /\ Owes(N, TRUE) = Owes(M, FALSE)
    BY <1>1, <1>3, <1>8, <2>6, OpenReturn
  <2>8. Settled(n)'
    BY <1>2, <2>1, <2>3, <2>5, <2>7 DEF Settled, D!FinalState, D!Other
  <2>9. DeferredInv'
    BY <1>11, <1>12, <1>13, <1>15, <2>8 DEF DeferredInv, PhaseInv
  <2>10. CallMade # None
    BY <1>7, <1>15, CallIs DEF CallsAre
  <2>11. CallMade' = None
    BY <1>6, <2>1, <2>3, <2>9, CallWillBe DEF CallsAre
  <2>12. (OwedBy(n))' = OwedBy(n)
    <3>1. D!Innermost(n) = FALSE /\ D!Innermost(n)' = TRUE
      BY <1>4, <1>5 DEF D!Innermost
    <3>2. OwedBy(n) = Owes(M, FALSE) /\ (OwedBy(n))' = Owes(N, TRUE)
      BY <1>1, <2>5, <3>1 DEF OwedBy, Owes, Rest, D!Handlers
    <3>3. QED
      BY <2>7, <3>2
  <2>13. OwedStays
    <3>1. state = D!FinalState(n)
      BY <2>3 DEF Settled
    <3>2. state \notin {"pending", D!FinalState(o)}
      BY <1>15, <2>1, <3>1, EndFacts
    <3>3. QED
      BY <2>1, <2>12, <3>2 DEF OwedStays
  <2>14. QED
    BY <1>2, <2>9, <2>10, <2>11, <2>13, PromiseReturn DEF DeferredStep
<1>16. QED
  BY <1>3, <1>14, <1>15, EndFacts

\* Every step of the Deferred is one of the promise, or none.
LEMMA DeferredSteps ==
    ASSUME DeferredInv, D!Next
    PROVE  DeferredStep
<1>1. ASSUME NEW n \in D!ListNames, NEW c \in Functions, D!On(n, c) PROVE DeferredStep
  <2>1. CASE n = "progress"
    BY <1>1, <2>1, OnProgressSteps
  <2>2. CASE n \in Ends
    BY <1>1, <2>2, OnSteps
  <2>3. QED
    BY <2>1, <2>2, EndFacts
<1>2. ASSUME NEW n \in {"done", "fail"}, D!Settle(n) PROVE DeferredStep
  BY <1>2, SettleSteps DEF Ends
<1>3. CASE D!Notify
  BY <1>3, NotifySteps
<1>4. ASSUME NEW n \in D!ListNames, D!CallOwn(n) \/ D!CallHandler(n) \/ D!LeaveList(n)
      PROVE  DeferredStep
  BY <1>4, OwnSteps, CallHandlerSteps, LeaveSteps
<1>5. CASE D!HandlerReturns
  BY <1>5, HandlerReturnSteps
<1>6. CASE D!HandlerThrows
  BY <1>6, HandlerThrowSteps
<1>7. QED
  BY <1>1, <1>2, <1>3, <1>4, <1>5, <1>6 DEF D!Next

\* Other parts of the page leave the Deferred alone.
LEMMA DeferredAlone ==
    ASSUME DeferredInv, UNCHANGED deferredVars
    PROVE  DeferredStep
<1>1. /\ state' = state /\ lists' = lists /\ running' = running /\ calling' = calling
      /\ deferredUses' = deferredUses /\ late' = late /\ told' = told
  BY DEF deferredVars
<1>2. (\A m : D!Innermost(m)' <=> D!Innermost(m)) /\ (\A m : D!InHandler(m)' <=> D!InHandler(m))
  BY <1>1 DEF D!InHandler, D!Contains, D!Innermost, D!Top
<1>3. ListsInv'
  BY <1>1, <1>2 DEF DeferredInv, ListsInv
<1>4. RunningInv'
  BY <1>1 DEF DeferredInv, RunningInv
<1>5. PhaseInv'
  <2>1. \A m : Settled(m)' <=> Settled(m)
    BY <1>1 DEF Settled, D!FinalState, D!Other
  <2>2. \A m, k : Settling(m, k)' <=> Settling(m, k)
    BY <1>1, <1>2 DEF Settling, D!FinalState, D!Other
  <2>3. Pending' <=> Pending
    BY <1>1 DEF Pending
  <2>4. QED
    BY <2>1, <2>2, <2>3 DEF DeferredInv, PhaseInv
<1>6. ProgressInv'
  BY <1>1 DEF DeferredInv, ProgressInv
<1>7. OwedStays
  <2>1. ASSUME NEW m PROVE (OwedBy(m))' = OwedBy(m)
    <3>1. D!Innermost(m)' = D!Innermost(m)
      BY <1>1 DEF D!Innermost, D!Top
    <3>2. QED
      BY <1>1, <3>1 DEF OwedBy, Owes, Rest, D!Handlers
  <2>2. QED
    BY <2>1 DEF OwedStays
<1>8. DeferredInv'
  BY <1>3, <1>4, <1>5, <1>6 DEF DeferredInv
<1>9. CallMade' = CallMade
  BY <1>1, <1>2, <1>8, CallsStay
<1>10. QED
  BY <1>1, <1>7, <1>8, <1>9, SameOwed DEF DeferredStep

-----------------------------------------------------------------------------
(* The beginning, and the theorem.                                         *)

\* A new list.
LEMMA NewShape ==
    ASSUME NEW options \in SUBSET {"once", "memory"}, "memory" \in options,
           NEW M, M = D!NewList(options)
    PROVE  /\ Sound(M) /\ M \in DeferredLists /\ M.list = <<>> /\ M.live
           /\ M.stacking <=> "once" \notin options
           /\ M.memory = None /\ M.data = None /\ M.stack = <<>>
           /\ ~M.fired /\ ~M.firing
<1>1. <<>> \in Seq(Functions \cup Own) /\ <<>> \in Seq(Values) /\ Len(<<>>) = 0
  BY EmptySeq
<1>2. PICK b \in BOOLEAN : b = ("once" \notin options)
  <2>1. CASE "once" \in options
    BY <2>1
  <2>2. CASE "once" \notin options
    BY <2>2
  <2>3. QED
    BY <2>1, <2>2
<1>3. M = [options |-> options,
           list |-> <<>>, live |-> TRUE, stack |-> <<>>, stacking |-> b,
           memory |-> None, fired |-> FALSE, firing |-> FALSE, data |-> None,
           firingStart |-> 0, firingLength |-> 0, firingIndex |-> 0]
  BY <1>2, Zenon DEF D!NewList
<1>4. M \in DeferredLists
  BY <1>1, <1>3 DEF DeferredLists
<1>5. /\ M.options = options /\ M.list = <<>> /\ M.live
      /\ M.stacking = b /\ M.memory = None /\ M.data = None /\ M.stack = <<>>
      /\ ~M.fired /\ ~M.firing /\ M.firingStart = 0
  BY <1>3
<1>6. Sound(M)
  BY <1>4, <1>5 DEF Sound
<1>7. QED
  BY <1>2, <1>4, <1>5, <1>6

\* The list of an outcome begins with the own callbacks, and owes nothing.
LEMMA NewOutcome ==
    ASSUME NEW N, N = D!Add(D!NewList({"once", "memory"}), D!OwnCallbacks)
    PROVE  Sound(N) /\ Fresh(N) /\ Owes(N, FALSE) = <<>>
<1>1. PICK M : M = D!NewList({"once", "memory"})
  OBVIOUS
<1>2. /\ Sound(M) /\ M \in DeferredLists /\ M.list = <<>> /\ M.live /\ ~M.stacking
      /\ M.memory = None /\ M.data = None /\ M.stack = <<>> /\ ~M.fired /\ ~M.firing
  BY <1>1, NewShape
<1>3. PICK s : s = D!OwnCallbacks
  OBVIOUS
<1>4. /\ s = <<"setState", "disableOther", "lockProgress">> /\ Len(s) = 3 /\ s \in Seq(Own)
      /\ s \in Seq(Functions \cup Own)
  BY <1>3 DEF D!OwnCallbacks, Own
<1>5. D!Pushed(M, s) = s
  BY <1>2, <1>4, PushedAll
<1>6. <<>> \o s = s
  BY <1>4, ConcatEmptySeq
<1>7. N = [M EXCEPT !.list = s]
  BY <1>1, <1>2, <1>3, <1>5, <1>6 DEF D!Add
<1>8. /\ N \in DeferredLists /\ N.list = s /\ N.live /\ ~N.stacking
      /\ N.memory = None /\ N.stack = <<>> /\ ~N.fired /\ ~N.firing
      /\ N.options = M.options /\ N.firingStart = M.firingStart
  BY <1>2, <1>4, <1>7 DEF DeferredLists
<1>9. Sound(N)
  BY <1>2, <1>8 DEF Sound
<1>10. OwnFirst(s)
  BY <1>4 DEF OwnFirst
<1>11. Fresh(N)
  BY <1>8, <1>10 DEF Fresh
<1>12. Owes(N, FALSE) = SubSeq(s, 4, Len(s))
  BY <1>8, <1>9, <1>10, OwnFirstOwes
<1>13. SubSeq(s, 4, 3) = <<>>
  BY SubSeqEmpty
<1>14. QED
  BY <1>4, <1>9, <1>11, <1>12, <1>13

LEMMA DeferredInit ==
    ASSUME D!Init
    PROVE  DeferredInv /\ D!P!Init
<1>1. PICK M, N : /\ M = D!NewList({"memory"})
                  /\ N = D!Add(D!NewList({"once", "memory"}), D!OwnCallbacks)
  OBVIOUS
<1>2. /\ state = "pending" /\ running = <<>> /\ calling = FALSE /\ deferredUses = 0
      /\ late = {} /\ told = {}
      /\ lists = [n \in D!ListNames |-> IF n = "progress" THEN M ELSE N]
  BY <1>1, Zenon DEF D!Init
<1>3. /\ Sound(M) /\ M \in DeferredLists /\ M.list = <<>> /\ ~M.firing
      /\ M.memory = None /\ M.data = None /\ M.stack = <<>>
  BY <1>1, NewShape
<1>4. Sound(N) /\ Fresh(N) /\ Owes(N, FALSE) = <<>>
  BY <1>1, NewOutcome
<1>5. N \in DeferredLists /\ ~N.firing
  BY <1>4 DEF Sound, Fresh
<1>6. /\ lists \in [D!ListNames -> DeferredLists]
      /\ lists["progress"] = M /\ \A n \in Ends : lists[n] = N
  BY <1>2, <1>3, <1>5, EndFacts
<1>7. ListsInv
  BY <1>2, <1>3, <1>4, <1>5, <1>6 DEF ListsInv
<1>8. RunningInv
  <2>1. <<>> \in Seq(D!ListNames) /\ \A i \in 1..Len(<<>>) : FALSE
    BY EmptySeq
  <2>2. QED
    BY <1>2, <2>1 DEF RunningInv
<1>9. PhaseInv
  BY <1>2, <1>4, <1>6 DEF PhaseInv, Pending
<1>10. ProgressInv
  <2>1. <<>> \in Seq(Functions) /\ <<>> \in Seq((1..0) \ {})
    BY EmptySeq
  <2>2. 0 \in 0..MaxDeferredUses
    BY PartsAssumption
  <2>3. QED
    BY <1>2, <1>3, <1>6, <2>1, <2>2 DEF ProgressInv
<1>11. DeferredInv
  BY <1>7, <1>8, <1>9, <1>10 DEF DeferredInv
<1>12. CallMade = None
  <2>1. \A i \in 1..Len(<<>>) : FALSE
    OBVIOUS
  <2>2. \A m : ~D!InHandler(m)
    BY <1>2, <2>1 DEF D!InHandler, D!Contains
  <2>3. QED
    BY <1>11, <2>2, CallIs DEF CallsAre
<1>13. HandlersOwed = [s \in {"resolved", "rejected"} |-> <<>>]
  <2>1. ASSUME NEW n \in Ends PROVE OwedBy(n) = <<>>
    <3>1. D!Innermost(n) = FALSE
      BY <1>2 DEF D!Innermost
    <3>2. QED
      BY <1>4, <1>6, <3>1 DEF OwedBy
  <2>2. QED
    BY <1>2, <2>1, EndFacts DEF HandlersOwed
<1>14. D!P!Init
  BY <1>2, <1>12, <1>13, OwedIsHandlersOwed DEF D!P!Init, D!P!Outcomes, CallMade
<1>15. QED
  BY <1>11, <1>14

\* What the invariant says of the list of handlers and of late values.
LEMMA DeferredSafe == DeferredInv => D!TypeOK /\ D!NoLateProgress
<1> SUFFICES ASSUME DeferredInv PROVE D!TypeOK /\ D!NoLateProgress
  OBVIOUS
<1>1. {D!OwnCallbacks[i] : i \in 1..3} = Own
  <2>1. D!OwnCallbacks[1] = "setState" /\ D!OwnCallbacks[2] = "disableOther"
        /\ D!OwnCallbacks[3] = "lockProgress"
    BY DEF D!OwnCallbacks
  <2>2. 1..3 = {1, 2, 3}
    OBVIOUS
  <2>3. QED
    BY <2>1, <2>2 DEF Own
<1>2. ASSUME NEW n \in {"done", "fail"} PROVE lists[n].list \in Seq(Functions \cup Own)
  <2>1. Sound(lists[n])
    BY <1>2, EndFacts DEF DeferredInv, ListsInv, Ends
  <2>2. QED
    BY <2>1, DeferredFields DEF Sound
<1>3. state \in {"pending", "resolved", "rejected"}
  BY EndFacts DEF DeferredInv, PhaseInv, Pending, Settled, Settling
<1>4. D!TypeOK
  BY <1>1, <1>2, <1>3 DEF D!TypeOK, DeferredInv, RunningInv, ProgressInv
<1>5. D!NoLateProgress
  BY DEF D!NoLateProgress, DeferredInv, ProgressInv
<1>6. QED
  BY <1>4, <1>5

\* The Deferred keeps its promise, whatever its handlers do with it while
\* they are called: it settles once, calls the handlers of that outcome, each
\* once and in order, and no other, and no progress handler is called with a
\* value that came after that (the tuples, done, fail, progress, resolve,
\* reject and notify of jQuery.Deferred).
THEOREM DeferredIsKept == AllSpec => DeferredKeepsPromise
<1>1. AllInit => DeferredInv /\ D!P!Init
  BY DeferredInit DEF AllInit
<1>2. ASSUME DeferredInv, [AllNext]_allVars PROVE DeferredStep
  <2>1. D!Next \/ UNCHANGED deferredVars
    BY <1>2 DEF AllNext, allVars
  <2>2. QED
    BY <1>2, <2>1, DeferredSteps, DeferredAlone
<1>3. DeferredInv /\ [AllNext]_allVars => DeferredInv'
  BY <1>2 DEF DeferredStep
<1>4. DeferredInv /\ [AllNext]_allVars => [D!P!Next]_(D!P!vars)
  BY <1>2, OwedIsHandlersOwed DEF DeferredStep, D!P!vars, CallMade
<1>5. QED
  BY <1>1, <1>3, <1>4, DeferredSafe, PTL
     DEF AllSpec, DeferredKeepsPromise, D!KeepsPromise, D!P!Spec
=============================================================================
