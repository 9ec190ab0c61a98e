------------------------------ MODULE FxProofs ------------------------------
(***************************************************************************)
(* What is queued for an element runs one at a time, the sentinel is there *)
(* exactly while it does, and every animation that runs is driven by its   *)
(* timer: FxInv, for all elements and animations, where the page and the   *)
(* completion handlers are careful.                                        *)
(*                                                                         *)
(* The jobs are always some short ones, which end without a loop, above at *)
(* most one loop: of the tick, of stop or of finish.  The short ones only  *)
(* pass on the right to go on with a queue; while it is not empty, it is   *)
(* with what runs, with the start of it or with a call of dequeue, and     *)
(* only one of them has it.  A loop that stops what runs takes that right  *)
(* away from what it has passed, and gives it back when it ends.           *)
(*                                                                         *)
(* Of the short jobs more is true, where unqueued animations take time:    *)
(* after a completion handler comes the call that goes on, and for what    *)
(* was queued none comes before it.  So handlers come before the empty     *)
(* callbacks: EmptyMeansComplete.                                          *)
(***************************************************************************)
EXTENDS Fx, FiniteSetTheorems, SequenceTheorems, TLAPS

Queueing == {"animate", "delay"}
Stopping == {"stop", "stop and clear", "finish"}
Dequeueing == {"clear", "empty"}

HandlersQueueNothing == HandlerUses \cap Queueing = {}
UsesDelays == "delay" \in PageUses \cup HandlerUses
MayDequeue == (PageUses \cup HandlerUses) \cap Dequeueing # {}
NoneQueues == (PageUses \cup HandlerUses) \cap Queueing = {}

\* What the code needs of the page: handlers do not throw or stop anything, and
\* queue nothing where the page stops; delays are not stopped, except by finish;
\* and where anything is queued, queues are not cleared, nor is animate called
\* with no properties.  Without one of them, TLC finds a queue that is started
\* twice or stuck.
CarefulUses ==
    /\ HandlerUses \cap (Stopping \cup {"throw"}) = {}
    /\ PageUses \cap Stopping # {} => HandlersQueueNothing
    /\ UsesDelays => PageUses \cap {"stop", "stop and clear"} = {}
    /\ MayDequeue => NoneQueues

-----------------------------------------------------------------------------
(* The inductive invariant.                                                *)

Started(i) == item[i].st \notin {"new", "waiting"}
Settled(i) == item[i].st \in {"resolved", "rejected"}

ItemSet ==
    [kind : {None, "anim", "delay"}, elem : Elements \cup {None}, queued : BOOLEAN,
     instant : BOOLEAN, st : {"new", "waiting", "running", "resolved", "rejected"},
     stopped : BOOLEAN, ticks : Nat]

HookSet ==
    [present : BOOLEAN, stop : Items \cup {None}, unqueued : Nat, waiting : BOOLEAN]

ItemOK(i) ==
    /\ item[i].kind = None <=> item[i].st = "new"
    /\ item[i].kind # None => item[i].elem \in Elements
    /\ item[i].kind = "delay" => item[i].queued /\ UsesDelays
    /\ item[i].stopped => Settled(i)

ItemsOK == item \in [Items -> ItemSet] /\ \A i \in Items : ItemOK(i)

\* i waits for its turn in the queue of e.
Pending(i, e) ==
    i \in Items /\ item[i].st = "waiting" /\ item[i].elem = e /\ item[i].queued

\* s is a queue of e, or the rest of one: nothing is in it twice.
IsQueue(s, e) ==
    /\ s \in Seq(Items \cup {"inprogress"})
    /\ \A m \in DOMAIN s : s[m] = "inprogress" \/ Pending(s[m], e)
    /\ \A m, n \in DOMAIN s : s[m] = s[n] => m = n

QueueOK(e) ==
    /\ IsQueue(queue[e], e)
    /\ \A m \in DOMAIN queue[e] : queue[e][m] = "inprogress" => m = 1

QueuesOK ==
    /\ queue \in [Elements -> Seq(Items \cup {"inprogress"})]
    /\ \A e \in Elements : QueueOK(e)

\* Every animation that runs has its timer, once; the others have none, except
\* those that settled and are still to be removed.
TimersOK ==
    /\ timers \in Seq(Items)
    /\ \A m, n \in DOMAIN timers : timers[m] = timers[n] => m = n
    /\ \A m \in DOMAIN timers : item[timers[m]].kind = "anim" /\ Started(timers[m])
    /\ \A i \in Items : item[i].kind = "anim" /\ item[i].st = "running" =>
        \E m \in DOMAIN timers : timers[m] = i
    /\ timers # <<>> => interval

\* How often j is in s.
Count(s, j) == Cardinality({n \in DOMAIN s : s[n] = j})

RunningUnqueued(e) ==
    {i \in Items : item[i].elem = e /\ ~item[i].queued /\ item[i].st = "running"}
StartedUnqueued(e) ==
    {i \in Items : item[i].elem = e /\ ~item[i].queued /\ Started(i)}

\* The hooks know the delay that runs.
StopOK(e) ==
    /\ hooks[e].stop # None =>
        /\ item[hooks[e].stop].kind = "delay"
        /\ item[hooks[e].stop].elem = e
        /\ Started(hooks[e].stop)
    /\ \A i \in Items : item[i].kind = "delay" /\ item[i].elem = e /\ item[i].st = "running" =>
        hooks[e].stop = i

\* They count at least the unqueued animations that run or are about to end,
\* and at most those that were started.
CountOK(e) ==
    /\ Cardinality(RunningUnqueued(e)) + Count(todo, <<"unqueued", e>>) <= hooks[e].unqueued
    /\ hooks[e].unqueued <= Cardinality(StartedUnqueued(e))

HooksOK ==
    /\ hooks \in [Elements -> HookSet]
    /\ \A e \in Elements : StopOK(e) /\ CountOK(e)

NothingQueued ==
    MayDequeue => \A e \in Elements : queue[e] = <<>>

\* The right to go on with the queue of e: the animations that have it, a
\* start that does, and the calls of dequeue.
R(e) == Cardinality(Running(e))
T(e) == IF Doing("start") /\ item[Job[2]].queued /\ item[Job[2]].elem = e THEN 1 ELSE 0
D(e) == Count(todo, <<"dequeue", e>>)

-----------------------------------------------------------------------------
(* The jobs.                                                               *)

JobSet ==
    ({"dequeue", "unqueued"} \X Elements)
    \cup ({"start", "handler", "always", "force"} \X Items)
    \cup ({"tick", "splice"} \X Nat)
    \cup ({"ticked"} \X Nat \X Items)
    \cup ({"stopHooks"} \X Elements \X BOOLEAN)
    \cup ({"stopTimers"} \X Elements \X Nat \X BOOLEAN \X BOOLEAN)
    \cup ({"finishTimers"} \X Elements \X Nat)
    \cup ({"finishOld"} \X Elements \X Seq(Items \cup {"inprogress"}))

\* A short job: a call of dequeue, or of what an unqueued animation ends with;
\* a start, of what is in no queue any more; a handler; or a forced end.
StartOK(i) ==
    /\ item[i].st = "waiting"
    /\ \A e \in Elements : \A m \in DOMAIN queue[e] : queue[e][m] # i
HandlerOK(i) == item[i].kind = "anim" /\ Started(i)

ShortOK(j) ==
    \/ \E e \in Elements : j = <<"dequeue", e>> \/ j = <<"unqueued", e>>
    \/ \E i \in Items : j = <<"start", i>> /\ StartOK(i)
    \/ \E i \in Items : (j = <<"handler", i>> \/ j = <<"always", i>>) /\ HandlerOK(i)
    \/ \E i \in Items : j = <<"force", i>> /\ HandlerOK(i) /\ finishing # {}

\* The short jobs; a start is done at once.
Short(X) ==
    /\ X \in Seq(JobSet)
    /\ \A n \in DOMAIN X : ShortOK(X[n])
    /\ \A n \in DOMAIN X : X[n][1] = "start" => n = 1

\* Nobody stops anything of e: one has the right, if the queue is not empty;
\* and if it is, only calls of dequeue to which nothing can happen.
Ordinary(e) ==
    /\ queue[e] # <<>> => R(e) + T(e) + D(e) = 1
    /\ queue[e] = <<>> => R(e) = 0 /\ T(e) = 0 /\ (D(e) = 0 \/ HandlersQueueNothing)
    /\ queue[e] # <<>> /\ ~SentinelFirst(queue[e]) => ~Idle /\ Job = <<"dequeue", e>>

NoDelays == \A i \in Items : item[i].kind # "delay"

\* What runs is still to be passed by a loop from timer k to the first.
Below(e, k) == \A i \in Running(e) : \E m \in 1..k : timers[m] = i
Halting(e, k) == T(e) = 0 /\ R(e) <= 1 /\ Below(e, k)

\* stop is at timer k.  A queue it has cleared stays empty; of another, the
\* next item starts when the loop ends, or, with gotoEnd, as what runs ends.
Stops(e, k, g) ==
    /\ HandlersQueueNothing /\ NoDelays
    /\ queue[e] = <<>> => Halting(e, k)
    /\ queue[e] # <<>> => SentinelFirst(queue[e])
    /\ queue[e] # <<>> /\ ~g => Halting(e, k) /\ D(e) = 0
    /\ queue[e] # <<>> /\ g => R(e) + T(e) + D(e) = 1

\* finish is at timer k, or in the loop over what was queued: what that loop
\* starts is stopped at once.
Finishes(e, k) == HandlersQueueNothing /\ queue[e] = <<>> /\ Halting(e, k)
FinishesOld(e) ==
    /\ HandlersQueueNothing /\ queue[e] = <<>>
    /\ R(e) + T(e) <= 1
    /\ \A i \in Running(e) : ~Idle /\ Job = <<"force", i>>
    /\ Doing("start") /\ item[Job[2]].elem = e => item[Job[2]].kind = "anim"

OldOK(e, old) ==
    IsQueue(old, e) /\ \A m \in DOMAIN old : ~(Doing("start") /\ Job[2] = old[m])

\* Timer k is to be removed.
Over(k) == k \in DOMAIN timers /\ Settled(timers[k])

AllOrdinary == \A e \in Elements : Ordinary(e)
OthersOrdinary(e) == \A f \in Elements \ {e} : Ordinary(f)

\* No loop, or that of the tick.
CalmLoop(L) ==
    \/ L = <<>>
    \/ \E k \in Nat : L = <<<<"tick", k>>>>
    \/ \E k \in Nat, i \in Items : L = <<<<"ticked", k, i>>>> /\ Over(k + 1) /\ timers[k + 1] = i
Calm(L) == CalmLoop(L) /\ finishing = {} /\ AllOrdinary

\* The loop of stop, about to begin, or at timer k.  d says that it has not yet
\* stopped anything.
StopBegins(X, L, e, g) ==
    /\ L = <<<<"stopHooks", e, g>>>>
    /\ X = <<>> \/ (X = <<<<"dequeue", e>>>> /\ queue[e] = <<>>)
    /\ finishing = {} /\ OthersOrdinary(e)
    /\ Stops(e, Len(timers), g) /\ Halting(e, Len(timers))

StopAt(L, e, k, g, d) ==
    \/ L = <<<<"stopTimers", e, k, g, d>>>>
    \/ /\ L = <<<<"splice", k + 1>>, <<"stopTimers", e, k, g, d>>>>
       /\ ~d /\ Over(k + 1)
StopGoesOn(X, L, e, k, g, d) ==
    /\ StopAt(L, e, k, g, d) /\ k <= Len(timers)
    /\ d => X = <<>> /\ Halting(e, k)
    /\ finishing = {} /\ OthersOrdinary(e)
    /\ Stops(e, k, g)

\* The two loops of finish.
FinishAt(L, e, k, old) ==
    \/ L = <<<<"finishTimers", e, k>>, <<"finishOld", e, old>>>>
    \/ /\ L = <<<<"splice", k + 1>>, <<"finishTimers", e, k>>, <<"finishOld", e, old>>>>
       /\ Over(k + 1)
FinishGoesOn(L, e, k, old) ==
    /\ FinishAt(L, e, k, old) /\ k <= Len(timers)
    /\ finishing = {e} /\ OthersOrdinary(e)
    /\ Finishes(e, k) /\ OldOK(e, old)

FinishEnds(L, e, old) ==
    /\ L = <<<<"finishOld", e, old>>>>
    /\ finishing = {e} /\ OthersOrdinary(e)
    /\ FinishesOld(e) /\ OldOK(e, old)

LoopOK(X, L) ==
    \/ Calm(L)
    \/ \E e \in Elements, g \in BOOLEAN : StopBegins(X, L, e, g)
    \/ \E e \in Elements, k \in Nat, g, d \in BOOLEAN : StopGoesOn(X, L, e, k, g, d)
    \/ \E e \in Elements, k \in Nat, old \in Seq(Items \cup {"inprogress"}) :
        FinishGoesOn(L, e, k, old)
    \/ \E e \in Elements, old \in Seq(Items \cup {"inprogress"}) : FinishEnds(L, e, old)

\* The jobs are the short ones of X and the loop L.
Turn(X, L) == todo = X \o L /\ Short(X) /\ L \in Seq(JobSet) /\ LoopOK(X, L)

StateOK == ItemsOK /\ QueuesOK /\ TimersOK /\ HooksOK /\ NothingQueued

IInv == StateOK /\ finishing \subseteq Elements /\ \E X, L : Turn(X, L)
-----------------------------------------------------------------------------
(* Sequences, and how often something is in one.                           *)

\* A count is a number, and 0 in the empty sequence.
LEMMA CountType ==
    ASSUME NEW S, NEW s \in Seq(S), NEW j
    PROVE  Count(s, j) \in Nat /\ IsFiniteSet({n \in DOMAIN s : s[n] = j})
<1>1. IsFiniteSet(DOMAIN s)
  BY LenProperties, FS_Interval
<1>2. {n \in DOMAIN s : s[n] = j} \in SUBSET DOMAIN s
  OBVIOUS
<1>3. QED
  BY <1>1, <1>2, FS_Subset, FS_CardinalityType DEF Count

\* Nothing is in an empty list.
LEMMA CountEmpty ==
    ASSUME NEW j
    PROVE  Count(<<>>, j) = 0
<1>1. {n \in DOMAIN <<>> : <<>>[n] = j} = {}
  OBVIOUS
<1>2. QED
  BY <1>1, FS_EmptySet DEF Count

\* One job is in its list once.
LEMMA CountOne ==
    ASSUME NEW x, NEW j
    PROVE  Count(<<x>>, j) = IF x = j THEN 1 ELSE 0
<1>1. {n \in DOMAIN <<x>> : <<x>>[n] = j} = IF x = j THEN {1} ELSE {}
  OBVIOUS
<1>2. QED
  BY <1>1, FS_EmptySet, FS_Singleton DEF Count

\* It adds up over a concatenation.
LEMMA CountConcat ==
    ASSUME NEW S, NEW s \in Seq(S), NEW t \in Seq(S), NEW j
    PROVE  Count(s \o t, j) = Count(s, j) + Count(t, j)
<1> DEFINE A == {n \in DOMAIN s : s[n] = j}
           B == {n \in DOMAIN t : t[n] = j}
           C == {n \in (Len(s) + 1)..(Len(s) + Len(t)) : t[n - Len(s)] = j}
           f == [n \in B |-> n + Len(s)]
<1>1. /\ Len(s) \in Nat /\ Len(t) \in Nat
      /\ DOMAIN s = 1..Len(s) /\ DOMAIN t = 1..Len(t)
      /\ DOMAIN (s \o t) = 1..(Len(s) + Len(t))
      /\ \A n \in 1..(Len(s) + Len(t)) :
            (s \o t)[n] = IF n <= Len(s) THEN s[n] ELSE t[n - Len(s)]
  BY LenProperties, ConcatProperties
<1>2. {n \in DOMAIN (s \o t) : (s \o t)[n] = j} = A \cup C
  BY <1>1
<1>3. A \cap C = {}
  BY <1>1
<1>4. IsFiniteSet(A) /\ IsFiniteSet(B) /\ Cardinality(A) \in Nat /\ Cardinality(B) \in Nat
  BY CountType DEF Count
<1>5. f \in Bijection(B, C)
  <2>1. f \in [B -> C]
    BY <1>1
  <2>2. \A m, n \in B : f[m] = f[n] => m = n
    BY <1>1
  <2>3. \A c \in C : \E n \in B : f[n] = c
    <3>1. ASSUME NEW c \in C
          PROVE  c - Len(s) \in B /\ f[c - Len(s)] = c
      BY <1>1
    <3>2. QED
      BY <3>1
  <2>4. QED
    BY <2>1, <2>2, <2>3, Zenon DEF Bijection, Injection, Surjection, IsInjective
<1>6. IsFiniteSet(C) /\ Cardinality(C) = Cardinality(B)
  BY <1>4, <1>5, FS_Bijection DEF ExistsBijection
<1>7. Cardinality(A \cup C) = Cardinality(A) + Cardinality(C) - Cardinality(A \cap C)
  BY <1>4, <1>6, FS_Union
<1>8. Cardinality(A \cap C) = 0
  BY <1>3, FS_EmptySet
<1>9. /\ Count(s, j) = Cardinality(A) /\ Count(t, j) = Cardinality(B)
      /\ Count(s \o t, j) = Cardinality(A \cup C)
  BY <1>2 DEF Count
<1> HIDE DEF A, B, C
<1>10. QED
  BY <1>4, <1>6, <1>7, <1>8, <1>9

\* The jobs after the top one gave way to others.
AfterTop(X, jobs) == jobs \o Tail(X)

\* Y has the jobs, and then those of X but the first.
IsAfterTop(Y, X, jobs) ==
    /\ Len(X) \in Nat /\ Len(X) > 0 /\ Len(jobs) \in Nat
    /\ DOMAIN X = 1..Len(X) /\ DOMAIN jobs = 1..Len(jobs) /\ DOMAIN Y = 1..Len(Y)
    /\ Len(Y) = Len(jobs) + Len(X) - 1
    /\ \A n \in 1..Len(jobs) : Y[n] = jobs[n]
    /\ \A n \in (Len(jobs) + 1)..(Len(jobs) + Len(X) - 1) : Y[n] = X[n - Len(jobs) + 1]

Goes(S, X, L, jobs) ==
    /\ AfterTop(X, jobs) \in Seq(S)
    /\ AfterTop(X \o L, jobs) = AfterTop(X, jobs) \o L
    /\ X \o L # <<>> /\ Head(X \o L) = X[1] /\ X[1] \in S
    /\ IsAfterTop(AfterTop(X, jobs), X, jobs)

\* What they are, if the top one is of X.
LEMMA AfterTopFacts ==
    ASSUME NEW S, NEW X \in Seq(S), NEW L \in Seq(S), NEW jobs \in Seq(S), X # <<>>
    PROVE  Goes(S, X, L, jobs)
<1>1. /\ Tail(X) \in Seq(S) /\ Len(Tail(X)) = Len(X) - 1
      /\ \A n \in 1..(Len(X) - 1) : Tail(X)[n] = X[n + 1]
      /\ Head(X) \in S /\ Len(X) \in Nat /\ Len(X) > 0 /\ Head(X) = X[1]
  BY HeadTailProperties, LenProperties, EmptySeq
<1>2. X = <<Head(X)>> \o Tail(X)
  OBVIOUS
<1>3. X \o L = <<Head(X)>> \o (Tail(X) \o L)
  <2>1. <<Head(X)>> \in Seq(S)
    BY <1>1
  <2>2. QED
    BY <1>1, <1>2, <2>1, ConcatAssociative
<1>4. Tail(X) \o L \in Seq(S)
  BY <1>1, ConcatProperties
<1>5. X \o L # <<>> /\ Head(X \o L) = X[1] /\ Tail(X \o L) = Tail(X) \o L
  BY <1>1, <1>3, <1>4
<1>6. jobs \o (Tail(X) \o L) = (jobs \o Tail(X)) \o L
  BY <1>1, ConcatAssociative
<1>7. /\ jobs \o Tail(X) \in Seq(S) /\ Len(jobs \o Tail(X)) = Len(jobs) + Len(X) - 1
      /\ Len(jobs) \in Nat
      /\ \A n \in 1..(Len(jobs) + Len(X) - 1) : (jobs \o Tail(X))[n] =
            IF n <= Len(jobs) THEN jobs[n] ELSE Tail(X)[n - Len(jobs)]
  BY <1>1, ConcatProperties, LenProperties
<1>8. \A n \in (Len(jobs) + 1)..(Len(jobs) + Len(X) - 1) :
        (jobs \o Tail(X))[n] = X[n - Len(jobs) + 1]
  BY <1>1, <1>7
<1>9. DOMAIN X = 1..Len(X) /\ DOMAIN jobs = 1..Len(jobs)
  BY LenProperties
<1>10. DOMAIN (jobs \o Tail(X)) = 1..Len(jobs \o Tail(X))
  BY <1>7, LenProperties
<1>11. IsAfterTop(jobs \o Tail(X), X, jobs)
  BY <1>1, <1>7, <1>8, <1>9, <1>10 DEF IsAfterTop
<1>12. QED
  BY <1>1, <1>5, <1>6, <1>7, <1>11, Zenon DEF AfterTop, Goes

\* How often a job is among them.
LEMMA AfterTopCount ==
    ASSUME NEW S, NEW s \in Seq(S), NEW jobs \in Seq(S), s # <<>>, NEW j
    PROVE  Count(AfterTop(s, jobs), j) =
                Count(s, j) + Count(jobs, j) - (IF Head(s) = j THEN 1 ELSE 0)
<1>1. Tail(s) \in Seq(S) /\ Head(s) \in S /\ <<Head(s)>> \in Seq(S)
  BY HeadTailProperties
<1>2. s = <<Head(s)>> \o Tail(s)
  OBVIOUS
<1>3. Count(s, j) = Count(<<Head(s)>>, j) + Count(Tail(s), j)
  BY <1>1, <1>2, CountConcat
<1>4. Count(AfterTop(s, jobs), j) = Count(jobs, j) + Count(Tail(s), j)
  BY <1>1, CountConcat DEF AfterTop
<1>5. Count(Tail(s), j) \in Nat /\ Count(jobs, j) \in Nat
  BY <1>1, CountType
<1>6. Count(<<Head(s)>>, j) = IF Head(s) = j THEN 1 ELSE 0
  BY CountOne
<1>7. QED
  BY <1>3, <1>4, <1>5, <1>6

\* Changing whether one element is in a finite set changes how many it has.
LEMMA SetChange ==
    ASSUME NEW U, NEW V, NEW i, NEW b \in BOOLEAN, IsFiniteSet(U),
           V = IF b THEN U \cup {i} ELSE U \ {i}
    PROVE  /\ Cardinality(U) \in Nat /\ Cardinality(V) \in Nat
           /\ Cardinality(V) = Cardinality(U) - (IF i \in U THEN 1 ELSE 0) + (IF b THEN 1 ELSE 0)
<1>1. Cardinality(U) \in Nat
  BY FS_CardinalityType
<1>2. CASE b
  BY <1>1, <1>2, FS_AddElement, FS_CardinalityType
<1>3. CASE ~b
  BY <1>1, <1>3, FS_RemoveElement, FS_CardinalityType
<1>4. QED
  BY <1>2, <1>3

\* Without the element at k.
LEMMA RemoveAtFacts ==
    ASSUME NEW S, NEW s \in Seq(S), NEW k \in 1..Len(s)
    PROVE  /\ RemoveAt(s, k) \in Seq(S)
           /\ Len(RemoveAt(s, k)) = Len(s) - 1
           /\ \A n \in 1..(Len(s) - 1) :
                RemoveAt(s, k)[n] = IF n < k THEN s[n] ELSE s[n + 1]
<1>1. Len(s) \in Nat /\ k \in Nat /\ \A n \in 1..Len(s) : s[n] \in S
  BY LenProperties, ElementOfSeq
<1> DEFINE a == SubSeq(s, 1, k - 1)
           b == SubSeq(s, k + 1, Len(s))
<1>2. /\ a \in Seq(S) /\ Len(a) = k - 1
      /\ \A n \in 1..(k - 1) : a[n] = s[n]
  <2>1. \A n \in 1..(k - 1) : s[n] \in S
    BY <1>1
  <2>2. 1 \in Int /\ k - 1 \in Int
    BY <1>1
  <2>3. QED
    BY <1>1, <2>1, <2>2, SubSeqProperties
<1>3. /\ b \in Seq(S) /\ Len(b) = Len(s) - k
      /\ \A n \in 1..(Len(s) - k) : b[n] = s[k + n]
  <2>1. \A n \in (k + 1)..Len(s) : s[n] \in S
    BY <1>1
  <2>2. k + 1 \in Int /\ Len(s) \in Int
    BY <1>1
  <2>3. QED
    BY <1>1, <2>1, <2>2, SubSeqProperties
<1> HIDE DEF a, b
<1>4. /\ a \o b \in Seq(S) /\ Len(a \o b) = Len(s) - 1
      /\ \A n \in 1..(Len(s) - 1) : (a \o b)[n] = IF n <= k - 1 THEN a[n] ELSE b[n - (k - 1)]
  BY <1>1, <1>2, <1>3, ConcatProperties
<1>5. ASSUME NEW n \in 1..(Len(s) - 1)
      PROVE  (a \o b)[n] = IF n < k THEN s[n] ELSE s[n + 1]
  <2>1. CASE n < k
    BY <1>1, <1>2, <1>4, <2>1
  <2>2. CASE ~(n < k)
    <3>1. n - (k - 1) \in 1..(Len(s) - k) /\ k + (n - (k - 1)) = n + 1
      BY <1>1, <2>2
    <3>2. b[n - (k - 1)] = s[n + 1]
      BY <1>3, <3>1
    <3>3. n \in Int /\ ~(n <= k - 1) /\ ~(n < k)
      BY <1>1, <2>2
    <3>4. (a \o b)[n] = b[n - (k - 1)]
      BY <1>4, <3>3
    <3>5. QED
      BY <3>2, <3>3, <3>4
  <2>3. QED
    BY <2>1, <2>2
<1>6. QED
  BY <1>4, <1>5 DEF RemoveAt, a, b

-----------------------------------------------------------------------------
(* The top job.                                                            *)

ShortKinds == {"dequeue", "unqueued", "start", "handler", "always", "force"}
HandlerKinds == {"handler", "always"}

\* What kind a short job is of, and what it is about.
LEMMA ShortFacts ==
    ASSUME NEW j, ShortOK(j)
    PROVE  /\ j[1] \in ShortKinds
           /\ j[1] \in {"dequeue", "unqueued"} => j[2] \in Elements /\ j = <<j[1], j[2]>>
           /\ j[1] \in HandlerKinds \cup {"start", "force"} => j[2] \in Items /\ j = <<j[1], j[2]>>
           /\ j[1] = "start" => StartOK(j[2])
           /\ j[1] \in HandlerKinds \cup {"force"} => HandlerOK(j[2])
           /\ j[1] = "force" => finishing # {}
<1>1. CASE \E e \in Elements : j = <<"dequeue", e>> \/ j = <<"unqueued", e>>
  BY <1>1 DEF ShortKinds, HandlerKinds
<1>2. CASE \E i \in Items : j = <<"start", i>> /\ StartOK(i)
  BY <1>2 DEF ShortKinds, HandlerKinds
<1>3. CASE \E i \in Items : (j = <<"handler", i>> \/ j = <<"always", i>>) /\ HandlerOK(i)
  BY <1>3 DEF ShortKinds, HandlerKinds
<1>4. CASE \E i \in Items : j = <<"force", i>> /\ HandlerOK(i) /\ finishing # {}
  BY <1>4 DEF ShortKinds, HandlerKinds
<1>5. QED
  BY <1>1, <1>2, <1>3, <1>4 DEF ShortOK

\* A loop begins with a job that is not short.
LEMMA LoopTop ==
    ASSUME NEW X, NEW L, LoopOK(X, L), L # <<>>
    PROVE  Head(L)[1] \notin ShortKinds
<1>1. CASE Calm(L)
  BY <1>1 DEF Calm, CalmLoop, ShortKinds
<1>2. CASE \E e \in Elements, g \in BOOLEAN : StopBegins(X, L, e, g)
  BY <1>2 DEF StopBegins, ShortKinds
<1>3. CASE \E e \in Elements, k \in Nat, g, d \in BOOLEAN : StopGoesOn(X, L, e, k, g, d)
  BY <1>3 DEF StopGoesOn, StopAt, ShortKinds
<1>4. CASE \E e \in Elements, k \in Nat, old \in Seq(Items \cup {"inprogress"}) :
            FinishGoesOn(L, e, k, old)
  BY <1>4 DEF FinishGoesOn, FinishAt, ShortKinds
<1>5. CASE \E e \in Elements, old \in Seq(Items \cup {"inprogress"}) : FinishEnds(L, e, old)
  BY <1>5 DEF FinishEnds, ShortKinds
<1>6. QED
  BY <1>1, <1>2, <1>3, <1>4, <1>5 DEF LoopOK

\* The top job is the first short one, or else the loop's.
LEMMA TopJob ==
    ASSUME NEW X, NEW L, Turn(X, L)
    PROVE  /\ X \in Seq(JobSet) /\ L \in Seq(JobSet) /\ todo \in Seq(JobSet)
           /\ X # <<>> => /\ ~Idle /\ Job = X[1] /\ Job \in JobSet
                          /\ ShortOK(Job) /\ Job[1] \in ShortKinds
           /\ X = <<>> => todo = L /\ (~Idle => Job[1] \notin ShortKinds)
           /\ Idle => X = <<>> /\ L = <<>>
<1>1. /\ X \in Seq(JobSet) /\ L \in Seq(JobSet) /\ todo \in Seq(JobSet)
      /\ todo = X \o L
  BY ConcatProperties DEF Turn, Short
<1>2. CASE X # <<>>
  <2>1. todo # <<>> /\ Head(todo) = X[1] /\ X[1] \in JobSet
    <3>1. Goes(JobSet, X, L, X)
      BY <1>1, <1>2, AfterTopFacts
    <3>2. QED
      BY <1>1, <3>1 DEF Goes
  <2>2. 1 \in DOMAIN X
    BY <1>1, <1>2, EmptySeq, LenProperties
  <2>3. ShortOK(X[1])
    BY <2>2 DEF Turn, Short
  <2>4. QED
    BY <1>1, <1>2, <2>1, <2>3, ShortFacts DEF Idle, Job
<1>3. CASE X = <<>>
  <2>1. todo = L
    BY <1>1, <1>3, ConcatEmptySeq
  <2>2. L # <<>> => Head(L)[1] \notin ShortKinds
    BY LoopTop DEF Turn
  <2>3. QED
    BY <1>1, <1>3, <2>1, <2>2 DEF Idle, Job
<1>4. QED
  BY <1>2, <1>3

\* A job of a short kind is a short job.
LEMMA TopIsShort ==
    ASSUME NEW X, NEW L, Turn(X, L), ~Idle, Job[1] \in ShortKinds
    PROVE  X # <<>> /\ Job = X[1] /\ ShortOK(Job)
BY TopJob

\* One of another kind is the loop's, and then there are no short jobs.
LEMMA TopIsLoop ==
    ASSUME NEW X, NEW L, Turn(X, L), ~Idle, Job[1] \notin ShortKinds
    PROVE  X = <<>> /\ todo = L
BY TopJob

-----------------------------------------------------------------------------
(* The jobs of the next state.                                             *)

NewJobs(jobs) ==
    \A n \in DOMAIN jobs : ShortOK(jobs[n]) /\ (jobs[n][1] = "start" => n = 1)

StartsWith(s) == s # <<>> /\ Head(s)[1] = "start"

\* What is started or settled remains so, and what is to be forced is.
Kept ==
    /\ \A i \in Items : HandlerOK(i) => HandlerOK(i)'
    /\ \A i \in Items : Settled(i) => Settled(i)'
    /\ finishing' = finishing

\* A short job that is no start remains right.
LEMMA ShortOKKept ==
    ASSUME NEW j, ShortOK(j), j[1] # "start", Kept
    PROVE  ShortOK(j)'
<1>1. CASE \E e \in Elements : j = <<"dequeue", e>> \/ j = <<"unqueued", e>>
  BY <1>1 DEF ShortOK
<1>2. CASE \E i \in Items : j = <<"start", i>> /\ StartOK(i)
  BY <1>2
<1>3. CASE \E i \in Items : (j = <<"handler", i>> \/ j = <<"always", i>>) /\ HandlerOK(i)
  BY <1>3 DEF ShortOK, Kept
<1>4. CASE \E i \in Items : j = <<"force", i>> /\ HandlerOK(i) /\ finishing # {}
  BY <1>4 DEF ShortOK, Kept
<1>5. QED
  BY <1>1, <1>2, <1>3, <1>4 DEF ShortOK

\* After the top job, some new ones, and then the rest.
Follows(X, L, jobs, Y) ==
    /\ X \in Seq(JobSet) /\ L \in Seq(JobSet) /\ jobs \in Seq(JobSet)
    /\ X # <<>> /\ todo = X \o L /\ Y = AfterTop(X, jobs) /\ todo' = AfterTop(todo, jobs)

\* The jobs that follow a short one are below what it leaves.
LEMMA FollowsFacts ==
    ASSUME NEW X, NEW L, NEW jobs, NEW Y, Follows(X, L, jobs, Y)
    PROVE  Y \in Seq(JobSet) /\ L \in Seq(JobSet) /\ todo' = Y \o L /\ IsAfterTop(Y, X, jobs)
<1>1. /\ X \in Seq(JobSet) /\ L \in Seq(JobSet) /\ jobs \in Seq(JobSet)
      /\ X # <<>> /\ todo = X \o L /\ Y = AfterTop(X, jobs) /\ todo' = AfterTop(todo, jobs)
  BY DEF Follows
<1>2. Goes(JobSet, X, L, jobs)
  BY <1>1, AfterTopFacts
<1>3. QED
  BY <1>1, <1>2 DEF Goes

\* They are short, if the new ones are; and only one of them is a start.
LEMMA FollowsShort ==
    ASSUME NEW X, NEW L, NEW jobs, NEW Y, Follows(X, L, jobs, Y),
           Short(X), NewJobs(jobs)', Kept
    PROVE  todo' = Y \o L /\ Short(Y)'
<1>1. Y \in Seq(JobSet) /\ todo' = Y \o L /\ IsAfterTop(Y, X, jobs)
  BY FollowsFacts
<1>2. /\ Len(jobs) \in Nat /\ Len(X) \in Nat
      /\ DOMAIN jobs = 1..Len(jobs) /\ DOMAIN X = 1..Len(X) /\ DOMAIN Y = 1..Len(Y)
      /\ Len(Y) = Len(jobs) + Len(X) - 1
      /\ \A n \in 1..Len(jobs) : Y[n] = jobs[n]
      /\ \A n \in (Len(jobs) + 1)..(Len(jobs) + Len(X) - 1) : Y[n] = X[n - Len(jobs) + 1]
  BY <1>1 DEF IsAfterTop
<1>3. ASSUME NEW n \in DOMAIN Y
      PROVE  ShortOK(Y[n])' /\ (Y[n][1] = "start" => n = 1)
  <2>1. CASE n <= Len(jobs)
    <3>1. n \in DOMAIN jobs /\ Y[n] = jobs[n]
      BY <1>1, <1>2, <2>1
    <3>2. QED
      BY <3>1 DEF NewJobs
  <2>2. CASE ~(n <= Len(jobs))
    <3>1. PICK m \in DOMAIN X : m # 1 /\ Y[n] = X[m]
      <4>1. n - Len(jobs) + 1 \in DOMAIN X /\ n - Len(jobs) + 1 # 1
        BY <1>1, <1>2, <2>2
      <4>2. Y[n] = X[n - Len(jobs) + 1]
        <5>1. n \in (Len(jobs) + 1)..(Len(jobs) + Len(X) - 1)
          BY <1>2, <2>2
        <5>2. QED
          BY <1>2, <5>1
      <4>3. QED
        BY <4>1, <4>2
    <3>2. ShortOK(X[m]) /\ X[m][1] # "start"
      BY <3>1 DEF Short
    <3>3. QED
      BY <3>1, <3>2, ShortOKKept
  <2>3. QED
    BY <2>1, <2>2
<1>4. QED
  BY <1>1, <1>3 DEF Short

\* They start with a start only if the new ones do.
LEMMA FollowsStart ==
    ASSUME NEW X, NEW L, NEW jobs, NEW Y, Follows(X, L, jobs, Y), Turn(X, L),
           ~StartsWith(jobs)
    PROVE  ~StartsWith(todo')
<1>1. Y \in Seq(JobSet) /\ L \in Seq(JobSet) /\ todo' = Y \o L /\ IsAfterTop(Y, X, jobs)
  BY FollowsFacts
<1>2. /\ Len(jobs) \in Nat /\ Len(X) \in Nat /\ Len(X) > 0
      /\ DOMAIN jobs = 1..Len(jobs) /\ DOMAIN X = 1..Len(X) /\ DOMAIN Y = 1..Len(Y)
      /\ Len(Y) = Len(jobs) + Len(X) - 1
      /\ \A n \in 1..Len(jobs) : Y[n] = jobs[n]
      /\ \A n \in (Len(jobs) + 1)..(Len(jobs) + Len(X) - 1) : Y[n] = X[n - Len(jobs) + 1]
  BY <1>1 DEF IsAfterTop
<1>3. CASE Y = <<>>
  <2>1. todo' = L
    BY <1>1, <1>3, ConcatEmptySeq
  <2>2. L # <<>> => Head(L)[1] \notin ShortKinds
    BY LoopTop DEF Turn
  <2>3. QED
    BY <2>1, <2>2 DEF StartsWith, ShortKinds
<1>4. CASE Y # <<>>
  <2>1. Head(todo') = Y[1]
    <3>1. Goes(JobSet, Y, L, Y)
      BY <1>1, <1>4, AfterTopFacts
    <3>2. QED
      BY <1>1, <3>1 DEF Goes
  <2>2. CASE Len(jobs) > 0
    <3>1. Y[1] = jobs[1] /\ jobs # <<>> /\ Head(jobs) = jobs[1]
      <4>1. 1 \in 1..Len(jobs)
        BY <1>2, <2>2
      <4>2. jobs # <<>>
        BY <2>2
      <4>3. Head(jobs) = jobs[1]
        BY <4>2
      <4>4. QED
        BY <1>2, <4>1, <4>2, <4>3
    <3>2. QED
      BY <2>1, <3>1 DEF StartsWith
  <2>3. CASE ~(Len(jobs) > 0)
    <3>1. Len(jobs) = 0 /\ Len(Y) > 0
      BY <1>1, <1>2, <1>4, <2>3, EmptySeq
    <3>2. 2 \in DOMAIN X /\ Y[1] = X[2]
      BY <1>1, <1>2, <3>1
    <3>3. X[2][1] # "start"
      BY <3>2 DEF Turn, Short
    <3>4. QED
      BY <2>1, <3>2, <3>3 DEF StartsWith
  <2>4. QED
    BY <2>2, <2>3
<1>5. QED
  BY <1>3, <1>4

-----------------------------------------------------------------------------
(* What a step does to the right to go on.                                 *)

NumbersOK ==
    \A e \in Elements : R(e) \in Nat /\ T(e) \in {0, 1} /\ D(e) \in Nat

\* The right is passed on, to a call of dequeue if nothing starts: by a start,
\* or by what is forced to its end; or nothing happens to it.
TokenMove(e) ==
    /\ queue'[e] = queue[e]
    /\ Idle \/ Job # <<"dequeue", e>>
    /\ T(e)' = 0
    /\ R(e)' + D(e)' = R(e) + T(e) + D(e)
    /\ R(e)' <= R(e) + T(e)
    /\ T(e) = 0 => Running(e)' \subseteq Running(e)
    /\ T(e) = 0 /\ finishing = {} => R(e)' = R(e)
    /\ FinishesOld(e) => \A i \in Running(e)' : todo' # <<>> /\ Head(todo') = <<"force", i>>

\* dequeue passes it on to a start, or ends it.
DequeueMove(e) ==
    /\ ~Idle /\ Job = <<"dequeue", e>>
    /\ Running(e)' = Running(e) /\ R(e)' = R(e)
    /\ T(e) = 0
    /\ D(e)' = D(e) - 1
    /\ \/ queue'[e] = <<>> /\ T(e)' = 0
       \/ queue[e] # <<>> /\ queue'[e] # <<>> /\ SentinelFirst(queue'[e]) /\ T(e)' = 1

\* clearQueue calls dequeue where nothing is queued.
ClearMove(e) ==
    /\ queue[e] = <<>> /\ queue'[e] = <<>> /\ HandlersQueueNothing
    /\ Idle \/ Job[1] \in HandlerKinds
    /\ Running(e)' = Running(e) /\ R(e)' = R(e)
    /\ T(e) = 0 /\ T(e)' = 0
    /\ D(e)' = D(e) + 1

Move(e) == TokenMove(e) \/ DequeueMove(e) \/ ClearMove(e)

\* No timer is removed.
TimersGrow ==
    /\ Len(timers) \in Nat /\ DOMAIN timers = 1..Len(timers)
    /\ Len(timers) <= Len(timers')
    /\ \A m \in DOMAIN timers : m \in DOMAIN timers' /\ timers'[m] = timers[m]

\* What waits goes on to, except what starts.
PendingKept ==
    \A i \in Items, e \in Elements :
        Pending(i, e) /\ ~(Doing("start") /\ Job[2] = i) => Pending(i, e)'

\* What a call of dequeue starts was in the queue; else it is new.
NewStart ==
    StartsWith(todo') =>
        /\ Head(todo')[2] \in Items
        /\ \/ item[Head(todo')[2]].st = "new" /\ item'[Head(todo')[2]].kind = "anim"
           \/ \E f \in Elements :
                Pending(Head(todo')[2], f) /\ queue[f] # <<>> /\ item'[Head(todo')[2]].elem = f

\* What is on top of the jobs is what is done next.
LEMMA StartsNext == Doing("start")' = StartsWith(todo') /\ Job' = Head(todo')
BY DEF Doing, StartsWith, Job, Idle

\* An ordinary queue stays one when the right to go on with it is passed on.
LEMMA OrdinaryMove ==
    ASSUME NEW e \in Elements, Ordinary(e), Move(e), NumbersOK, NumbersOK'
    PROVE  Ordinary(e)'
<1>1. /\ R(e) \in Nat /\ T(e) \in {0, 1} /\ D(e) \in Nat
      /\ R(e)' \in Nat /\ T(e)' \in {0, 1} /\ D(e)' \in Nat
  BY DEF NumbersOK
<1>2. /\ queue[e] # <<>> => R(e) + T(e) + D(e) = 1
      /\ queue[e] = <<>> => R(e) = 0 /\ T(e) = 0 /\ (D(e) = 0 \/ HandlersQueueNothing)
      /\ queue[e] # <<>> /\ ~SentinelFirst(queue[e]) => ~Idle /\ Job = <<"dequeue", e>>
  BY DEF Ordinary
<1>3. SUFFICES /\ queue'[e] # <<>> => R(e)' + T(e)' + D(e)' = 1
               /\ queue'[e] = <<>> =>
                    R(e)' = 0 /\ T(e)' = 0 /\ (D(e)' = 0 \/ HandlersQueueNothing)
               /\ queue'[e] = <<>> \/ SentinelFirst(queue'[e])
  BY DEF Ordinary
<1>4. CASE TokenMove(e)
  BY <1>1, <1>2, <1>4 DEF TokenMove
<1>5. CASE DequeueMove(e)
  BY <1>1, <1>2, <1>5 DEF DequeueMove
<1>6. CASE ClearMove(e)
  BY <1>1, <1>2, <1>6 DEF ClearMove
<1>7. QED
  BY <1>4, <1>5, <1>6 DEF Move

\* What a loop has already stopped stays stopped while its short jobs run.
LEMMA HaltingMove ==
    ASSUME NEW e \in Elements, NEW k \in Nat, Halting(e, k), NumbersOK, NumbersOK',
           TimersGrow, k <= Len(timers),
           R(e)' <= R(e), T(e)' = 0, Running(e)' \subseteq Running(e)
    PROVE  Halting(e, k)'
<1>1. R(e) \in Nat /\ R(e)' \in Nat
  BY DEF NumbersOK
<1>2. R(e)' <= 1
  BY <1>1 DEF Halting
<1>3. ASSUME NEW i \in Running(e)'
      PROVE  \E m \in 1..k : timers'[m] = i
  <2>1. PICK m \in 1..k : timers[m] = i
    BY <1>3 DEF Halting, Below
  <2>2. timers'[m] = timers[m]
    BY <2>1 DEF TimersGrow
  <2>3. QED
    BY <2>1, <2>2
<1>4. QED
  BY <1>2, <1>3 DEF Halting, Below

\* The loop of stop keeps its hold on its element while short jobs run above it.
LEMMA StopsMove ==
    ASSUME NEW e \in Elements, NEW k \in Nat, NEW g \in BOOLEAN, Stops(e, k, g), Move(e),
           NumbersOK, NumbersOK', TimersGrow, k <= Len(timers), finishing = {},
           NoDelays => NoDelays'
    PROVE  Stops(e, k, g)'
<1>1. /\ R(e) \in Nat /\ T(e) \in {0, 1} /\ D(e) \in Nat
      /\ R(e)' \in Nat /\ T(e)' \in {0, 1} /\ D(e)' \in Nat
  BY DEF NumbersOK
<1>2. /\ HandlersQueueNothing /\ NoDelays'
      /\ queue[e] = <<>> => Halting(e, k)
      /\ queue[e] # <<>> => SentinelFirst(queue[e])
      /\ queue[e] # <<>> /\ ~g => Halting(e, k) /\ D(e) = 0
      /\ queue[e] # <<>> /\ g => R(e) + T(e) + D(e) = 1
  BY DEF Stops
<1>3. Halting(e, k) => T(e) = 0 /\ R(e) <= 1
  BY DEF Halting
<1>4. SUFFICES /\ queue'[e] = <<>> => Halting(e, k)'
               /\ queue'[e] # <<>> => SentinelFirst(queue'[e])
               /\ queue'[e] # <<>> /\ ~g => Halting(e, k)' /\ D(e)' = 0
               /\ queue'[e] # <<>> /\ g => R(e)' + T(e)' + D(e)' = 1
  BY <1>2 DEF Stops
<1>5. CASE TokenMove(e)
  <2>1. /\ queue'[e] = queue[e] /\ T(e)' = 0 /\ R(e)' + D(e)' = R(e) + T(e) + D(e)
        /\ T(e) = 0 => Running(e)' \subseteq Running(e) /\ R(e)' = R(e)
    BY <1>5 DEF TokenMove
  <2>2. Halting(e, k) => Halting(e, k)'
    BY <1>1, <1>3, <2>1, HaltingMove
  <2>3. QED
    BY <1>1, <1>2, <1>3, <2>1, <2>2
<1>6. CASE DequeueMove(e)
  <2>1. /\ Running(e)' = Running(e) /\ R(e)' = R(e) /\ T(e) = 0 /\ D(e)' = D(e) - 1
        /\ \/ queue'[e] = <<>> /\ T(e)' = 0
           \/ queue[e] # <<>> /\ queue'[e] # <<>> /\ SentinelFirst(queue'[e]) /\ T(e)' = 1
    BY <1>6 DEF DequeueMove
  <2>2. Halting(e, k) /\ T(e)' = 0 => Halting(e, k)'
    BY <1>1, <2>1, HaltingMove
  <2>3. R(e)' = 0 /\ T(e)' = 0 => Halting(e, k)'
    <3>1. Running(e)' \subseteq Items
      BY DEF Running
    <3>2. R(e)' = 0 => Running(e)' = {}
      <4>1. IsFiniteSet(Running(e)')
        BY <3>1, FS_Subset, FxAssumption
      <4>2. QED
        BY <4>1, FS_EmptySet DEF R
    <3>3. QED
      BY <1>1, <3>2 DEF Halting, Below
  <2>4. QED
    BY <1>1, <1>2, <1>3, <2>1, <2>2, <2>3
<1>7. CASE ClearMove(e)
  <2>1. /\ queue[e] = <<>> /\ queue'[e] = <<>>
        /\ Running(e)' = Running(e) /\ R(e)' = R(e) /\ T(e)' = 0
    BY <1>7 DEF ClearMove
  <2>2. QED
    BY <1>1, <1>2, <2>1, HaltingMove
<1>8. QED
  BY <1>5, <1>6, <1>7 DEF Move

\* So does the loop of finish over the timers.
LEMMA FinishesMove ==
    ASSUME NEW e \in Elements, NEW k \in Nat, Finishes(e, k), Move(e),
           NumbersOK, NumbersOK', TimersGrow, k <= Len(timers)
    PROVE  Finishes(e, k)'
<1>1. /\ R(e) \in Nat /\ T(e) \in {0, 1} /\ D(e) \in Nat
      /\ R(e)' \in Nat /\ T(e)' \in {0, 1} /\ D(e)' \in Nat
  BY DEF NumbersOK
<1>2. HandlersQueueNothing /\ queue[e] = <<>> /\ Halting(e, k) /\ T(e) = 0
  BY DEF Finishes, Halting
<1>3. /\ queue'[e] = <<>> /\ T(e)' = 0 /\ R(e)' <= R(e)
      /\ Running(e)' \subseteq Running(e)
  <2>1. CASE TokenMove(e)
    BY <1>1, <1>2, <2>1 DEF TokenMove
  <2>2. CASE DequeueMove(e)
    BY <1>1, <1>2, <2>2 DEF DequeueMove
  <2>3. CASE ClearMove(e)
    BY <1>1, <1>2, <2>3 DEF ClearMove
  <2>4. QED
    BY <2>1, <2>2, <2>3 DEF Move
<1>4. Halting(e, k)'
  BY <1>2, <1>3, HaltingMove
<1>5. QED
  BY <1>2, <1>3, <1>4 DEF Finishes

\* So does its loop over the old queue, where nothing is queued any more.
LEMMA FinishesOldMove ==
    ASSUME NEW e \in Elements, FinishesOld(e), Move(e), NumbersOK, NumbersOK', NewStart,
           QueuesOK, ItemsOK, ItemsOK'
    PROVE  FinishesOld(e)'
<1>1. /\ R(e) \in Nat /\ T(e) \in {0, 1} /\ D(e) \in Nat
      /\ R(e)' \in Nat /\ T(e)' \in {0, 1} /\ D(e)' \in Nat
  BY DEF NumbersOK
<1>2. /\ HandlersQueueNothing /\ queue[e] = <<>> /\ R(e) + T(e) <= 1
      /\ \A i \in Running(e) : ~Idle /\ Job = <<"force", i>>
  BY DEF FinishesOld
<1>3. /\ queue'[e] = <<>> /\ T(e)' = 0 /\ R(e)' <= R(e) + T(e)
      /\ \A i \in Running(e)' : todo' # <<>> /\ Head(todo') = <<"force", i>>
  <2>1. CASE TokenMove(e)
    BY <1>1, <1>2, <2>1 DEF TokenMove
  <2>2. CASE DequeueMove(e)
    <3>1. Running(e) = {}
      BY <1>2, <2>2 DEF DequeueMove
    <3>2. QED
      BY <1>1, <1>2, <2>2, <3>1 DEF DequeueMove
  <2>3. CASE ClearMove(e)
    <3>1. Running(e) = {}
      BY <1>2, <2>3 DEF ClearMove, HandlerKinds
    <3>2. QED
      BY <1>1, <1>2, <2>3, <3>1 DEF ClearMove
  <2>4. QED
    BY <2>1, <2>2, <2>3 DEF Move
<1>4. StartsWith(todo') /\ item'[Head(todo')[2]].elem = e => item'[Head(todo')[2]].kind = "anim"
  BY <1>2 DEF NewStart
<1>5. \A i \in Running(e)' : (~Idle /\ Job = <<"force", i>>)'
  BY <1>3 DEF Idle, Job
<1>6. (Doing("start") /\ item[Job[2]].elem = e => item[Job[2]].kind = "anim")'
  BY <1>4, StartsNext
<1>7. R(e)' + T(e)' <= 1
  BY <1>1, <1>2, <1>3
<1>8. HandlersQueueNothing' /\ queue'[e] = <<>>
  BY <1>2, <1>3
<1>9. QED
  BY <1>5, <1>6, <1>7, <1>8 DEF FinishesOld

\* What is left of the old queue stays pending where nothing of it starts.
LEMMA OldMove ==
    ASSUME NEW e \in Elements, NEW old, OldOK(e, old), PendingKept, NewStart, queue[e] = <<>>
    PROVE  OldOK(e, old)'
<1>1. /\ old \in Seq(Items \cup {"inprogress"})
      /\ \A m \in DOMAIN old : old[m] = "inprogress" \/ Pending(old[m], e)
      /\ \A m, n \in DOMAIN old : old[m] = old[n] => m = n
      /\ \A m \in DOMAIN old : ~(Doing("start") /\ Job[2] = old[m])
  BY DEF OldOK, IsQueue
<1>2. ASSUME NEW m \in DOMAIN old
      PROVE  old[m] = "inprogress" \/ Pending(old[m], e)'
  <2>1. Pending(old[m], e) => old[m] \in Items
    BY DEF Pending
  <2>2. QED
    BY <1>1, <2>1 DEF PendingKept
<1>3. ASSUME NEW m \in DOMAIN old, StartsWith(todo'), Head(todo')[2] = old[m]
      PROVE  FALSE
  <2>1. CASE Pending(old[m], e)
    BY <1>3, <2>1 DEF Pending, NewStart
  <2>2. CASE old[m] = "inprogress"
    BY <1>3, <2>2, FxAssumption DEF NewStart
  <2>3. QED
    BY <1>1, <2>1, <2>2
<1>4. QED
  BY <1>1, <1>2, <1>3, StartsNext DEF OldOK, IsQueue

-----------------------------------------------------------------------------
(* A step of the short jobs keeps what the loop is at.                     *)

\* A timer that is over stays over.
LEMMA OverKept ==
    ASSUME NEW k, Over(k), TimersGrow, Kept, timers \in Seq(Items)
    PROVE  Over(k)' /\ timers'[k] = timers[k]
<1>1. k \in DOMAIN timers /\ Settled(timers[k]) /\ timers[k] \in Items
  BY ElementOfSeq, LenProperties DEF Over
<1>2. k \in DOMAIN timers' /\ timers'[k] = timers[k]
  BY <1>1 DEF TimersGrow
<1>3. ASSUME NEW i \in Items, Settled(i)
      PROVE  Settled(i)'
  BY <1>3 DEF Kept
<1>4. PICK i \in Items : i = timers[k]
  BY <1>1
<1>5. Settled(i)'
  BY <1>1, <1>3, <1>4
<1>6. timers'[k] = i
  BY <1>2, <1>4
<1>7. QED
  BY <1>2, <1>4, <1>5, <1>6 DEF Over, Settled

ShortMove(X, L, Y) ==
    /\ todo' = Y \o L /\ Short(Y)' /\ (X # <<>> \/ L = <<>>)
    /\ \A e \in Elements : X = <<<<"dequeue", e>>>> /\ queue[e] = <<>> =>
        Y = <<>> /\ timers' = timers
    /\ \A e \in Elements : Move(e)
    /\ TimersGrow /\ Kept /\ PendingKept /\ NewStart
    /\ HandlersQueueNothing => (NoDelays => NoDelays')

\* A move of the short jobs leaves the loop below them as it is.
LEMMA ShortMoveKeepsTurn ==
    ASSUME NEW X, NEW L, NEW Y, Turn(X, L), ShortMove(X, L, Y), NumbersOK, NumbersOK',
           ItemsOK, ItemsOK', QueuesOK, timers \in Seq(Items)
    PROVE  Turn(Y, L)'
<1>1. /\ Short(Y)' /\ todo' = Y \o L /\ L \in Seq(JobSet) /\ LoopOK(X, L)
      /\ X # <<>> \/ L = <<>>
      /\ TimersGrow /\ Kept /\ PendingKept /\ NewStart
      /\ finishing' = finishing
      /\ HandlersQueueNothing => (NoDelays => NoDelays')
      /\ Len(timers) <= Len(timers') /\ Len(timers) \in Nat /\ Len(timers') \in Nat
  <2>1. DOMAIN timers' = DOMAIN timers'
    OBVIOUS
  <2>2. QED
    BY DEF Turn, ShortMove, Kept, TimersGrow
<1>2. \A e \in Elements : Ordinary(e) => Ordinary(e)'
  <2>1. ASSUME NEW e \in Elements, Ordinary(e)
        PROVE  Ordinary(e)'
    BY <2>1, OrdinaryMove DEF ShortMove
  <2>2. QED
    BY <2>1
<1>3. AllOrdinary => AllOrdinary'
  BY <1>2 DEF AllOrdinary
<1>4. \A e \in Elements : OthersOrdinary(e) => OthersOrdinary(e)'
  <2>1. ASSUME NEW e \in Elements, OthersOrdinary(e)
        PROVE  OthersOrdinary(e)'
    BY <1>2, <2>1 DEF OthersOrdinary
  <2>2. QED
    BY <2>1
<1>5. CASE Calm(L)
  <2>1. CalmLoop(L)'
    <3>1. CASE L = <<>> \/ \E k \in Nat : L = <<<<"tick", k>>>>
      BY <3>1 DEF CalmLoop
    <3>2. CASE \E k \in Nat, i \in Items :
                L = <<<<"ticked", k, i>>>> /\ Over(k + 1) /\ timers[k + 1] = i
      <4>1. PICK k \in Nat, i \in Items :
                L = <<<<"ticked", k, i>>>> /\ Over(k + 1) /\ timers[k + 1] = i
        BY <3>2
      <4>2. Over(k + 1)' /\ timers'[k + 1] = i
        BY <1>1, <4>1, OverKept
      <4>3. QED
        BY <4>1, <4>2 DEF CalmLoop
    <3>3. QED
      BY <1>5, <3>1, <3>2 DEF Calm, CalmLoop
  <2>2. Calm(L)'
    BY <1>1, <1>3, <1>5, <2>1 DEF Calm
  <2>3. QED
    BY <1>1, <2>2 DEF Turn, LoopOK
<1>6. CASE \E e \in Elements, g \in BOOLEAN : StopBegins(X, L, e, g)
  <2>1. PICK e \in Elements, g \in BOOLEAN : StopBegins(X, L, e, g)
    BY <1>6
  <2>2. PICK k \in Nat : k = Len(timers)
    BY <1>1
  <2>3. /\ L = <<<<"stopHooks", e, g>>>> /\ finishing = {} /\ OthersOrdinary(e)
        /\ Stops(e, k, g) /\ Halting(e, k)
        /\ X = <<<<"dequeue", e>>>> /\ queue[e] = <<>>
    BY <1>1, <2>1, <2>2 DEF StopBegins
  <2>4. Y = <<>> /\ timers' = timers /\ Move(e)
    BY <2>3 DEF ShortMove
  <2>5. Stops(e, k, g)'
    <3>1. k <= Len(timers) /\ (NoDelays => NoDelays')
      BY <1>1, <2>2, <2>3 DEF Stops
    <3>2. QED
      BY <1>1, <2>3, <2>4, <3>1, StopsMove
  <2>6. queue'[e] = <<>>
    BY <2>3, <2>4 DEF Move, TokenMove, DequeueMove, ClearMove
  <2>7. Halting(e, k)'
    BY <2>5, <2>6 DEF Stops
  <2>8. k = Len(timers')
    BY <2>2, <2>4
  <2>9. Stops(e, Len(timers), g)' /\ Halting(e, Len(timers))'
    BY <2>5, <2>7, <2>8
  <2>10. StopBegins(Y, L, e, g)'
    BY <1>1, <1>4, <2>3, <2>4, <2>9 DEF StopBegins
  <2>11. QED
    BY <1>1, <2>10 DEF Turn, LoopOK
<1>7. CASE \E e \in Elements, k \in Nat, g, d \in BOOLEAN : StopGoesOn(X, L, e, k, g, d)
  <2>1. PICK e \in Elements, k \in Nat, g \in BOOLEAN, d \in BOOLEAN :
            StopGoesOn(X, L, e, k, g, d)
    BY <1>7
  <2>2. /\ StopAt(L, e, k, g, d) /\ k <= Len(timers)
        /\ d => X = <<>>
        /\ finishing = {} /\ OthersOrdinary(e) /\ Stops(e, k, g)
    BY <2>1 DEF StopGoesOn
  <2>3. ~d /\ L # <<>>
    <3>1. L # <<>>
      <4>1. CASE L = <<<<"stopTimers", e, k, g, d>>>>
        BY <4>1
      <4>2. CASE L = <<<<"splice", k + 1>>, <<"stopTimers", e, k, g, d>>>>
        BY <4>2
      <4>3. QED
        BY <2>2, <4>1, <4>2, Zenon DEF StopAt
    <3>2. QED
      BY <1>1, <2>2, <3>1
  <2>4. Stops(e, k, g)'
    <3>1. Move(e) /\ (NoDelays => NoDelays')
      BY <1>1, <2>2 DEF ShortMove, Stops
    <3>2. QED
      BY <1>1, <2>2, <3>1, StopsMove
  <2>5. StopAt(L, e, k, g, d)'
    <3>1. CASE L = <<<<"stopTimers", e, k, g, d>>>>
      BY <3>1 DEF StopAt
    <3>2. CASE L = <<<<"splice", k + 1>>, <<"stopTimers", e, k, g, d>>>> /\ Over(k + 1)
      <4>1. Over(k + 1)'
        BY <1>1, <3>2, OverKept
      <4>2. QED
        BY <2>3, <3>2, <4>1 DEF StopAt
    <3>3. QED
      BY <2>2, <3>1, <3>2 DEF StopAt
  <2>6. k <= Len(timers')
    BY <1>1, <2>2
  <2>7. StopGoesOn(Y, L, e, k, g, d)'
    BY <1>1, <1>4, <2>2, <2>3, <2>4, <2>5, <2>6 DEF StopGoesOn
  <2>8. QED
    BY <1>1, <2>7 DEF Turn, LoopOK
<1>8. CASE \E e \in Elements, k \in Nat, old \in Seq(Items \cup {"inprogress"}) :
            FinishGoesOn(L, e, k, old)
  <2>1. PICK e \in Elements, k \in Nat, old \in Seq(Items \cup {"inprogress"}) :
            FinishGoesOn(L, e, k, old)
    BY <1>8
  <2>2. /\ FinishAt(L, e, k, old) /\ k <= Len(timers)
        /\ finishing = {e} /\ OthersOrdinary(e) /\ Finishes(e, k) /\ OldOK(e, old)
    BY <2>1 DEF FinishGoesOn
  <2>3. Finishes(e, k)'
    <3>1. Move(e)
      BY DEF ShortMove
    <3>2. QED
      BY <1>1, <2>2, <3>1, FinishesMove
  <2>4. OldOK(e, old)'
    BY <1>1, <2>2, OldMove DEF Finishes
  <2>5. FinishAt(L, e, k, old)'
    <3>1. CASE L = <<<<"finishTimers", e, k>>, <<"finishOld", e, old>>>>
      BY <3>1 DEF FinishAt
    <3>2. CASE /\ L = <<<<"splice", k + 1>>, <<"finishTimers", e, k>>, <<"finishOld", e, old>>>>
               /\ Over(k + 1)
      <4>1. Over(k + 1)'
        BY <1>1, <3>2, OverKept
      <4>2. QED
        BY <3>2, <4>1 DEF FinishAt
    <3>3. QED
      BY <2>2, <3>1, <3>2 DEF FinishAt
  <2>6. k <= Len(timers')
    BY <1>1, <2>2
  <2>7. FinishGoesOn(L, e, k, old)'
    BY <1>1, <1>4, <2>2, <2>3, <2>4, <2>5, <2>6 DEF FinishGoesOn
  <2>8. QED
    BY <1>1, <2>7 DEF Turn, LoopOK
<1>9. CASE \E e \in Elements, old \in Seq(Items \cup {"inprogress"}) : FinishEnds(L, e, old)
  <2>1. PICK e \in Elements, old \in Seq(Items \cup {"inprogress"}) : FinishEnds(L, e, old)
    BY <1>9
  <2>2. /\ L = <<<<"finishOld", e, old>>>>
        /\ finishing = {e} /\ OthersOrdinary(e) /\ FinishesOld(e) /\ OldOK(e, old)
    BY <2>1 DEF FinishEnds
  <2>3. FinishesOld(e)'
    <3>1. Move(e)
      BY DEF ShortMove
    <3>2. QED
      BY <1>1, <2>2, <3>1, FinishesOldMove
  <2>4. OldOK(e, old)'
    BY <1>1, <2>2, OldMove DEF FinishesOld
  <2>5. FinishEnds(L, e, old)'
    BY <1>1, <1>4, <2>2, <2>3, <2>4 DEF FinishEnds
  <2>6. QED
    BY <1>1, <2>5 DEF Turn, LoopOK
<1>10. QED
  BY <1>1, <1>5, <1>6, <1>7, <1>8, <1>9 DEF LoopOK

-----------------------------------------------------------------------------
(* The jobs of a call, and counts.                                         *)

\* Some new jobs before all others, where no start is about to be done.
Calls(X, L, jobs, Y) ==
    /\ X \in Seq(JobSet) /\ L \in Seq(JobSet) /\ jobs \in Seq(JobSet)
    /\ todo = X \o L /\ Y = jobs \o X /\ todo' = jobs \o todo
    /\ ~Doing("start") /\ (X # <<>> \/ L = <<>>)

\* The jobs of a call are short ones, above the loop there was.
LEMMA CallsShort ==
    ASSUME NEW X, NEW L, NEW jobs, NEW Y, Calls(X, L, jobs, Y), Turn(X, L),
           NewJobs(jobs)', Kept
    PROVE  todo' = Y \o L /\ Short(Y)'
<1>1. /\ X \in Seq(JobSet) /\ L \in Seq(JobSet) /\ jobs \in Seq(JobSet)
      /\ todo = X \o L /\ Y = jobs \o X /\ todo' = jobs \o todo
      /\ ~Doing("start")
  BY DEF Calls
<1>2. todo' = Y \o L
  BY <1>1, ConcatAssociative, SMTT(20)
<1>3. /\ Y \in Seq(JobSet) /\ Len(Y) = Len(jobs) + Len(X)
      /\ \A n \in 1..(Len(jobs) + Len(X)) : Y[n] =
            IF n <= Len(jobs) THEN jobs[n] ELSE X[n - Len(jobs)]
  BY <1>1, ConcatProperties
<1>4. /\ Len(jobs) \in Nat /\ Len(X) \in Nat
      /\ DOMAIN jobs = 1..Len(jobs) /\ DOMAIN X = 1..Len(X) /\ DOMAIN Y = 1..Len(Y)
  BY <1>1, <1>3, LenProperties
<1>5. \A n \in DOMAIN X : ShortOK(X[n]) /\ X[n][1] # "start"
  <2>1. \A n \in DOMAIN X : ShortOK(X[n]) /\ (X[n][1] = "start" => n = 1)
    BY DEF Turn, Short
  <2>2. X # <<>> => Job = X[1] /\ ~Idle
    BY TopJob
  <2>3. X # <<>> => X[1][1] # "start"
    BY <1>1, <2>2 DEF Doing
  <2>4. QED
    BY <1>1, <2>1, <2>3
<1>6. ASSUME NEW n \in DOMAIN Y
      PROVE  ShortOK(Y[n])' /\ (Y[n][1] = "start" => n = 1)
  <2>1. CASE n <= Len(jobs)
    <3>1. n \in DOMAIN jobs /\ Y[n] = jobs[n]
      BY <1>3, <1>4, <2>1
    <3>2. QED
      BY <3>1 DEF NewJobs
  <2>2. CASE ~(n <= Len(jobs))
    <3>1. n - Len(jobs) \in DOMAIN X /\ Y[n] = X[n - Len(jobs)]
      BY <1>3, <1>4, <2>2
    <3>2. ShortOK(Y[n]) /\ Y[n][1] # "start"
      BY <1>5, <3>1
    <3>3. QED
      BY <3>2, ShortOKKept
  <2>3. QED
    BY <2>1, <2>2
<1>7. QED
  BY <1>2, <1>3, <1>6 DEF Short

\* A call that starts nothing leaves nothing on the point of starting.
LEMMA CallsStart ==
    ASSUME NEW X, NEW L, NEW jobs, NEW Y, Calls(X, L, jobs, Y), ~StartsWith(jobs)
    PROVE  ~StartsWith(todo')
<1>1. /\ jobs \in Seq(JobSet) /\ todo \in Seq(JobSet) /\ todo' = jobs \o todo
      /\ ~Doing("start")
  BY ConcatProperties DEF Calls
<1>2. CASE jobs = <<>>
  <2>1. todo' = todo
    BY <1>1, <1>2, ConcatEmptySeq
  <2>2. QED
    BY <1>1, <2>1 DEF Doing, StartsWith, Idle, Job
<1>3. CASE jobs # <<>>
  <2>1. Goes(JobSet, jobs, todo, jobs)
    BY <1>1, <1>3, AfterTopFacts
  <2>2. Head(todo') = jobs[1] /\ Head(jobs) = jobs[1]
    BY <1>1, <1>3, <2>1 DEF Goes
  <2>3. QED
    BY <1>3, <2>2 DEF StartsWith
<1>4. QED
  BY <1>2, <1>3

\* How often a job is then to be done.
LEMMA CallsCount ==
    ASSUME NEW X, NEW L, NEW jobs, NEW Y, Calls(X, L, jobs, Y), NEW j
    PROVE  /\ Count(todo', j) = Count(todo, j) + Count(jobs, j)
           /\ Count(todo, j) \in Nat /\ todo' \in Seq(JobSet)
<1>1. /\ X \in Seq(JobSet) /\ L \in Seq(JobSet) /\ jobs \in Seq(JobSet)
      /\ todo = X \o L /\ todo' = jobs \o todo
  BY DEF Calls
<1>2. todo \in Seq(JobSet)
  BY <1>1, ConcatProperties
<1>3. todo' \in Seq(JobSet)
  BY <1>1, <1>2, ConcatProperties
<1>4. Count(jobs \o todo, j) = Count(jobs, j) + Count(todo, j)
  BY <1>1, <1>2, CountConcat
<1>5. Count(jobs, j) \in Nat /\ Count(todo, j) \in Nat
  BY <1>1, <1>2, CountType
<1>6. QED
  BY <1>1, <1>3, <1>4, <1>5

\* The jobs that follow are those of the step, without the one it has done.
LEMMA FollowsCount ==
    ASSUME NEW X, NEW L, NEW jobs, NEW Y, Follows(X, L, jobs, Y), NEW j
    PROVE  /\ Count(todo', j) =
                Count(todo, j) + Count(jobs, j) - (IF Job = j THEN 1 ELSE 0)
           /\ Count(todo, j) \in Nat /\ todo' \in Seq(JobSet)
<1>1. /\ X \in Seq(JobSet) /\ L \in Seq(JobSet) /\ jobs \in Seq(JobSet)
      /\ todo = X \o L /\ todo' = AfterTop(todo, jobs) /\ X # <<>>
  BY DEF Follows
<1>2. Goes(JobSet, X, L, jobs)
  BY <1>1, AfterTopFacts
<1>3. todo \in Seq(JobSet) /\ todo # <<>>
  BY <1>1, <1>2, ConcatProperties DEF Goes
<1>4. todo' \in Seq(JobSet)
  BY <1>1, <1>2, ConcatProperties DEF Goes
<1>5. Count(AfterTop(todo, jobs), j) =
            Count(todo, j) + Count(jobs, j) - (IF Head(todo) = j THEN 1 ELSE 0)
  BY <1>1, <1>3, AfterTopCount, ZenonT(40)
<1>6. Count(todo, j) \in Nat
  BY <1>3, CountType
<1>7. QED
  BY <1>1, <1>4, <1>5, <1>6 DEF Job

\* What there is of running animations is a number.
LEMMA CardinalityTypes ==
    ASSUME NEW e \in Elements
    PROVE  /\ IsFiniteSet(Running(e)) /\ Cardinality(Running(e)) \in Nat
           /\ IsFiniteSet(RunningUnqueued(e)) /\ Cardinality(RunningUnqueued(e)) \in Nat
           /\ IsFiniteSet(StartedUnqueued(e)) /\ Cardinality(StartedUnqueued(e)) \in Nat
           /\ Cardinality(StartedUnqueued(e)) <= Cardinality(Items)
           /\ Cardinality(Running(e)') \in Nat
<1>1. /\ Running(e) \in SUBSET Items /\ RunningUnqueued(e) \in SUBSET Items
      /\ StartedUnqueued(e) \in SUBSET Items /\ Running(e)' \in SUBSET Items
  BY DEF Running, RunningUnqueued, StartedUnqueued
<1>2. QED
  BY <1>1, FS_Subset, FS_CardinalityType, FxAssumption

\* The numbers of those with the right to go on are numbers.
LEMMA Numbers ==
    ASSUME todo \in Seq(JobSet), todo' \in Seq(JobSet)
    PROVE  NumbersOK /\ NumbersOK'
<1>1. \A e \in Elements : R(e) \in Nat /\ R(e)' \in Nat
  BY CardinalityTypes DEF R
<1>2. \A e \in Elements : T(e) \in {0, 1} /\ T(e)' \in {0, 1}
  BY DEF T
<1>3. \A e \in Elements : D(e) \in Nat /\ D(e)' \in Nat
  BY CountType DEF D
<1>4. QED
  BY <1>1, <1>2, <1>3 DEF NumbersOK

\* Where nothing starts, no start has the right to.
LEMMA NoStart ==
    ASSUME NEW e \in Elements
    PROVE  /\ ~Doing("start") => T(e) = 0
           /\ ~StartsWith(todo') => T(e)' = 0
<1>1. ~Doing("start") => T(e) = 0
  BY DEF T
<1>2. ~Doing("start")' => T(e)' = 0
  BY DEF T
<1>3. QED
  BY <1>1, <1>2, StartsNext

-----------------------------------------------------------------------------
(* What happens to an item.                                                *)

\* i goes on to s, and nothing else is changed that matters here.
Turns(i, s) ==
    /\ item' \in [Items -> ItemSet]
    /\ \A k \in Items : k # i => item'[k] = item[k]
    /\ item'[i].st = s /\ item'[i].kind = item[i].kind
    /\ item'[i].elem = item[i].elem /\ item'[i].queued = item[i].queued

\* i is a new item of e: it waits, or is an animation that is over at once.
Arrives(i, e, kind, queued) ==
    /\ item' \in [Items -> ItemSet]
    /\ \A k \in Items : k # i => item'[k] = item[k]
    /\ item[i].kind = None
    /\ item'[i].st = "waiting" \/ (item'[i].st = "resolved" /\ kind = "anim" /\ queued)
    /\ item'[i].kind = kind /\ item'[i].elem = e /\ item'[i].queued = queued

EndStates == {"running", "resolved", "rejected"}

\* The sets of running and started animations change by i.
LEMMA TurnsSets ==
    ASSUME ItemsOK, NEW i \in Items, NEW s \in EndStates, Turns(i, s), NEW e \in Elements
    PROVE  /\ Running(e)' = IF item[i].elem = e /\ item[i].queued /\ s = "running"
                            THEN Running(e) \cup {i} ELSE Running(e) \ {i}
           /\ RunningUnqueued(e)' = IF item[i].elem = e /\ ~item[i].queued /\ s = "running"
                            THEN RunningUnqueued(e) \cup {i} ELSE RunningUnqueued(e) \ {i}
           /\ StartedUnqueued(e)' = IF item[i].elem = e /\ ~item[i].queued
                            THEN StartedUnqueued(e) \cup {i} ELSE StartedUnqueued(e) \ {i}
<1> USE DEF Turns, EndStates
<1>1. \A k \in Items : k # i => item'[k] = item[k]
  OBVIOUS
<1>2. Running(e)' = IF item[i].elem = e /\ item[i].queued /\ s = "running"
                    THEN Running(e) \cup {i} ELSE Running(e) \ {i}
  BY <1>1 DEF Running
<1>3. RunningUnqueued(e)' = IF item[i].elem = e /\ ~item[i].queued /\ s = "running"
                            THEN RunningUnqueued(e) \cup {i} ELSE RunningUnqueued(e) \ {i}
  BY <1>1 DEF RunningUnqueued
<1>4. StartedUnqueued(e)' = IF item[i].elem = e /\ ~item[i].queued
                            THEN StartedUnqueued(e) \cup {i} ELSE StartedUnqueued(e) \ {i}
  BY <1>1 DEF StartedUnqueued, Started
<1>5. QED
  BY <1>2, <1>3, <1>4

\* And so do their numbers.
LEMMA TurnsCounts ==
    ASSUME ItemsOK, NEW i \in Items, NEW s \in EndStates, Turns(i, s), NEW e \in Elements
    PROVE  /\ R(e)' = R(e) - (IF i \in Running(e) THEN 1 ELSE 0)
                + (IF item[i].elem = e /\ item[i].queued /\ s = "running" THEN 1 ELSE 0)
           /\ Cardinality(RunningUnqueued(e)') =
                Cardinality(RunningUnqueued(e)) - (IF i \in RunningUnqueued(e) THEN 1 ELSE 0)
                + (IF item[i].elem = e /\ ~item[i].queued /\ s = "running" THEN 1 ELSE 0)
           /\ Cardinality(StartedUnqueued(e)') =
                Cardinality(StartedUnqueued(e)) - (IF i \in StartedUnqueued(e) THEN 1 ELSE 0)
                + (IF item[i].elem = e /\ ~item[i].queued THEN 1 ELSE 0)
<1>1. item[i].queued \in BOOLEAN
  BY DEF ItemsOK, ItemSet
<1>2. PICK b \in BOOLEAN : b = (item[i].elem = e /\ item[i].queued /\ s = "running")
  OBVIOUS
<1>3. PICK c \in BOOLEAN : c = (item[i].elem = e /\ ~item[i].queued /\ s = "running")
  OBVIOUS
<1>4. PICK d \in BOOLEAN : d = (item[i].elem = e /\ ~item[i].queued)
  OBVIOUS
<1>5. /\ Running(e)' = IF b THEN Running(e) \cup {i} ELSE Running(e) \ {i}
      /\ RunningUnqueued(e)' =
            IF c THEN RunningUnqueued(e) \cup {i} ELSE RunningUnqueued(e) \ {i}
      /\ StartedUnqueued(e)' =
            IF d THEN StartedUnqueued(e) \cup {i} ELSE StartedUnqueued(e) \ {i}
  <2>1. /\ Running(e)' = IF item[i].elem = e /\ item[i].queued /\ s = "running"
                          THEN Running(e) \cup {i} ELSE Running(e) \ {i}
        /\ RunningUnqueued(e)' = IF item[i].elem = e /\ ~item[i].queued /\ s = "running"
                                  THEN RunningUnqueued(e) \cup {i}
                                  ELSE RunningUnqueued(e) \ {i}
        /\ StartedUnqueued(e)' = IF item[i].elem = e /\ ~item[i].queued
                                  THEN StartedUnqueued(e) \cup {i}
                                  ELSE StartedUnqueued(e) \ {i}
    BY TurnsSets
  <2>2. Running(e)' = IF b THEN Running(e) \cup {i} ELSE Running(e) \ {i}
    BY <1>2, <2>1
  <2>3. RunningUnqueued(e)' =
            IF c THEN RunningUnqueued(e) \cup {i} ELSE RunningUnqueued(e) \ {i}
    BY <1>3, <2>1
  <2>4. StartedUnqueued(e)' =
            IF d THEN StartedUnqueued(e) \cup {i} ELSE StartedUnqueued(e) \ {i}
    BY <1>4, <2>1
  <2>5. QED
    BY <2>2, <2>3, <2>4
<1>6. /\ IsFiniteSet(Running(e)) /\ IsFiniteSet(RunningUnqueued(e))
      /\ IsFiniteSet(StartedUnqueued(e))
  BY CardinalityTypes
<1>7. Cardinality(Running(e)') =
        Cardinality(Running(e)) - (IF i \in Running(e) THEN 1 ELSE 0) + (IF b THEN 1 ELSE 0)
  BY <1>5, <1>6, SetChange
<1>8. Cardinality(RunningUnqueued(e)') =
        Cardinality(RunningUnqueued(e)) - (IF i \in RunningUnqueued(e) THEN 1 ELSE 0)
        + (IF c THEN 1 ELSE 0)
  BY <1>5, <1>6, SetChange
<1>9. Cardinality(StartedUnqueued(e)') =
        Cardinality(StartedUnqueued(e)) - (IF i \in StartedUnqueued(e) THEN 1 ELSE 0)
        + (IF d THEN 1 ELSE 0)
  BY <1>5, <1>6, SetChange
<1>10. QED
  BY <1>2, <1>3, <1>4, <1>7, <1>8, <1>9 DEF R

\* Where a new item arrives they remain.
LEMMA ArrivesSets ==
    ASSUME ItemsOK, NEW i \in Items, NEW f \in Elements, NEW kind \in {"anim", "delay"},
           NEW queued \in BOOLEAN, Arrives(i, f, kind, queued), NEW e \in Elements
    PROVE  /\ Running(e)' = Running(e)
           /\ RunningUnqueued(e)' = RunningUnqueued(e)
           /\ StartedUnqueued(e)' = StartedUnqueued(e)
<1>1. /\ item[i].st = "new" /\ item'[i].st # "running"
      /\ ~item'[i].queued => item'[i].st = "waiting"
  BY DEF ItemsOK, ItemOK, Arrives
<1>2. \A k \in Items : k # i => item'[k] = item[k]
  BY DEF Arrives
<1>3. QED
  BY <1>1, <1>2 DEF Running, RunningUnqueued, StartedUnqueued, Started

\* A step that sets the state of an item is one in which it turns.
LEMMA StTurns ==
    ASSUME ItemsOK, NEW i \in Items, item[i].kind # None, NEW s \in EndStates,
           s = "running" => ~Settled(i), item' = [item EXCEPT ![i].st = s]
    PROVE  Turns(i, s) /\ ItemsOK'
<1>1. /\ item \in [Items -> ItemSet] /\ item[i] \in ItemSet
      /\ \A k \in Items : ItemOK(k)
  BY DEF ItemsOK
<1>2. item'[i] = [item[i] EXCEPT !.st = s] /\ \A k \in Items : k # i => item'[k] = item[k]
  BY <1>1
<1>3. [item[i] EXCEPT !.st = s] \in ItemSet
  BY <1>1 DEF ItemSet, EndStates
<1>4. item' \in [Items -> ItemSet]
  BY <1>1, <1>3
<1>5. Turns(i, s)
  BY <1>1, <1>2, <1>4 DEF Turns, ItemSet
<1>6. ASSUME NEW k \in Items
      PROVE  ItemOK(k)'
  <2>1. CASE k # i
    BY <1>1, <1>2, <2>1 DEF ItemOK, Settled
  <2>2. CASE k = i
    <3>1. /\ item'[i].kind = item[i].kind /\ item'[i].elem = item[i].elem
          /\ item'[i].queued = item[i].queued /\ item'[i].stopped = item[i].stopped
          /\ item'[i].st = s
      BY <1>1, <1>2 DEF ItemSet
    <3>2. ItemOK(i)
      BY <1>1
    <3>3. QED
      BY <2>2, <3>1, <3>2 DEF ItemOK, Settled, EndStates
  <2>3. QED
    BY <2>1, <2>2
<1>7. QED
  BY <1>4, <1>5, <1>6 DEF ItemsOK

\* An animation that is stopped turns, to its end if it runs.
LEMMA StoppedTurns ==
    ASSUME ItemsOK, NEW i \in Items, HandlerOK(i), NEW g \in BOOLEAN,
           item' = [item EXCEPT ![i] = Stopped(i, g)]
    PROVE  /\ ItemsOK'
           /\ Turns(i, IF item[i].st = "running" THEN IF g THEN "resolved" ELSE "rejected"
                       ELSE item[i].st)
<1>1. /\ item \in [Items -> ItemSet] /\ item[i] \in ItemSet
      /\ \A k \in Items : ItemOK(k)
  BY DEF ItemsOK
<1> DEFINE s == IF item[i].st = "running" THEN IF g THEN "resolved" ELSE "rejected"
                ELSE item[i].st
<1>2. item'[i] = Stopped(i, g) /\ \A k \in Items : k # i => item'[k] = item[k]
  BY <1>1
<1>3. /\ Stopped(i, g) \in ItemSet
      /\ Stopped(i, g).st = s /\ Stopped(i, g).kind = item[i].kind
      /\ Stopped(i, g).elem = item[i].elem /\ Stopped(i, g).queued = item[i].queued
  BY <1>1 DEF ItemSet, Stopped
<1>4. s \in {"resolved", "rejected"}
  BY <1>1 DEF HandlerOK, Started, ItemSet
<1> HIDE DEF s
<1>5. item' \in [Items -> ItemSet]
  BY <1>1, <1>3
<1>6. Turns(i, s)
  BY <1>2, <1>3, <1>5 DEF Turns
<1>7. ASSUME NEW k \in Items
      PROVE  ItemOK(k)'
  <2>1. CASE k # i
    BY <1>1, <1>2, <2>1 DEF ItemOK, Settled
  <2>2. CASE k = i
    <3>1. ItemOK(i) /\ item[i].kind = "anim"
      BY <1>1 DEF HandlerOK
    <3>2. item[i].st # "new"
      BY <3>1, FxAssumption DEF ItemOK, HandlerOK, Started
    <3>3. QED
      BY <1>2, <1>3, <1>4, <2>2, <3>1, <3>2 DEF ItemOK, Settled
  <2>3. QED
    BY <2>1, <2>2
<1>8. QED
  BY <1>5, <1>6, <1>7 DEF ItemsOK, s

\* An animation that goes on turns to what it is.
LEMMA TickTurns ==
    ASSUME ItemsOK, NEW i \in Items, item[i].kind # None, item[i].st = "running",
           item' = [item EXCEPT ![i].ticks = @ + 1]
    PROVE  Turns(i, "running") /\ ItemsOK'
<1>1. /\ item \in [Items -> ItemSet] /\ item[i] \in ItemSet
      /\ \A k \in Items : ItemOK(k)
  BY DEF ItemsOK
<1>2. /\ item'[i] = [item[i] EXCEPT !.ticks = @ + 1]
      /\ \A k \in Items : k # i => item'[k] = item[k]
  BY <1>1
<1>3. [item[i] EXCEPT !.ticks = @ + 1] \in ItemSet
  BY <1>1 DEF ItemSet
<1>4. item' \in [Items -> ItemSet]
  BY <1>1, <1>3
<1>5. /\ item'[i].kind = item[i].kind /\ item'[i].elem = item[i].elem
      /\ item'[i].queued = item[i].queued /\ item'[i].stopped = item[i].stopped
      /\ item'[i].st = item[i].st
  BY <1>1, <1>2 DEF ItemSet
<1>6. \A k \in Items : ItemOK(k)'
  BY <1>1, <1>2, <1>5 DEF ItemOK, Settled
<1>7. QED
  BY <1>2, <1>4, <1>5, <1>6 DEF ItemsOK, Turns

\* A new item.
IsNewItem(x, kind, e, queued) ==
    /\ x \in ItemSet /\ x.kind = kind /\ x.elem = e /\ x.queued = queued
    /\ \/ x.st = "waiting" /\ x.stopped = FALSE
       \/ x.st = "resolved" /\ kind = "anim" /\ queued

\* A new animation or delay leaves the others as they are.
LEMMA ItemArrives ==
    ASSUME ItemsOK, Unused, NEW i \in Items, New(i), NEW e \in Elements,
           NEW kind \in {"anim", "delay"}, NEW queued \in BOOLEAN,
           kind = "delay" => queued /\ UsesDelays,
           NEW x, IsNewItem(x, kind, e, queued), item' = [item EXCEPT ![i] = x]
    PROVE  Arrives(i, e, kind, queued) /\ ItemsOK'
<1>1. item \in [Items -> ItemSet] /\ \A k \in Items : ItemOK(k)
  BY DEF ItemsOK
<1>2. item[i].kind = None
  BY DEF Unused, New
<1>3. /\ x \in ItemSet /\ x.kind = kind /\ x.elem = e /\ x.queued = queued
      /\ \/ x.st = "waiting" /\ x.stopped = FALSE
         \/ x.st = "resolved" /\ kind = "anim" /\ queued
  BY DEF IsNewItem
<1>4. item'[i] = x /\ \A k \in Items : k # i => item'[k] = item[k]
  BY <1>1
<1>5. item' \in [Items -> ItemSet]
  BY <1>1, <1>3
<1>6. ASSUME NEW k \in Items
      PROVE  ItemOK(k)'
  <2>1. CASE k # i
    BY <1>1, <1>4, <2>1 DEF ItemOK, Settled
  <2>2. CASE k = i
    BY <1>3, <1>4, <2>2, FxAssumption DEF ItemOK, Settled
  <2>3. QED
    BY <2>1, <2>2
<1>7. QED
  BY <1>2, <1>3, <1>4, <1>5, <1>6 DEF ItemsOK, Arrives

-----------------------------------------------------------------------------
(* What that leaves alone.                                                 *)

\* What waits goes on to.
AllPending == \A k \in Items, e \in Elements : Pending(k, e) => Pending(k, e)'
OthersPending(i) ==
    \A k \in Items, e \in Elements : k # i /\ Pending(k, e) => Pending(k, e)'

\* An item that turns to a later state keeps what is settled.
LEMMA TurnsKept ==
    ASSUME NEW i \in Items, NEW s \in EndStates, Turns(i, s),
           Settled(i) => s \in {"resolved", "rejected"}, finishing' = finishing
    PROVE  Kept /\ OthersPending(i) /\ (item[i].st # "waiting" => AllPending)
<1>1. /\ \A k \in Items : k # i => item'[k] = item[k]
      /\ item'[i].st = s /\ item'[i].kind = item[i].kind
      /\ item'[i].elem = item[i].elem /\ item'[i].queued = item[i].queued
  BY DEF Turns
<1>2. \A k \in Items : (HandlerOK(k) => HandlerOK(k)') /\ (Settled(k) => Settled(k)')
  BY <1>1 DEF HandlerOK, Settled, Started, EndStates
<1>3. OthersPending(i)
  BY <1>1 DEF OthersPending, Pending
<1>4. item[i].st # "waiting" => AllPending
  BY <1>1 DEF AllPending, Pending
<1>5. QED
  BY <1>2, <1>3, <1>4 DEF Kept

\* An item that arrives keeps what is settled, and what is pending.
LEMMA ArrivesKept ==
    ASSUME ItemsOK, NEW i \in Items, NEW e \in Elements, NEW kind \in {"anim", "delay"},
           NEW queued \in BOOLEAN, Arrives(i, e, kind, queued), finishing' = finishing
    PROVE  Kept /\ AllPending /\ item[i].st = "new"
<1>1. /\ \A k \in Items : k # i => item'[k] = item[k]
      /\ item[i].st = "new" /\ item[i].kind = None
  BY DEF Arrives, ItemsOK, ItemOK
<1>2. \A k \in Items : (HandlerOK(k) => HandlerOK(k)') /\ (Settled(k) => Settled(k)')
  BY <1>1 DEF HandlerOK, Settled, Started
<1>3. AllPending
  BY <1>1 DEF AllPending, Pending
<1>4. QED
  BY <1>1, <1>2, <1>3 DEF Kept

\* A step that changes no item keeps everything about them.
LEMMA SameKept ==
    ASSUME item' = item
    PROVE  /\ finishing' = finishing => Kept
           /\ AllPending /\ (ItemsOK => ItemsOK')
           /\ \A e \in Elements : /\ Running(e)' = Running(e) /\ R(e)' = R(e)
                                  /\ RunningUnqueued(e)' = RunningUnqueued(e)
                                  /\ StartedUnqueued(e)' = StartedUnqueued(e)
<1>1. /\ AllPending
      /\ \A k \in Items : (HandlerOK(k) => HandlerOK(k)') /\ (Settled(k) => Settled(k)')
  BY DEF AllPending, Pending, HandlerOK, Settled, Started
<1>2. ItemsOK => ItemsOK'
  BY DEF ItemsOK, ItemOK, Settled
<1>3. \A e \in Elements : /\ Running(e)' = Running(e) /\ R(e)' = R(e)
                          /\ RunningUnqueued(e)' = RunningUnqueued(e)
                          /\ StartedUnqueued(e)' = StartedUnqueued(e)
  BY DEF Running, R, RunningUnqueued, StartedUnqueued, Started
<1>4. QED
  BY <1>1, <1>2, <1>3 DEF Kept

\* A queue whose items wait remains one.
LEMMA IsQueueKept ==
    ASSUME NEW e \in Elements, NEW s, IsQueue(s, e),
           AllPending \/ \E i \in Items : OthersPending(i) /\ \A m \in DOMAIN s : s[m] # i
    PROVE  IsQueue(s, e)'
<1>1. /\ s \in Seq(Items \cup {"inprogress"})
      /\ \A m \in DOMAIN s : s[m] = "inprogress" \/ Pending(s[m], e)
      /\ \A m, n \in DOMAIN s : s[m] = s[n] => m = n
  BY DEF IsQueue
<1>2. ASSUME NEW m \in DOMAIN s, Pending(s[m], e)
      PROVE  Pending(s[m], e)'
  <2>1. s[m] \in Items
    BY <1>2 DEF Pending
  <2>2. CASE AllPending
    BY <1>2, <2>1, <2>2 DEF AllPending
  <2>3. CASE \E i \in Items : OthersPending(i) /\ \A n \in DOMAIN s : s[n] # i
    BY <1>2, <2>1, <2>3 DEF OthersPending
  <2>4. QED
    BY <2>2, <2>3
<1>3. QED
  BY <1>1, <1>2 DEF IsQueue

\* A queue that is not changed stays right while what is in it is pending.
LEMMA QueuesSame ==
    ASSUME QueuesOK, queue' = queue,
           AllPending \/ \E i \in Items : OthersPending(i) /\ StartOK(i)
    PROVE  QueuesOK'
<1>1. /\ queue \in [Elements -> Seq(Items \cup {"inprogress"})]
      /\ \A e \in Elements : QueueOK(e)
  BY DEF QueuesOK
<1>2. ASSUME NEW e \in Elements
      PROVE  QueueOK(e)'
  <2>1. /\ IsQueue(queue[e], e)
        /\ \A m \in DOMAIN queue[e] : queue[e][m] = "inprogress" => m = 1
    BY <1>1 DEF QueueOK
  <2>2. PICK s : s = queue[e]
    OBVIOUS
  <2>3. AllPending \/ \E i \in Items : OthersPending(i) /\ \A m \in DOMAIN s : s[m] # i
    BY <2>2 DEF StartOK
  <2>4. IsQueue(s, e)'
    BY <2>1, <2>2, <2>3, IsQueueKept
  <2>5. queue'[e] = s
    BY <2>2
  <2>6. IsQueue(queue[e], e)'
    BY <2>4, <2>5 DEF IsQueue, Pending
  <2>7. QED
    BY <2>1, <2>6 DEF QueueOK
<1>3. QED
  BY <1>1, <1>2 DEF QueuesOK

\* The timers, as an item turns that had one or needs none.
LEMMA TimersTurn ==
    ASSUME ItemsOK, TimersOK, timers' = timers, interval' = interval,
           NEW i \in Items, NEW s \in EndStates, Turns(i, s),
           s = "running" /\ item[i].kind = "anim" => item[i].st = "running"
    PROVE  TimersOK'
<1>1. /\ timers \in Seq(Items)
      /\ \A m, n \in DOMAIN timers : timers[m] = timers[n] => m = n
      /\ \A m \in DOMAIN timers : item[timers[m]].kind = "anim" /\ Started(timers[m])
      /\ \A k \in Items : item[k].kind = "anim" /\ item[k].st = "running" =>
            \E m \in DOMAIN timers : timers[m] = k
      /\ timers # <<>> => interval
      /\ \A m \in DOMAIN timers : timers[m] \in Items
  BY ElementOfSeq, LenProperties DEF TimersOK
<1>2. /\ \A k \in Items : k # i => item'[k] = item[k]
      /\ item'[i].st = s /\ item'[i].kind = item[i].kind
  BY DEF Turns
<1>3. \A m \in DOMAIN timers : item'[timers[m]].kind = "anim" /\ Started(timers[m])'
  BY <1>1, <1>2 DEF Started, EndStates
<1>4. \A k \in Items : item'[k].kind = "anim" /\ item'[k].st = "running" =>
            \E m \in DOMAIN timers : timers[m] = k
  BY <1>1, <1>2
<1>5. QED
  BY <1>1, <1>3, <1>4 DEF TimersOK, Started

\* An item that arrives disturbs no timer.
LEMMA TimersArrive ==
    ASSUME ItemsOK, TimersOK, timers' = timers, interval' = interval,
           NEW i \in Items, NEW e \in Elements, NEW kind \in {"anim", "delay"},
           NEW queued \in BOOLEAN, Arrives(i, e, kind, queued)
    PROVE  TimersOK'
<1>1. /\ timers \in Seq(Items)
      /\ \A m, n \in DOMAIN timers : timers[m] = timers[n] => m = n
      /\ \A m \in DOMAIN timers : item[timers[m]].kind = "anim" /\ Started(timers[m])
      /\ \A k \in Items : item[k].kind = "anim" /\ item[k].st = "running" =>
            \E m \in DOMAIN timers : timers[m] = k
      /\ timers # <<>> => interval
      /\ \A m \in DOMAIN timers : timers[m] \in Items
  BY ElementOfSeq, LenProperties DEF TimersOK
<1>2. /\ \A k \in Items : k # i => item'[k] = item[k]
      /\ item'[i].st \in {"waiting", "resolved"} /\ item[i].kind = None
      /\ item'[i].st = "waiting" \/ item'[i].kind # "delay"
  BY DEF Arrives
<1>3. \A m \in DOMAIN timers : timers[m] # i
  BY <1>1, <1>2, FxAssumption
<1>4. \A m \in DOMAIN timers : item'[timers[m]].kind = "anim" /\ Started(timers[m])'
  BY <1>1, <1>2, <1>3 DEF Started
<1>5. \A k \in Items : item'[k].kind = "anim" /\ item'[k].st = "running" =>
            \E m \in DOMAIN timers : timers[m] = k
  BY <1>1, <1>2
<1>6. QED
  BY <1>1, <1>4, <1>5 DEF TimersOK, Started

\* As an animation that starts gets one.
LEMMA TimersAppend ==
    ASSUME ItemsOK, TimersOK, NEW i \in Items, item[i].kind = "anim", item[i].st = "waiting",
           Turns(i, "running"), timers' = Append(timers, i), interval' = TRUE
    PROVE  TimersOK' /\ TimersGrow
<1>1. /\ timers \in Seq(Items)
      /\ \A m, n \in DOMAIN timers : timers[m] = timers[n] => m = n
      /\ \A m \in DOMAIN timers : item[timers[m]].kind = "anim" /\ Started(timers[m])
      /\ \A k \in Items : item[k].kind = "anim" /\ item[k].st = "running" =>
            \E m \in DOMAIN timers : timers[m] = k
      /\ \A m \in DOMAIN timers : timers[m] \in Items
  BY ElementOfSeq, LenProperties DEF TimersOK
<1>2. /\ timers' \in Seq(Items) /\ Len(timers) \in Nat /\ Len(timers') = Len(timers) + 1
      /\ DOMAIN timers = 1..Len(timers) /\ DOMAIN timers' = 1..(Len(timers) + 1)
      /\ \A m \in 1..Len(timers) : timers'[m] = timers[m]
      /\ timers'[Len(timers) + 1] = i
  BY <1>1, AppendProperties, LenProperties
<1>3. /\ \A k \in Items : k # i => item'[k] = item[k]
      /\ item'[i].st = "running" /\ item'[i].kind = "anim"
  BY DEF Turns
<1>4. \A m \in DOMAIN timers : timers[m] # i
  BY <1>1 DEF Started
<1>5. \A m, n \in DOMAIN timers' : timers'[m] = timers'[n] => m = n
  BY <1>1, <1>2, <1>4
<1>6. \A m \in DOMAIN timers' : item'[timers'[m]].kind = "anim" /\ Started(timers[m])'
  BY <1>1, <1>2, <1>3, <1>4 DEF Started
<1>7. \A k \in Items : item'[k].kind = "anim" /\ item'[k].st = "running" =>
            \E m \in DOMAIN timers' : timers'[m] = k
  <2>1. ASSUME NEW k \in Items, item'[k].kind = "anim", item'[k].st = "running"
        PROVE  \E m \in DOMAIN timers' : timers'[m] = k
    <3>1. CASE k = i
      <4>1. Len(timers) + 1 \in DOMAIN timers'
        BY <1>2
      <4>2. QED
        BY <1>2, <3>1, <4>1
    <3>2. CASE k # i
      <4>1. PICK m \in DOMAIN timers : timers[m] = k
        BY <1>1, <1>3, <2>1, <3>2
      <4>2. m \in DOMAIN timers' /\ timers'[m] = k
        BY <1>2, <4>1
      <4>3. QED
        BY <4>2
    <3>3. QED
      BY <3>1, <3>2
  <2>2. QED
    BY <2>1
<1>8. TimersOK'
  BY <1>2, <1>5, <1>6, <1>7 DEF TimersOK, Started
<1>9. TimersGrow
  BY <1>2 DEF TimersGrow
<1>10. QED
  BY <1>8, <1>9

\* As that of a settled one is removed.
LEMMA TimersRemove ==
    ASSUME TimersOK, item' = item, NEW k \in 1..Len(timers), Settled(timers[k]),
           timers' = RemoveAt(timers, k), interval' = interval
    PROVE  TimersOK'
<1>1. /\ timers \in Seq(Items)
      /\ \A m, n \in DOMAIN timers : timers[m] = timers[n] => m = n
      /\ \A m \in DOMAIN timers : item[timers[m]].kind = "anim" /\ Started(timers[m])
      /\ \A i \in Items : item[i].kind = "anim" /\ item[i].st = "running" =>
            \E m \in DOMAIN timers : timers[m] = i
      /\ timers # <<>> => interval
  BY DEF TimersOK
<1>2. /\ timers' \in Seq(Items) /\ Len(timers) \in Nat /\ Len(timers') = Len(timers) - 1
      /\ DOMAIN timers = 1..Len(timers) /\ DOMAIN timers' = 1..(Len(timers) - 1)
      /\ \A m \in 1..(Len(timers) - 1) :
            timers'[m] = IF m < k THEN timers[m] ELSE timers[m + 1]
  <2>1. PICK s \in Seq(Items) : s = timers
    BY <1>1
  <2>2. PICK t : t = RemoveAt(s, k)
    OBVIOUS
  <2>3. /\ t \in Seq(Items) /\ Len(t) = Len(s) - 1
        /\ \A m \in 1..(Len(s) - 1) : t[m] = IF m < k THEN s[m] ELSE s[m + 1]
    BY <2>1, <2>2, RemoveAtFacts
  <2>4. timers' = t
    BY <2>1, <2>2
  <2>5. DOMAIN t = 1..Len(t) /\ DOMAIN s = 1..Len(s) /\ Len(s) \in Nat
    BY <2>1, <2>3, LenProperties
  <2>6. QED
    BY <2>1, <2>3, <2>4, <2>5
<1>3. \A m \in DOMAIN timers' : \E n \in DOMAIN timers :
            timers'[m] = timers[n] /\ n = IF m < k THEN m ELSE m + 1
  BY <1>2
<1>4. \A m, n \in DOMAIN timers' : timers'[m] = timers'[n] => m = n
  <2>1. ASSUME NEW m \in DOMAIN timers', NEW n \in DOMAIN timers', timers'[m] = timers'[n]
        PROVE  m = n
    <3>1. PICK p \in DOMAIN timers :
            timers'[m] = timers[p] /\ p = IF m < k THEN m ELSE m + 1
      BY <1>3
    <3>2. PICK r \in DOMAIN timers :
            timers'[n] = timers[r] /\ r = IF n < k THEN n ELSE n + 1
      BY <1>3
    <3>3. p = r
      BY <1>1, <2>1, <3>1, <3>2
    <3>4. QED
      BY <1>2, <3>1, <3>2, <3>3
  <2>2. QED
    BY <2>1
<1>5. \A m \in DOMAIN timers' : item[timers'[m]].kind = "anim" /\ Started(timers'[m])
  BY <1>1, <1>3
<1>6. \A i \in Items : item[i].kind = "anim" /\ item[i].st = "running" =>
            \E m \in DOMAIN timers' : timers'[m] = i
  <2>1. ASSUME NEW i \in Items, item[i].kind = "anim", item[i].st = "running"
        PROVE  \E m \in DOMAIN timers' : timers'[m] = i
    <3>1. PICK m \in DOMAIN timers : timers[m] = i
      BY <1>1, <2>1
    <3>2. m # k
      BY <2>1, <3>1 DEF Settled
    <3>3. CASE m < k
      <4>1. m \in DOMAIN timers' /\ timers'[m] = i
        BY <1>2, <3>1, <3>3
      <4>2. QED
        BY <4>1
    <3>4. CASE ~(m < k)
      <4>1. m - 1 \in DOMAIN timers' /\ ~(m - 1 < k) /\ m - 1 + 1 = m
        BY <1>2, <3>1, <3>2, <3>4
      <4>2. timers'[m - 1] = timers[m - 1 + 1]
        BY <1>2, <4>1
      <4>3. timers'[m - 1] = i
        BY <3>1, <4>1, <4>2
      <4>4. QED
        BY <4>1, <4>3
    <3>5. QED
      BY <3>3, <3>4
  <2>2. QED
    BY <2>1
<1>7. timers' # <<>> => timers # <<>>
  BY <1>2, EmptySeq, LenProperties
<1>8. QED
  BY <1>1, <1>2, <1>4, <1>5, <1>6, <1>7 DEF TimersOK, Started

\* As nothing happens to them.
LEMMA TimersSame ==
    ASSUME TimersOK, timers' = timers
    PROVE  TimersGrow /\ (item' = item /\ interval' = interval => TimersOK')
<1>1. timers \in Seq(Items)
  BY DEF TimersOK
<1>2. DOMAIN timers = 1..Len(timers) /\ Len(timers) \in Nat
  BY <1>1, LenProperties
<1>3. TimersGrow
  BY <1>2 DEF TimersGrow
<1>4. QED
  BY <1>3 DEF TimersOK, Started

-----------------------------------------------------------------------------
(* The hooks.                                                              *)

\* What the loops know of an element.
LEMMA Modes ==
    ASSUME NEW X, NEW L, Turn(X, L), NEW e \in Elements
    PROVE  \/ Ordinary(e)
           \/ \E k \in Nat, g \in BOOLEAN : Stops(e, k, g) /\ k <= Len(timers)
           \/ \E k \in Nat : Finishes(e, k) /\ k <= Len(timers)
           \/ FinishesOld(e) /\ finishing = {e}
           \/ \E g \in BOOLEAN : Stops(e, Len(timers), g)
<1>1. CASE Calm(L)
  BY <1>1 DEF Calm, AllOrdinary
<1>2. CASE \E f \in Elements, g \in BOOLEAN : StopBegins(X, L, f, g)
  BY <1>2 DEF StopBegins, OthersOrdinary
<1>3. CASE \E f \in Elements, k \in Nat, g, d \in BOOLEAN : StopGoesOn(X, L, f, k, g, d)
  BY <1>3 DEF StopGoesOn, OthersOrdinary
<1>4. CASE \E f \in Elements, k \in Nat, old \in Seq(Items \cup {"inprogress"}) :
            FinishGoesOn(L, f, k, old)
  BY <1>4 DEF FinishGoesOn, OthersOrdinary
<1>5. CASE \E f \in Elements, old \in Seq(Items \cup {"inprogress"}) : FinishEnds(L, f, old)
  BY <1>5 DEF FinishEnds, OthersOrdinary
<1>6. QED
  BY <1>1, <1>2, <1>3, <1>4, <1>5 DEF Turn, LoopOK

NoDelayRuns(e) ==
    \A i \in Items : item[i].kind = "delay" /\ item[i].elem = e => item[i].st # "running"

\* Nothing runs that is queued, if there is none.
LEMMA NoneRuns ==
    ASSUME NEW e \in Elements
    PROVE  /\ R(e) = 0 => Running(e) = {}
           /\ ItemsOK /\ Running(e) = {} => NoDelayRuns(e)
<1>1. R(e) = 0 => Running(e) = {}
  <2>1. IsFiniteSet(Running(e))
    BY CardinalityTypes
  <2>2. QED
    BY <2>1, FS_EmptySet DEF R
<1>2. ItemsOK /\ Running(e) = {} => NoDelayRuns(e)
  BY DEF ItemsOK, ItemOK, Running, NoDelayRuns
<1>3. QED
  BY <1>1, <1>2

\* No delay of an element runs whose queue is empty, or is about to go on.
LEMMA NoDelay ==
    ASSUME NEW X, NEW L, Turn(X, L), ItemsOK, TimersOK, NumbersOK, NEW e \in Elements,
           ~Idle, Job[1] # "force", queue[e] = <<>> \/ D(e) > 0 \/ T(e) = 1,
           T(e) = 1 => item[Job[2]].kind = "delay"
    PROVE  NoDelayRuns(e)
<1>1. R(e) \in Nat /\ D(e) \in Nat /\ T(e) \in {0, 1}
  BY DEF NumbersOK
<1>2. CASE Ordinary(e)
  <2>1. R(e) = 0
    BY <1>1, <1>2 DEF Ordinary
  <2>2. QED
    BY <2>1, NoneRuns
<1>3. CASE NoDelays
  BY <1>3 DEF NoDelays, NoDelayRuns
<1>4. CASE \E k \in Nat : Finishes(e, k) /\ k <= Len(timers)
  <2>1. PICK k \in Nat : Below(e, k) /\ k <= Len(timers)
    BY <1>4 DEF Finishes, Halting
  <2>2. timers \in Seq(Items) /\ \A m \in DOMAIN timers : item[timers[m]].kind = "anim"
    BY DEF TimersOK
  <2>3. DOMAIN timers = 1..Len(timers) /\ Len(timers) \in Nat
    BY <2>2, LenProperties
  <2>4. ASSUME NEW i \in Running(e)
        PROVE  item[i].kind = "anim"
    <3>1. PICK m \in 1..k : timers[m] = i
      BY <2>1 DEF Below
    <3>2. m \in DOMAIN timers
      BY <2>1, <2>3
    <3>3. QED
      BY <2>2, <3>1, <3>2
  <2>5. QED
    BY <2>4 DEF ItemsOK, ItemOK, Running, NoDelayRuns
<1>5. CASE FinishesOld(e)
  <2>1. Running(e) = {}
    BY <1>5 DEF FinishesOld
  <2>2. QED
    BY <2>1, NoneRuns
<1>6. QED
  BY <1>2, <1>3, <1>4, <1>5, Modes DEF Stops

\* The top job is counted.
LEMMA TopCounted ==
    ASSUME todo \in Seq(JobSet), ~Idle
    PROVE  Count(todo, Job) \in Nat /\ Count(todo, Job) > 0
<1>1. <<>> \in Seq(JobSet) /\ todo # <<>>
  BY EmptySeq DEF Idle
<1>2. Count(AfterTop(todo, <<>>), Job) = Count(todo, Job) + Count(<<>>, Job) - 1
  BY <1>1, AfterTopCount DEF Job
<1>3. AfterTop(todo, <<>>) \in Seq(JobSet)
  BY <1>1, HeadTailProperties, ConcatEmptySeq DEF AfterTop
<1>4. Count(AfterTop(todo, <<>>), Job) \in Nat /\ Count(todo, Job) \in Nat
  BY <1>3, CountType
<1>5. QED
  BY <1>2, <1>4, CountEmpty

\* The stop hook of e stays right when an item turns.
LEMMA StopTurn ==
    ASSUME NEW e \in Elements, StopOK(e), hooks \in [Elements -> HookSet],
           hooks'[e].stop = hooks[e].stop,
           NEW i \in Items, NEW s \in EndStates, Turns(i, s),
           item[i].kind = "delay" /\ s = "running" => item[i].st = "running" \/ item[i].elem # e
    PROVE  StopOK(e)'
<1>1. /\ \A k \in Items : k # i => item'[k] = item[k]
      /\ item'[i].st = s /\ item'[i].kind = item[i].kind /\ item'[i].elem = item[i].elem
  BY DEF Turns
<1>2. hooks[e].stop \in Items \cup {None}
  BY DEF HookSet
<1>3. \A k \in Items : Started(k) => Started(k)'
  BY <1>1 DEF Started, EndStates
<1>4. \A k \in Items : item'[k].kind = item[k].kind /\ item'[k].elem = item[k].elem
  BY <1>1
<1>5. PICK h \in Items \cup {None} : h = hooks[e].stop
  BY <1>2
<1>6. hooks'[e].stop = h
  BY <1>5
<1>7. hooks'[e].stop # None =>
        /\ item'[hooks'[e].stop].kind = "delay"
        /\ item'[hooks'[e].stop].elem = e
        /\ Started(hooks[e].stop)'
  <2>1. ASSUME h # None
        PROVE  item'[h].kind = "delay" /\ item'[h].elem = e /\ Started(h)'
    BY <1>3, <1>4, <1>5, <2>1 DEF StopOK
  <2>2. QED
    BY <1>6, <2>1 DEF Started
<1>8. \A k \in Items :
        item'[k].kind = "delay" /\ item'[k].elem = e /\ item'[k].st = "running" => h = k
  BY <1>1, <1>5 DEF StopOK
<1>9. QED
  BY <1>6, <1>7, <1>8 DEF StopOK

\* The stop hook of e stays right when an item arrives.
LEMMA StopArrive ==
    ASSUME NEW e \in Elements, StopOK(e), hooks \in [Elements -> HookSet],
           hooks'[e].stop = hooks[e].stop,
           NEW i \in Items, NEW f \in Elements, NEW kind \in {"anim", "delay"},
           NEW queued \in BOOLEAN, Arrives(i, f, kind, queued)
    PROVE  StopOK(e)'
<1>1. /\ \A k \in Items : k # i => item'[k] = item[k]
      /\ item'[i].st \in {"waiting", "resolved"} /\ item[i].kind = None
      /\ item'[i].st = "waiting" \/ item'[i].kind # "delay"
  BY DEF Arrives
<1>2. hooks[e].stop \in Items \cup {None} /\ hooks[e].stop # i
  BY <1>1, FxAssumption DEF HookSet, StopOK
<1>3. PICK h \in Items \cup {None} : h = hooks[e].stop /\ h # i
  BY <1>2
<1>4. hooks'[e].stop = h
  BY <1>3
<1>5. h # None => item'[h].kind = "delay" /\ item'[h].elem = e /\ Started(h)'
  BY <1>1, <1>3 DEF StopOK, Started
<1>6. \A k \in Items :
        item'[k].kind = "delay" /\ item'[k].elem = e /\ item'[k].st = "running" => h = k
  BY <1>1, <1>3 DEF StopOK
<1>7. QED
  BY <1>4, <1>5, <1>6 DEF StopOK, Started

\* The stop hook of e stays right, or is removed where no delay runs.
LEMMA StopSame ==
    ASSUME NEW e \in Elements, StopOK(e), item' = item,
           \/ hooks'[e].stop = hooks[e].stop
           \/ hooks'[e].stop = None /\ NoDelayRuns(e)
    PROVE  StopOK(e)'
BY DEF StopOK, Started, NoDelayRuns

-----------------------------------------------------------------------------
(* A step of the short jobs.                                               *)

\* A step that moves the short jobs and keeps the state right keeps IInv.
LEMMA ShortStep ==
    ASSUME IInv, NEW X, NEW L, NEW Y, Turn(X, L), todo \in Seq(JobSet), todo' \in Seq(JobSet),
           ShortMove(X, L, Y), StateOK'
    PROVE  IInv'
<1>1. ItemsOK /\ ItemsOK' /\ QueuesOK /\ timers \in Seq(Items) /\ finishing' = finishing
  BY DEF IInv, StateOK, TimersOK, ShortMove, Kept
<1>2. NumbersOK /\ NumbersOK'
  BY Numbers
<1>3. Turn(Y, L)'
  BY <1>1, <1>2, ShortMoveKeepsTurn
<1>4. (\E A, B : Turn(A, B))'
  BY <1>3
<1>5. QED
  BY <1>1, <1>4 DEF IInv

\* The jobs are some new short ones, none a start, that call dequeue and what
\* an unqueued animation ends with so often.
Jobs(jobs, e, deq, unq) ==
    /\ jobs \in Seq(JobSet) /\ ~StartsWith(jobs) /\ NewJobs(jobs)'
    /\ \A f \in Elements :
        /\ Count(jobs, <<"dequeue", f>>) = IF f = e THEN deq ELSE 0
        /\ Count(jobs, <<"unqueued", f>>) = IF f = e THEN unq ELSE 0

\* The jobs of the model are jobs.
LEMMA JobTypes ==
    /\ \A i \in Items, kind \in {"start", "handler", "always", "force"} : <<kind, i>> \in JobSet
    /\ \A e \in Elements, kind \in {"dequeue", "unqueued"} : <<kind, e>> \in JobSet
    /\ \A k \in Nat, kind \in {"tick", "splice"} : <<kind, k>> \in JobSet
    /\ \A k \in Nat, i \in Items : <<"ticked", k, i>> \in JobSet
    /\ \A e \in Elements, g \in BOOLEAN : <<"stopHooks", e, g>> \in JobSet
    /\ \A e \in Elements, k \in Nat, g, d \in BOOLEAN : <<"stopTimers", e, k, g, d>> \in JobSet
    /\ \A e \in Elements, k \in Nat : <<"finishTimers", e, k>> \in JobSet
    /\ \A e \in Elements, old \in Seq(Items \cup {"inprogress"}) :
        <<"finishOld", e, old>> \in JobSet
BY DEF JobSet

\* None.
LEMMA NoJobs ==
    ASSUME NEW e
    PROVE  Jobs(<<>>, e, 0, 0)
BY CountEmpty DEF Jobs, StartsWith, NewJobs

\* One of a kind, for an element or an item.
OnlyJob(jobs, kind, x) ==
    /\ jobs \in Seq(JobSet)
    /\ \A k, f : Count(jobs, <<k, f>>) = IF k = kind /\ f = x THEN 1 ELSE 0
    /\ kind # "start" => ~StartsWith(jobs)

\* A list of one job holds that job once and no other.
LEMMA CountJob ==
    ASSUME NEW kind, NEW x, <<kind, x>> \in JobSet, NEW jobs, jobs = <<<<kind, x>>>>
    PROVE  OnlyJob(jobs, kind, x)
<1>1. ASSUME NEW k, NEW f
      PROVE  Count(jobs, <<k, f>>) = IF k = kind /\ f = x THEN 1 ELSE 0
  <2>1. (<<kind, x>> = <<k, f>>) <=> (k = kind /\ f = x)
    OBVIOUS
  <2>2. QED
    BY <2>1, CountOne
<1>2. jobs \in Seq(JobSet)
  OBVIOUS
<1>3. kind # "start" => ~StartsWith(jobs)
  BY DEF StartsWith
<1>4. QED
  BY <1>1, <1>2, <1>3 DEF OnlyJob

\* One.
LEMMA JobOf ==
    ASSUME NEW kind \in ShortKinds \ {"start"}, NEW x, <<kind, x>> \in JobSet,
           ShortOK(<<kind, x>>)', NEW e, kind \in {"dequeue", "unqueued"} => x = e
    PROVE  Jobs(<<<<kind, x>>>>, e, IF kind = "dequeue" THEN 1 ELSE 0,
                                    IF kind = "unqueued" THEN 1 ELSE 0)
<1>1. PICK jobs : jobs = <<<<kind, x>>>>
  OBVIOUS
<1>2. /\ jobs \in Seq(JobSet) /\ ~StartsWith(jobs)
      /\ \A k, f : Count(jobs, <<k, f>>) = IF k = kind /\ f = x THEN 1 ELSE 0
  <2>1. OnlyJob(jobs, kind, x)
    BY <1>1, CountJob
  <2>2. QED
    BY <2>1 DEF OnlyJob
<1>3. NewJobs(jobs)'
  BY <1>1 DEF NewJobs
<1>4. ASSUME NEW f \in Elements
      PROVE  /\ Count(jobs, <<"dequeue", f>>) =
                    IF f = e THEN IF kind = "dequeue" THEN 1 ELSE 0 ELSE 0
             /\ Count(jobs, <<"unqueued", f>>) =
                    IF f = e THEN IF kind = "unqueued" THEN 1 ELSE 0 ELSE 0
  <2>1. Count(jobs, <<"dequeue", f>>) = IF "dequeue" = kind /\ f = x THEN 1 ELSE 0
    BY <1>2
  <2>2. Count(jobs, <<"unqueued", f>>) = IF "unqueued" = kind /\ f = x THEN 1 ELSE 0
    BY <1>2
  <2>3. QED
    BY <2>1, <2>2
<1>5. Jobs(jobs, e, IF kind = "dequeue" THEN 1 ELSE 0, IF kind = "unqueued" THEN 1 ELSE 0)
  BY <1>2, <1>3, <1>4 DEF Jobs
<1>6. QED
  BY <1>1, <1>5

\* What a list of one short job has of the right to go on.
LEMMA OneJob ==
    ASSUME NEW e \in Elements
    PROVE  /\ Jobs(<<<<"dequeue", e>>>>, e, 1, 0)
           /\ Jobs(<<<<"unqueued", e>>>>, e, 0, 1)
           /\ \A i \in Items, kind \in HandlerKinds :
                HandlerOK(i)' => Jobs(<<<<kind, i>>>>, e, 0, 0)
           /\ \A i \in Items : HandlerOK(i)' /\ finishing' # {} =>
                Jobs(<<<<"force", i>>>>, e, 0, 0)
<1>1. Jobs(<<<<"dequeue", e>>>>, e, 1, 0)
  <2>1. PICK kind \in ShortKinds \ {"start"} : kind = "dequeue"
    BY DEF ShortKinds
  <2>2. <<kind, e>> \in JobSet /\ ShortOK(<<kind, e>>)'
    BY <2>1, JobTypes DEF ShortOK
  <2>3. Jobs(<<<<kind, e>>>>, e, IF kind = "dequeue" THEN 1 ELSE 0,
                                 IF kind = "unqueued" THEN 1 ELSE 0)
    BY <2>2, JobOf
  <2>4. QED
    BY <2>1, <2>3
<1>2. Jobs(<<<<"unqueued", e>>>>, e, 0, 1)
  <2>1. PICK kind \in ShortKinds \ {"start"} : kind = "unqueued"
    BY DEF ShortKinds
  <2>2. <<kind, e>> \in JobSet /\ ShortOK(<<kind, e>>)'
    BY <2>1, JobTypes DEF ShortOK
  <2>3. Jobs(<<<<kind, e>>>>, e, IF kind = "dequeue" THEN 1 ELSE 0,
                                 IF kind = "unqueued" THEN 1 ELSE 0)
    BY <2>2, JobOf
  <2>4. QED
    BY <2>1, <2>3
<1>3. ASSUME NEW i \in Items, NEW kind \in HandlerKinds, HandlerOK(i)'
      PROVE  Jobs(<<<<kind, i>>>>, e, 0, 0)
  <2>1. kind \in ShortKinds \ {"start"} /\ kind \in {"handler", "always"}
    BY DEF ShortKinds, HandlerKinds
  <2>2. <<kind, i>> \in JobSet /\ ShortOK(<<kind, i>>)'
    BY <1>3, <2>1, JobTypes DEF ShortOK
  <2>3. Jobs(<<<<kind, i>>>>, e, IF kind = "dequeue" THEN 1 ELSE 0,
                                 IF kind = "unqueued" THEN 1 ELSE 0)
    BY <2>1, <2>2, JobOf
  <2>4. QED
    BY <2>1, <2>3
<1>4. ASSUME NEW i \in Items, HandlerOK(i)', finishing' # {}
      PROVE  Jobs(<<<<"force", i>>>>, e, 0, 0)
  <2>1. PICK kind \in ShortKinds \ {"start"} : kind = "force"
    BY DEF ShortKinds
  <2>2. <<kind, i>> \in JobSet /\ ShortOK(<<kind, i>>)'
    BY <1>4, <2>1, JobTypes DEF ShortOK
  <2>3. Jobs(<<<<kind, i>>>>, e, IF kind = "dequeue" THEN 1 ELSE 0,
                                 IF kind = "unqueued" THEN 1 ELSE 0)
    BY <2>1, <2>2, JobOf
  <2>4. QED
    BY <2>1, <2>3
<1>5. QED
  BY <1>1, <1>2, <1>3, <1>4

\* Some and then others.
LEMMA MoreJobs ==
    ASSUME NEW e, NEW a, NEW b, NEW p \in Nat, NEW q \in Nat, NEW r \in Nat, NEW s \in Nat,
           Jobs(a, e, p, q), Jobs(b, e, r, s)
    PROVE  Jobs(a \o b, e, p + r, q + s)
<1>1. a \in Seq(JobSet) /\ b \in Seq(JobSet) /\ ~StartsWith(a) /\ ~StartsWith(b)
  BY DEF Jobs
<1>2. /\ a \o b \in Seq(JobSet) /\ Len(a \o b) = Len(a) + Len(b)
      /\ \A n \in 1..(Len(a) + Len(b)) :
            (a \o b)[n] = IF n <= Len(a) THEN a[n] ELSE b[n - Len(a)]
      /\ Len(a) \in Nat /\ Len(b) \in Nat
      /\ DOMAIN a = 1..Len(a) /\ DOMAIN b = 1..Len(b)
      /\ DOMAIN (a \o b) = 1..(Len(a) + Len(b))
  BY <1>1, ConcatProperties, LenProperties
<1>3. \A n \in DOMAIN a : a[n][1] # "start" /\ ShortOK(a[n])'
  <2>1. \A n \in DOMAIN a : ShortOK(a[n])' /\ (a[n][1] = "start" => n = 1)
    BY DEF Jobs, NewJobs
  <2>2. ASSUME 1 \in DOMAIN a
        PROVE  a[1][1] # "start"
    <3>1. a # <<>> /\ Head(a) = a[1]
      BY <1>1, <1>2, <2>2, HeadTailProperties
    <3>2. QED
      BY <1>1, <3>1 DEF StartsWith
  <2>3. QED
    BY <2>1, <2>2
<1>4. \A n \in DOMAIN b : b[n][1] # "start" /\ ShortOK(b[n])'
  <2>1. \A n \in DOMAIN b : ShortOK(b[n])' /\ (b[n][1] = "start" => n = 1)
    BY DEF Jobs, NewJobs
  <2>2. ASSUME 1 \in DOMAIN b
        PROVE  b[1][1] # "start"
    <3>1. b # <<>> /\ Head(b) = b[1]
      BY <1>1, <1>2, <2>2, HeadTailProperties
    <3>2. QED
      BY <1>1, <3>1 DEF StartsWith
  <2>3. QED
    BY <2>1, <2>2
<1>5. \A n \in DOMAIN (a \o b) : \/ n \in DOMAIN a /\ (a \o b)[n] = a[n]
                                 \/ n - Len(a) \in DOMAIN b /\ (a \o b)[n] = b[n - Len(a)]
  <2>1. ASSUME NEW n \in 1..(Len(a) + Len(b))
        PROVE  \/ n \in DOMAIN a /\ (a \o b)[n] = a[n]
               \/ n - Len(a) \in DOMAIN b /\ (a \o b)[n] = b[n - Len(a)]
    <3>1. CASE n <= Len(a)
      BY <1>2, <3>1
    <3>2. CASE ~(n <= Len(a))
      BY <1>2, <3>2
    <3>3. QED
      BY <3>1, <3>2
  <2>2. QED
    BY <1>2, <2>1
<1>6. PICK c : c = a \o b
  OBVIOUS
<1>7. \A n \in DOMAIN c : c[n][1] # "start" /\ ShortOK(c[n])'
  BY <1>3, <1>4, <1>5, <1>6
<1>8. NewJobs(c)'
  BY <1>7 DEF NewJobs
<1>9. ~StartsWith(c)
  <2>1. ASSUME c # <<>>
        PROVE  Head(c)[1] # "start"
    <3>1. c \in Seq(JobSet) /\ Head(c) = c[1] /\ 1 \in DOMAIN c
      BY <1>2, <1>6, <2>1, HeadTailProperties, LenProperties, EmptySeq
    <3>2. QED
      BY <1>7, <3>1
  <2>2. QED
    BY <2>1 DEF StartsWith
<1>10. ASSUME NEW f \in Elements
       PROVE  /\ Count(c, <<"dequeue", f>>) = IF f = e THEN p + r ELSE 0
              /\ Count(c, <<"unqueued", f>>) = IF f = e THEN q + s ELSE 0
  <2>1. \A j : Count(c, j) = Count(a, j) + Count(b, j)
    BY <1>1, <1>6, CountConcat
  <2>2. /\ Count(a, <<"dequeue", f>>) = IF f = e THEN p ELSE 0
        /\ Count(a, <<"unqueued", f>>) = IF f = e THEN q ELSE 0
        /\ Count(b, <<"dequeue", f>>) = IF f = e THEN r ELSE 0
        /\ Count(b, <<"unqueued", f>>) = IF f = e THEN s ELSE 0
    BY DEF Jobs
  <2>3. QED
    BY <2>1, <2>2
<1>11. QED
  BY <1>2, <1>6, <1>8, <1>9, <1>10 DEF Jobs

\* One job and another are two.
LEMMA JobPair ==
    ASSUME NEW x \in JobSet, NEW y \in JobSet
    PROVE  <<x>> \o <<y>> = <<x, y>>
<1>1. PICK s, t, u : s = <<x>> /\ t = <<y>> /\ u = <<x, y>>
  OBVIOUS
<1>2. /\ s \in Seq(JobSet) /\ t \in Seq(JobSet) /\ u \in Seq(JobSet)
      /\ Len(s) = 1 /\ Len(t) = 1 /\ Len(u) = 2
      /\ s[1] = x /\ t[1] = y /\ u[1] = x /\ u[2] = y
  BY <1>1
<1>3. /\ s \o t \in Seq(JobSet) /\ Len(s \o t) = 2
      /\ \A n \in 1..2 : (s \o t)[n] = IF n <= 1 THEN s[n] ELSE t[n - 1]
  BY <1>2, ConcatProperties
<1>4. (s \o t)[1] = x /\ (s \o t)[2] = y
  BY <1>2, <1>3
<1>5. \A n \in 1..Len(s \o t) : (s \o t)[n] = u[n]
  BY <1>2, <1>3, <1>4
<1>6. s \o t = u
  BY <1>2, <1>3, <1>5, SeqEqual
<1>7. QED
  BY <1>1, <1>6

\* What an animation calls when it settles, after the handlers, and with them.
LEMMA AfterHandlersJobs ==
    ASSUME ItemsOK, NEW i \in Items, item[i].kind # None, HandlerOK(i)', NEW outcome,
           NEW e, e = item[i].elem
    PROVE  Jobs(AfterHandlers(i, outcome), e,
                IF item[i].queued /\ outcome = "resolved" THEN 1 ELSE 0,
                IF ~item[i].queued THEN 1 ELSE 0)
<1>1. e \in Elements
  BY DEF ItemsOK, ItemOK
<1>2. CASE ~item[i].queued
  BY <1>1, <1>2, OneJob DEF AfterHandlers
<1>3. CASE item[i].queued /\ outcome = "resolved"
  <2>1. PICK z \in Nat, w \in Nat : z = 0 /\ w = 1
    OBVIOUS
  <2>2. PICK a, b : a = <<<<"dequeue", e>>>> /\ b = <<<<"always", i>>>>
    OBVIOUS
  <2>3. Jobs(a, e, w, z)
    BY <1>1, <2>1, <2>2, OneJob
  <2>4. Jobs(b, e, z, z)
    BY <1>1, <2>1, <2>2, OneJob DEF HandlerKinds
  <2>5. Jobs(a \o b, e, w + z, z + z)
    BY <2>3, <2>4, MoreJobs
  <2>6. Jobs(a \o b, e, w, z)
    BY <2>1, <2>5
  <2>7. a \o b = AfterHandlers(i, outcome)
    <3>1. <<"dequeue", e>> \in JobSet /\ <<"always", i>> \in JobSet
      BY <1>1, JobTypes
    <3>2. PICK x \in JobSet, y \in JobSet : x = <<"dequeue", e>> /\ y = <<"always", i>>
      BY <3>1
    <3>3. a \o b = <<x, y>>
      BY <2>2, <3>2, JobPair
    <3>4. QED
      BY <1>3, <3>2, <3>3 DEF AfterHandlers
  <2>8. QED
    BY <1>3, <2>1, <2>6, <2>7
<1>4. CASE item[i].queued /\ outcome # "resolved"
  BY <1>1, <1>4, NoJobs DEF AfterHandlers
<1>5. QED
  BY <1>2, <1>3, <1>4

\* Settling an animation calls dequeue once when it completes and was queued,
\* and the end of an unqueued one once when it was not queued.
LEMMA SettleJobsJobs ==
    ASSUME ItemsOK, NEW i \in Items, item[i].kind # None, HandlerOK(i)', NEW outcome,
           NEW e, e = item[i].elem
    PROVE  Jobs(SettleJobs(i, outcome), e,
                IF ~Settled(i) /\ item[i].queued /\ outcome = "resolved" THEN 1 ELSE 0,
                IF ~Settled(i) /\ ~item[i].queued THEN 1 ELSE 0)
<1>1. e \in Elements
  BY DEF ItemsOK, ItemOK
<1>2. CASE Settled(i)
  BY <1>2, NoJobs DEF Settled, SettleJobs
<1>3. CASE ~Settled(i)
  <2>1. PICK a \in {0, 1} : a = IF item[i].queued /\ outcome = "resolved" THEN 1 ELSE 0
    OBVIOUS
  <2>2. PICK b \in {0, 1} : b = IF ~item[i].queued THEN 1 ELSE 0
    OBVIOUS
  <2>3. Jobs(AfterHandlers(i, outcome), e, a, b)
    BY <2>1, <2>2, AfterHandlersJobs
  <2>4. Jobs(<<<<"handler", i>>>>, e, 0, 0)
    BY <1>1, OneJob DEF HandlerKinds
  <2>5. Jobs(<<<<"handler", i>>>> \o AfterHandlers(i, outcome), e, 0 + a, 0 + b)
    BY <2>3, <2>4, MoreJobs
  <2>6. SettleJobs(i, outcome) = <<<<"handler", i>>>> \o AfterHandlers(i, outcome)
    BY <1>3 DEF Settled, SettleJobs
  <2>7. 0 + a = a /\ 0 + b = b
    OBVIOUS
  <2>8. QED
    BY <1>3, <2>1, <2>2, <2>5, <2>6, <2>7
<1>4. QED
  BY <1>2, <1>3

\* What unqueued animations are still to end with.
U(e) == Count(todo, <<"unqueued", e>>)

\* A short job is replaced by the jobs it leads to.
LEMMA ThenFollows ==
    ASSUME NEW X, NEW L, Turn(X, L), ~Idle, Job[1] \in ShortKinds,
           NEW jobs \in Seq(JobSet), Then(jobs)
    PROVE  /\ \E Y : Follows(X, L, jobs, Y)
           /\ X # <<>> /\ X \in Seq(JobSet) /\ ShortOK(Job) /\ Short(X)
           /\ todo \in Seq(JobSet) /\ todo' \in Seq(JobSet)
<1>1. /\ X \in Seq(JobSet) /\ L \in Seq(JobSet) /\ todo \in Seq(JobSet)
      /\ todo = X \o L /\ Short(X)
  BY TopJob DEF Turn
<1>2. X # <<>> /\ ShortOK(Job)
  BY TopIsShort
<1>3. todo' = AfterTop(todo, jobs)
  BY DEF Then, AfterTop
<1>4. PICK Y : Y = AfterTop(X, jobs)
  OBVIOUS
<1>5. Follows(X, L, jobs, Y)
  BY <1>1, <1>2, <1>3, <1>4 DEF Follows
<1>6. todo' \in Seq(JobSet)
  BY <1>5, FollowsCount
<1>7. QED
  BY <1>1, <1>2, <1>5, <1>6

\* The numbers of calls after a short job.
NumbersAfter(f, e, p, q) ==
    /\ D(f) \in Nat /\ U(f) \in Nat
    /\ D(f)' = D(f) + (IF f = e THEN p ELSE 0) - (IF Job = <<"dequeue", f>> THEN 1 ELSE 0)
    /\ U(f)' = U(f) + (IF f = e THEN q ELSE 0) - (IF Job = <<"unqueued", f>> THEN 1 ELSE 0)
    /\ ~StartsWith(todo') /\ T(f)' = 0

\* The numbers after a short step, from those of the jobs it adds.
LEMMA FollowsNumbers ==
    ASSUME NEW X, NEW L, NEW jobs, NEW Y, Follows(X, L, jobs, Y), Turn(X, L),
           NEW e, NEW p \in Nat, NEW q \in Nat, Jobs(jobs, e, p, q), NEW f \in Elements
    PROVE  NumbersAfter(f, e, p, q)
<1>1. ~StartsWith(todo')
  BY FollowsStart DEF Jobs
<1>2. /\ Count(todo', <<"dequeue", f>>) =
            Count(todo, <<"dequeue", f>>) + Count(jobs, <<"dequeue", f>>)
                - (IF Job = <<"dequeue", f>> THEN 1 ELSE 0)
      /\ Count(todo, <<"dequeue", f>>) \in Nat
  BY FollowsCount
<1>3. /\ Count(todo', <<"unqueued", f>>) =
            Count(todo, <<"unqueued", f>>) + Count(jobs, <<"unqueued", f>>)
                - (IF Job = <<"unqueued", f>> THEN 1 ELSE 0)
      /\ Count(todo, <<"unqueued", f>>) \in Nat
  BY FollowsCount
<1>4. /\ Count(jobs, <<"dequeue", f>>) = IF f = e THEN p ELSE 0
      /\ Count(jobs, <<"unqueued", f>>) = IF f = e THEN q ELSE 0
  BY DEF Jobs
<1>5. T(f)' = 0
  BY <1>1, NoStart
<1>6. QED
  BY <1>1, <1>2, <1>3, <1>4, <1>5 DEF D, U, NumbersAfter

\* If the jobs are none.
LEMMA EndNumbers ==
    ASSUME NEW X, NEW L, NEW Y, Follows(X, L, <<>>, Y), Turn(X, L), NEW f \in Elements
    PROVE  /\ D(f) \in Nat /\ U(f) \in Nat
           /\ D(f)' = D(f) - (IF Job = <<"dequeue", f>> THEN 1 ELSE 0)
           /\ U(f)' = U(f) - (IF Job = <<"unqueued", f>> THEN 1 ELSE 0)
           /\ ~StartsWith(todo') /\ T(f)' = 0
<1>1. PICK z \in Nat : z = 0
  OBVIOUS
<1>2. Jobs(<<>>, f, z, z)
  BY <1>1, NoJobs
<1>3. NumbersAfter(f, f, z, z)
  BY <1>2, FollowsNumbers
<1>4. QED
  BY <1>1, <1>3 DEF NumbersAfter

\* Nothing happens to the right to go on.
LEMMA NoMove ==
    ASSUME NEW e \in Elements, NumbersOK, queue'[e] = queue[e],
           Idle \/ Job # <<"dequeue", e>>, \A i \in Running(e) : Idle \/ Job # <<"force", i>>,
           Running(e)' = Running(e), T(e) = 0, T(e)' = 0, D(e)' = D(e)
    PROVE  Move(e)
<1>1. R(e) \in Nat /\ D(e) \in Nat /\ R(e)' = R(e)
  BY DEF NumbersOK, R
<1>2. FinishesOld(e) => \A i \in Running(e)' : todo' # <<>> /\ Head(todo') = <<"force", i>>
  BY DEF FinishesOld
<1>3. TokenMove(e)
  BY <1>1, <1>2 DEF TokenMove
<1>4. QED
  BY <1>3 DEF Move

\* A step that does not touch the queue of e moves no right to go on with it.
LEMMA QuietMove ==
    ASSUME NEW e \in Elements, NumbersOK, queue'[e] = queue[e],
           Idle \/ (Job # <<"dequeue", e>> /\ Job[1] \notin {"start", "force"}),
           Running(e)' = Running(e), T(e)' = 0, D(e)' = D(e)
    PROVE  Move(e)
<1>1. T(e) = 0
  BY NoStart DEF Doing
<1>2. \A i : Idle \/ Job # <<"force", i>>
  OBVIOUS
<1>3. QED
  BY <1>1, <1>2, NoMove

\* The count of unqueued animations stays right where nothing of it changes.
LEMMA CountSame ==
    ASSUME NEW e \in Elements, CountOK(e), item' = item,
           hooks'[e].unqueued = hooks[e].unqueued, U(e)' = U(e)
    PROVE  CountOK(e)'
<1>1. RunningUnqueued(e)' = RunningUnqueued(e) /\ StartedUnqueued(e)' = StartedUnqueued(e)
  BY SameKept
<1>2. QED
  BY <1>1 DEF CountOK, U

\* A job ends that changes no item, queue or timer.
LEMMA QuietEnd ==
    ASSUME IInv, NEW X, NEW L, NEW Y, Turn(X, L), Follows(X, L, <<>>, Y),
           Job[1] \in HandlerKinds \cup {"unqueued"}, ~Idle,
           item' = item, queue' = queue, finishing' = finishing, timers' = timers,
           interval' = interval, HooksOK'
    PROVE  IInv'
<1>1. /\ ItemsOK /\ QueuesOK /\ TimersOK /\ HooksOK /\ NothingQueued
      /\ X # <<>> /\ X \in Seq(JobSet) /\ Short(X)
  BY DEF IInv, StateOK, Follows, Turn
<1>2. Kept /\ AllPending /\ ItemsOK' /\ \A e \in Elements : Running(e)' = Running(e)
  BY <1>1, SameKept
<1>3. TimersGrow /\ TimersOK'
  BY <1>1, TimersSame
<1>4. QueuesOK' /\ NothingQueued'
  BY <1>1, <1>2, QueuesSame DEF NothingQueued
<1>5. NewJobs(<<>>)' /\ \A e : Jobs(<<>>, e, 0, 0)
  BY NoJobs DEF NewJobs
<1>6. todo' = Y \o L /\ Short(Y)'
  BY <1>1, <1>2, <1>5, FollowsShort
<1>7. todo \in Seq(JobSet) /\ todo' \in Seq(JobSet)
  BY TopJob, FollowsCount
<1>8. NumbersOK
  BY <1>7, Numbers
<1>9. ASSUME NEW e \in Elements
      PROVE  Move(e)
  <2>1. Job # <<"dequeue", e>> /\ Job[1] \notin {"start", "force"}
    BY DEF HandlerKinds
  <2>2. T(e)' = 0 /\ D(e)' = D(e)
    BY <2>1, EndNumbers
  <2>3. QED
    BY <1>2, <1>8, <2>1, <2>2, QuietMove
<1>10. ~StartsWith(todo')
  BY FollowsStart DEF StartsWith
<1>11. \A e \in Elements : X # <<<<"dequeue", e>>>>
  BY TopJob DEF HandlerKinds
<1>12. PendingKept /\ NewStart
  BY <1>2, <1>10 DEF AllPending, PendingKept, NewStart
<1>13. NoDelays => NoDelays'
  BY DEF NoDelays
<1>14. ShortMove(X, L, Y)
  BY <1>1, <1>2, <1>3, <1>6, <1>9, <1>11, <1>12, <1>13 DEF ShortMove
<1>15. StateOK'
  BY <1>2, <1>3, <1>4 DEF StateOK
<1>16. QED
  BY <1>7, <1>14, <1>15, ShortStep

\* A completion handler that returns (jquery-2.0.3.js, complete) keeps IInv.
LEMMA HandlerReturnsStep ==
    ASSUME IInv, HandlerReturns
    PROVE  IInv'
<1>1. PICK X, L : Turn(X, L)
  BY DEF IInv
<1>2. /\ ~Idle /\ Job[1] \in HandlerKinds /\ Then(<<>>) /\ hooks' = hooks /\ item' = item
      /\ queue' = queue /\ finishing' = finishing /\ timers' = timers /\ interval' = interval
  BY DEF HandlerReturns, InHandler, Doing, HandlerKinds
<1>3. PICK Y : Follows(X, L, <<>>, Y)
  BY <1>1, <1>2, ThenFollows, EmptySeq DEF ShortKinds, HandlerKinds
<1>4. ASSUME NEW e \in Elements
      PROVE  StopOK(e)' /\ CountOK(e)'
  <2>1. StopOK(e) /\ CountOK(e)
    BY DEF IInv, StateOK, HooksOK
  <2>2. U(e)' = U(e)
    <3>1. Job # <<"unqueued", e>>
      BY <1>2 DEF HandlerKinds
    <3>2. QED
      BY <1>1, <1>3, <3>1, EndNumbers
  <2>3. QED
    BY <1>2, <2>1, <2>2, StopSame, CountSame
<1>5. HooksOK'
  BY <1>2, <1>4 DEF HooksOK, IInv, StateOK
<1>6. QED
  BY <1>1, <1>2, <1>3, <1>5, QuietEnd

\* The end of an animation that was not queued keeps IInv.
LEMMA UnqueuedEndsStep ==
    ASSUME IInv, UnqueuedEnds
    PROVE  IInv'
<1>1. PICK X, L : Turn(X, L)
  BY DEF IInv
<1>2. /\ ~Idle /\ Job[1] = "unqueued" /\ Then(<<>>) /\ item' = item
      /\ queue' = queue /\ finishing' = finishing /\ timers' = timers /\ interval' = interval
  BY DEF UnqueuedEnds, Doing
<1>3. PICK Y : Follows(X, L, <<>>, Y)
  BY <1>1, <1>2, ThenFollows, EmptySeq DEF ShortKinds
<1>4. ItemsOK /\ TimersOK /\ HooksOK /\ todo \in Seq(JobSet) /\ NumbersOK
  BY <1>1, <1>3, TopJob, FollowsCount, Numbers DEF IInv, StateOK
<1>5. PICK e \in Elements : Job = <<"unqueued", e>>
  BY <1>1, <1>2, TopIsShort, ShortFacts DEF ShortKinds
<1>6. PICK left : left = hooks[e].unqueued - 1
  OBVIOUS
<1>7. /\ hooks \in [Elements -> HookSet] /\ hooks[e] \in HookSet
      /\ \A f \in Elements : StopOK(f) /\ CountOK(f)
  BY <1>4 DEF HooksOK
<1>8. U(e) \in Nat /\ U(e) > 0
  BY <1>2, <1>4, <1>5, TopCounted DEF U
<1>9. /\ U(e)' = U(e) - 1
      /\ \A f \in Elements : f # e => U(f)' = U(f)
  <2>1. ASSUME NEW f \in Elements
        PROVE  U(f)' = U(f) - (IF f = e THEN 1 ELSE 0)
    <3>1. (Job = <<"unqueued", f>>) <=> (f = e)
      BY <1>5
    <3>2. QED
      BY <1>1, <1>3, <3>1, EndNumbers
  <2>2. QED
    BY <1>1, <1>3, <1>8, <2>1, EndNumbers
<1>10. /\ Cardinality(RunningUnqueued(e)) + U(e) <= hooks[e].unqueued
       /\ hooks[e].unqueued <= Cardinality(StartedUnqueued(e))
       /\ Cardinality(RunningUnqueued(e)) \in Nat /\ Cardinality(StartedUnqueued(e)) \in Nat
       /\ hooks[e].unqueued \in Nat
  BY <1>7, CardinalityTypes DEF CountOK, U, HookSet
<1>11. /\ hooks' \in [Elements -> HookSet] /\ hooks'[e].unqueued = left
       /\ \A f \in Elements : f # e => hooks'[f] = hooks[f]
       /\ \/ hooks'[e].stop = hooks[e].stop
          \/ hooks'[e].stop = None /\ queue[e] = <<>>
  <2>1. left \in Nat
    BY <1>6, <1>8, <1>10
  <2>2. CASE queue[e] = <<>> /\ left = 0
    <3>1. hooks' = [hooks EXCEPT ![e] = NoHooks]
      BY <1>5, <1>6, <2>2 DEF UnqueuedEnds
    <3>2. NoHooks \in HookSet
      BY DEF NoHooks, HookSet
    <3>3. QED
      BY <1>7, <2>2, <3>1, <3>2 DEF NoHooks
  <2>3. CASE ~(queue[e] = <<>> /\ left = 0)
    <3>1. hooks' = [hooks EXCEPT ![e].unqueued = left]
      BY <1>5, <1>6, <2>3 DEF UnqueuedEnds
    <3>2. [hooks[e] EXCEPT !.unqueued = left] \in HookSet
      BY <1>7, <2>1 DEF HookSet
    <3>3. QED
      BY <1>7, <3>1, <3>2 DEF HookSet
  <2>4. QED
    BY <2>2, <2>3
<1>12. ASSUME NEW f \in Elements
       PROVE  StopOK(f)' /\ CountOK(f)'
  <2>1. CASE f = e
    <3>1. queue[e] = <<>> => NoDelayRuns(e)
      <4>1. T(e) = 0
        BY <1>2, NoStart DEF Doing
      <4>2. QED
        BY <1>1, <1>2, <1>4, <4>1, NoDelay
    <3>2. StopOK(e)'
      BY <1>2, <1>7, <1>11, <3>1, StopSame
    <3>3. /\ RunningUnqueued(e)' = RunningUnqueued(e)
          /\ StartedUnqueued(e)' = StartedUnqueued(e)
      BY <1>2, SameKept
    <3>4. CountOK(e)'
      BY <1>6, <1>8, <1>9, <1>10, <1>11, <3>3 DEF CountOK, U
    <3>5. QED
      BY <2>1, <3>2, <3>4
  <2>2. CASE f # e
    BY <1>2, <1>7, <1>9, <1>11, <2>2, StopSame, CountSame
  <2>3. QED
    BY <2>1, <2>2
<1>13. HooksOK'
  BY <1>11, <1>12 DEF HooksOK
<1>14. QED
  BY <1>1, <1>2, <1>3, <1>13, QuietEnd

-----------------------------------------------------------------------------
(* dequeue.                                                                *)

\* What follows the sentinel.
Waiting(q, e) == IsQueue(q, e) /\ \A m \in DOMAIN q : q[m] # "inprogress"

NextOf(e) == IF SentinelFirst(queue[e]) THEN Tail(queue[e]) ELSE queue[e]

\* What dequeue leaves once it has removed the sentinel waits, and was there.
LEMMA QueueNext ==
    ASSUME NEW e \in Elements, QueueOK(e), NEW q, q = NextOf(e)
    PROVE  Waiting(q, e) /\ (q # <<>> => queue[e] # <<>>)
<1>1. PICK s : s = queue[e]
  OBVIOUS
<1>2. /\ s \in Seq(Items \cup {"inprogress"})
      /\ \A m \in DOMAIN s : s[m] = "inprogress" \/ Pending(s[m], e)
      /\ \A m, n \in DOMAIN s : s[m] = s[n] => m = n
      /\ \A m \in DOMAIN s : s[m] = "inprogress" => m = 1
      /\ Len(s) \in Nat /\ DOMAIN s = 1..Len(s)
  BY <1>1, LenProperties DEF QueueOK, IsQueue
<1>3. CASE SentinelFirst(s)
  <2>1. s # <<>> /\ q = Tail(s)
    BY <1>1, <1>3 DEF SentinelFirst, NextOf
  <2>2. /\ Tail(s) \in Seq(Items \cup {"inprogress"}) /\ Len(Tail(s)) = Len(s) - 1
        /\ \A m \in 1..(Len(s) - 1) : Tail(s)[m] = s[m + 1]
        /\ DOMAIN Tail(s) = 1..Len(Tail(s))
    BY <1>2, <2>1, HeadTailProperties, LenProperties
  <2>3. ASSUME NEW m \in DOMAIN q
        PROVE  m + 1 \in DOMAIN s /\ q[m] = s[m + 1] /\ m \in Nat /\ m + 1 # 1
    <3>1. m \in 1..(Len(s) - 1)
      BY <2>1, <2>2
    <3>2. q[m] = s[m + 1]
      BY <2>1, <2>2, <3>1
    <3>3. QED
      BY <1>2, <3>1, <3>2
  <2>4. \A m \in DOMAIN q : Pending(q[m], e) /\ q[m] # "inprogress"
    BY <1>2, <2>3
  <2>5. \A m, n \in DOMAIN q : q[m] = q[n] => m = n
    <3>1. ASSUME NEW m \in DOMAIN q, NEW n \in DOMAIN q, q[m] = q[n]
          PROVE  m = n
      <4>1. m + 1 = n + 1
        BY <1>2, <2>3, <3>1
      <4>2. QED
        BY <2>3, <4>1
    <3>2. QED
      BY <3>1
  <2>6. QED
    BY <1>1, <2>1, <2>2, <2>4, <2>5 DEF IsQueue, Waiting
<1>4. CASE ~SentinelFirst(s)
  <2>1. q = s
    BY <1>1, <1>4 DEF NextOf
  <2>2. ASSUME NEW m \in DOMAIN s, s[m] = "inprogress"
        PROVE  FALSE
    <3>1. m = 1 /\ s # <<>> /\ Head(s) = s[1]
      BY <1>2, <2>2, HeadTailProperties
    <3>2. QED
      BY <1>4, <2>2, <3>1 DEF SentinelFirst
  <2>3. QED
    BY <1>1, <1>2, <2>1, <2>2 DEF IsQueue, Waiting
<1>5. QED
  BY <1>3, <1>4

\* The queue behind a new sentinel, and the item before it.
Begun(s, e, i) ==
    /\ IsQueue(s, e) /\ s # <<>> /\ Head(s) = "inprogress"
    /\ \A m \in DOMAIN s : s[m] = "inprogress" => m = 1
    /\ Pending(i, e) /\ \A m \in DOMAIN s : s[m] # i

\* The head of what waits is taken out, and the sentinel put in its place.
LEMMA QueueBegun ==
    ASSUME NEW e \in Elements, NEW q, Waiting(q, e), q # <<>>
    PROVE  Begun(<<"inprogress">> \o Tail(q), e, Head(q))
<1>1. /\ q \in Seq(Items \cup {"inprogress"})
      /\ \A m \in DOMAIN q : Pending(q[m], e) /\ q[m] # "inprogress"
      /\ \A m, n \in DOMAIN q : q[m] = q[n] => m = n
      /\ Len(q) \in Nat /\ DOMAIN q = 1..Len(q)
  BY LenProperties DEF IsQueue, Waiting
<1>2. /\ Tail(q) \in Seq(Items \cup {"inprogress"}) /\ Len(Tail(q)) = Len(q) - 1
      /\ \A m \in 1..Len(Tail(q)) : Tail(q)[m] = q[m + 1]
      /\ Head(q) = q[1] /\ Len(q) >= 1 /\ 1 \in DOMAIN q
  BY <1>1, HeadTailProperties, LenProperties, EmptySeq
<1>3. PICK a : a = <<"inprogress">>
  OBVIOUS
<1>4. /\ Len(a) = 1 /\ a[1] = "inprogress" /\ DOMAIN a = 1..1
      /\ a \in Seq(Items \cup {"inprogress"})
  BY <1>3
<1>5. PICK s : s = a \o Tail(q)
  OBVIOUS
<1>6. /\ s \in Seq(Items \cup {"inprogress"}) /\ Len(s) = Len(q)
      /\ \A m \in 1..Len(q) : s[m] = IF m <= 1 THEN a[m] ELSE Tail(q)[m - 1]
      /\ DOMAIN s = 1..Len(q)
  <2>1. PICK t \in Seq(Items \cup {"inprogress"}) : t = Tail(q)
    BY <1>2
  <2>2. /\ a \o t \in Seq(Items \cup {"inprogress"}) /\ Len(a \o t) = Len(a) + Len(t)
        /\ \A m \in 1..(Len(a) + Len(t)) :
              (a \o t)[m] = IF m <= Len(a) THEN a[m] ELSE t[m - Len(a)]
    BY <1>4, ConcatProperties
  <2>3. /\ s \in Seq(Items \cup {"inprogress"}) /\ Len(s) = Len(a) + Len(Tail(q))
        /\ \A m \in 1..(Len(a) + Len(Tail(q))) :
                s[m] = IF m <= Len(a) THEN a[m] ELSE Tail(q)[m - Len(a)]
    BY <1>5, <2>1, <2>2
  <2>4. Len(a) + Len(Tail(q)) = Len(q)
    BY <1>1, <1>2, <1>4
  <2>5. QED
    BY <1>4, <2>3, <2>4, LenProperties
<1>7. s[1] = "inprogress" /\ \A m \in 2..Len(q) : s[m] = q[m]
  <2>1. s[1] = "inprogress"
    BY <1>1, <1>2, <1>4, <1>6
  <2>2. ASSUME NEW m \in 2..Len(q)
        PROVE  s[m] = q[m]
    <3>1. m - 1 \in 1..Len(Tail(q)) /\ m - 1 + 1 = m /\ m \in 1..Len(q) /\ ~(m <= 1)
      BY <1>1, <1>2
    <3>2. s[m] = Tail(q)[m - 1]
      BY <1>6, <3>1
    <3>3. Tail(q)[m - 1] = q[m - 1 + 1]
      BY <1>2, <3>1
    <3>4. QED
      BY <3>1, <3>2, <3>3
  <2>3. QED
    BY <2>1, <2>2
<1>8. \A m \in DOMAIN s : m = 1 \/ (m \in 2..Len(q) /\ m \in DOMAIN q /\ s[m] = q[m])
  BY <1>1, <1>6, <1>7
<1>9. /\ \A m \in DOMAIN s : s[m] = "inprogress" \/ Pending(s[m], e)
      /\ \A m \in DOMAIN s : s[m] = "inprogress" => m = 1
  BY <1>1, <1>7, <1>8
<1>10. \A m, n \in DOMAIN s : s[m] = s[n] => m = n
  BY <1>1, <1>7, <1>8, <1>9
<1>11. Pending(q[1], e) /\ q[1] # "inprogress"
  BY <1>1, <1>2
<1>12. \A m \in DOMAIN s : s[m] # q[1]
  BY <1>1, <1>2, <1>7, <1>8, <1>11
<1>13. s # <<>> /\ Head(s) = s[1]
  BY <1>1, <1>2, <1>6, EmptySeq, HeadTailProperties
<1>14. Begun(s, e, q[1])
  BY <1>6, <1>7, <1>9, <1>10, <1>11, <1>12, <1>13 DEF Begun, IsQueue
<1>15. QED
  BY <1>2, <1>3, <1>5, <1>14

\* An empty queue is one.
LEMMA EmptyQueue ==
    ASSUME NEW e \in Elements, queue'[e] = <<>>
    PROVE  QueueOK(e)'
<1>1. PICK s : s = <<>> /\ queue'[e] = s
  OBVIOUS
<1>2. s \in Seq(Items \cup {"inprogress"}) /\ DOMAIN s = {}
  BY <1>1
<1>3. IsQueue(s, e)'
  BY <1>2 DEF IsQueue
<1>4. IsQueue(queue[e], e)'
  BY <1>1, <1>3 DEF IsQueue, Pending
<1>5. \A m \in DOMAIN queue'[e] : FALSE
  BY <1>1, <1>2
<1>6. QED
  BY <1>4, <1>5 DEF QueueOK

\* dequeue changes no item or timer.
LEMMA DequeueEnd ==
    ASSUME IInv, NEW X, NEW L, NEW Y, NEW jobs, Turn(X, L), Follows(X, L, jobs, Y),
           NEW e \in Elements, ~Idle, Job = <<"dequeue", e>>,
           item' = item, finishing' = finishing, timers' = timers, interval' = interval,
           NewJobs(jobs)', queue[e] = <<>> => jobs = <<>>,
           QueuesOK', NothingQueued', HooksOK', NewStart, \A f \in Elements : Move(f)
    PROVE  IInv'
<1>1. /\ ItemsOK /\ TimersOK
      /\ X # <<>> /\ X \in Seq(JobSet) /\ Short(X)
  BY DEF IInv, StateOK, Follows, Turn
<1>2. Kept /\ AllPending /\ ItemsOK'
  BY <1>1, SameKept
<1>3. TimersGrow /\ TimersOK'
  BY <1>1, TimersSame
<1>4. todo' = Y \o L /\ Short(Y)'
  BY <1>1, <1>2, FollowsShort
<1>5. todo \in Seq(JobSet) /\ todo' \in Seq(JobSet)
  BY TopJob, FollowsCount
<1>6. ASSUME NEW f \in Elements, X = <<<<"dequeue", f>>>>, queue[f] = <<>>
      PROVE  Y = <<>> /\ timers' = timers
  <2>1. f = e
    BY <1>1, <1>6, TopJob
  <2>2. jobs = <<>> /\ Y = AfterTop(X, jobs)
    BY <1>6, <2>1 DEF Follows
  <2>3. Tail(X) = <<>>
    BY <1>6
  <2>4. QED
    BY <2>2, <2>3 DEF AfterTop
<1>7. PendingKept
  BY <1>2 DEF AllPending, PendingKept
<1>8. NoDelays => NoDelays'
  BY DEF NoDelays
<1>9. ShortMove(X, L, Y)
  BY <1>1, <1>2, <1>3, <1>4, <1>6, <1>7, <1>8 DEF ShortMove
<1>10. StateOK'
  BY <1>2, <1>3 DEF StateOK
<1>11. QED
  BY <1>5, <1>9, <1>10, ShortStep

\* It does nothing but to fire the empty callbacks if nothing follows.
LEMMA DequeueEmpty ==
    ASSUME IInv, NEW e \in Elements, ~Idle, Job = <<"dequeue", e>>, Then(<<>>), EmptyFires(e),
           item' = item, finishing' = finishing, timers' = timers, interval' = interval
    PROVE  IInv'
<1>1. PICK X, L : Turn(X, L)
  BY DEF IInv
<1>2. PICK Y : Follows(X, L, <<>>, Y)
  BY <1>1, ThenFollows, EmptySeq DEF ShortKinds
<1>3. /\ ItemsOK /\ TimersOK /\ HooksOK /\ QueuesOK /\ NothingQueued
      /\ todo \in Seq(JobSet) /\ todo' \in Seq(JobSet) /\ NumbersOK
  BY <1>1, <1>2, TopJob, FollowsCount, Numbers DEF IInv, StateOK
<1>4. /\ hooks \in [Elements -> HookSet] /\ \A f \in Elements : StopOK(f) /\ CountOK(f)
      /\ queue \in [Elements -> Seq(Items \cup {"inprogress"})]
      /\ \A f \in Elements : QueueOK(f)
  BY <1>3 DEF HooksOK, QueuesOK
<1>5. /\ queue' = [queue EXCEPT ![e] = <<>>]
      /\ hooks' = IF hooks[e].unqueued > 0 THEN hooks ELSE [hooks EXCEPT ![e] = NoHooks]
  BY DEF EmptyFires
<1>6. queue'[e] = <<>> /\ \A f \in Elements : f # e => queue'[f] = queue[f]
  BY <1>4, <1>5
<1>7. AllPending /\ \A f \in Elements : Running(f)' = Running(f) /\ R(f)' = R(f)
  BY SameKept
<1>8. ASSUME NEW f \in Elements
      PROVE  D(f)' = D(f) - (IF f = e THEN 1 ELSE 0) /\ U(f)' = U(f) /\ T(f)' = 0
  <2>1. ((Job = <<"dequeue", f>>) <=> (f = e)) /\ Job # <<"unqueued", f>>
    OBVIOUS
  <2>2. QED
    BY <1>1, <1>2, <2>1, EndNumbers
<1>9. ~StartsWith(todo') /\ T(e) = 0
  BY <1>1, <1>2, EndNumbers, NoStart DEF Doing
<1>10. D(e) \in Nat /\ D(e) > 0
  BY <1>3, TopCounted DEF D
<1>11. NoDelayRuns(e)
  BY <1>1, <1>3, <1>9, <1>10, NoDelay
<1>12. QueuesOK'
  <2>1. queue' \in [Elements -> Seq(Items \cup {"inprogress"})]
    BY <1>4, <1>5, EmptySeq
  <2>2. ASSUME NEW f \in Elements
        PROVE  QueueOK(f)'
    <3>1. CASE f = e
      BY <1>6, <3>1, EmptyQueue
    <3>2. CASE f # e
      <4>1. PICK s : s = queue[f]
        OBVIOUS
      <4>2. queue'[f] = s /\ IsQueue(s, f)
        BY <1>4, <1>6, <3>2, <4>1 DEF QueueOK
      <4>3. IsQueue(s, f)'
        BY <1>7, <4>2, IsQueueKept
      <4>4. IsQueue(queue[f], f)'
        BY <4>2, <4>3 DEF IsQueue, Pending
      <4>5. QED
        BY <1>4, <4>1, <4>2, <4>4 DEF QueueOK
    <3>3. QED
      BY <3>1, <3>2
  <2>3. QED
    BY <2>1, <2>2 DEF QueuesOK
<1>13. NothingQueued'
  BY <1>3, <1>6 DEF NothingQueued
<1>14. hooks' \in [Elements -> HookSet]
  <2>1. NoHooks \in HookSet
    BY DEF NoHooks, HookSet
  <2>2. QED
    BY <1>4, <1>5, <2>1
<1>15. ASSUME NEW f \in Elements
       PROVE  /\ hooks'[f].unqueued = hooks[f].unqueued
              /\ \/ hooks'[f].stop = hooks[f].stop
                 \/ hooks'[f].stop = None /\ NoDelayRuns(f)
  <2>1. CASE hooks' = hooks
    BY <2>1
  <2>2. CASE f # e
    BY <1>4, <1>5, <2>2
  <2>3. CASE f = e /\ ~(hooks[e].unqueued > 0)
    <3>1. hooks[e].unqueued \in Nat
      BY <1>4 DEF HookSet
    <3>2. hooks'[e] = NoHooks
      BY <1>4, <1>5, <2>3
    <3>3. QED
      BY <1>11, <2>3, <3>1, <3>2 DEF NoHooks
  <2>4. QED
    BY <1>5, <2>1, <2>2, <2>3
<1>16. ASSUME NEW f \in Elements
       PROVE  StopOK(f)' /\ CountOK(f)'
  BY <1>4, <1>8, <1>15, StopSame, CountSame
<1>17. HooksOK'
  BY <1>14, <1>16 DEF HooksOK
<1>18. ASSUME NEW f \in Elements
       PROVE  Move(f)
  <2>1. CASE f = e
    BY <1>6, <1>7, <1>8, <1>9, <2>1 DEF Move, DequeueMove
  <2>2. CASE f # e
    <3>1. D(f)' = D(f)
      BY <1>3, <1>8, <2>2 DEF NumbersOK
    <3>2. QED
      BY <1>3, <1>6, <1>7, <1>8, <2>2, <3>1, QuietMove
  <2>3. QED
    BY <2>1, <2>2
<1>19. NewStart /\ NewJobs(<<>>)'
  BY <1>9 DEF NewStart, NewJobs
<1>20. QED
  BY <1>1, <1>2, <1>12, <1>13, <1>17, <1>18, <1>19, DequeueEnd

\* A queue nothing happens to.
LEMMA QueueKept ==
    ASSUME NEW f \in Elements, QueueOK(f), queue'[f] = queue[f], AllPending
    PROVE  QueueOK(f)'
<1>1. PICK s : s = queue[f]
  OBVIOUS
<1>2. queue'[f] = s /\ IsQueue(s, f)
  BY <1>1 DEF QueueOK
<1>3. IsQueue(s, f)'
  BY <1>2, IsQueueKept
<1>4. IsQueue(queue[f], f)'
  BY <1>2, <1>3 DEF IsQueue, Pending
<1>5. QED
  BY <1>1, <1>2, <1>4 DEF QueueOK

\* The next item of a queue starts.
LEMMA DequeueBegins ==
    ASSUME IInv, NEW e \in Elements, ~Idle, Job = <<"dequeue", e>>, queue[e] # <<>>,
           NEW s, NEW i, Begun(s, e, i), Then(<<<<"start", i>>>>),
           queue' = [queue EXCEPT ![e] = s],
           hooks' = [hooks EXCEPT ![e].present = TRUE, ![e].stop = None],
           item' = item, finishing' = finishing, timers' = timers, interval' = interval
    PROVE  IInv'
<1>1. PICK X, L : Turn(X, L)
  BY DEF IInv
<1>2. /\ i \in Items /\ Pending(i, e) /\ \A m \in DOMAIN s : s[m] # i
      /\ IsQueue(s, e) /\ s # <<>> /\ Head(s) = "inprogress"
      /\ \A m \in DOMAIN s : s[m] = "inprogress" => m = 1
      /\ s \in Seq(Items \cup {"inprogress"})
      /\ item[i].st = "waiting" /\ item[i].queued /\ item[i].elem = e
  BY DEF Begun, Pending, IsQueue
<1>3. PICK jobs : jobs = <<<<"start", i>>>>
  OBVIOUS
<1>4. jobs \in Seq(JobSet) /\ jobs # <<>> /\ Head(jobs) = <<"start", i>> /\ jobs[1] = <<"start", i>>
  <2>1. <<"start", i>> \in JobSet
    BY <1>2, JobTypes
  <2>2. QED
    BY <1>3, <2>1
<1>5. PICK Y : Follows(X, L, jobs, Y)
  BY <1>1, <1>3, <1>4, ThenFollows DEF ShortKinds
<1>6. /\ ItemsOK /\ TimersOK /\ HooksOK /\ QueuesOK /\ NothingQueued
      /\ todo \in Seq(JobSet) /\ todo' \in Seq(JobSet) /\ NumbersOK
  BY <1>1, <1>5, TopJob, FollowsCount, Numbers DEF IInv, StateOK
<1>7. /\ hooks \in [Elements -> HookSet] /\ \A f \in Elements : StopOK(f) /\ CountOK(f)
      /\ queue \in [Elements -> Seq(Items \cup {"inprogress"})]
      /\ \A f \in Elements : QueueOK(f)
  BY <1>6 DEF HooksOK, QueuesOK
<1>8. queue'[e] = s /\ \A f \in Elements : f # e => queue'[f] = queue[f]
  BY <1>7
<1>9. AllPending /\ \A f \in Elements : Running(f)' = Running(f) /\ R(f)' = R(f)
  BY SameKept
<1>10. todo' # <<>> /\ Head(todo') = <<"start", i>> /\ StartsWith(todo')
  <2>1. PICK t : t = Tail(todo)
    OBVIOUS
  <2>2. t \in Seq(JobSet)
    BY <1>6, <2>1, HeadTailProperties DEF Idle
  <2>3. Goes(JobSet, jobs, t, jobs)
    BY <1>4, <2>2, AfterTopFacts
  <2>4. jobs \o t # <<>> /\ Head(jobs \o t) = jobs[1]
    BY <2>3 DEF Goes
  <2>5. todo' = jobs \o t
    BY <1>3, <2>1 DEF Then
  <2>6. QED
    BY <1>4, <2>4, <2>5 DEF StartsWith
<1>11. /\ ~Doing("start") /\ T(e) = 0
       /\ \A f \in Elements : T(f)' = IF f = e THEN 1 ELSE 0
  <2>1. ~Doing("start") /\ T(e) = 0
    BY NoStart DEF Doing
  <2>2. Doing("start")' /\ Job' = <<"start", i>>
    BY <1>10, StartsNext
  <2>3. \A f \in Elements : T(f)' = IF item'[i].queued /\ item'[i].elem = f THEN 1 ELSE 0
    BY <2>2 DEF T
  <2>4. QED
    BY <1>2, <2>1, <2>3
<1>12. ASSUME NEW f \in Elements
       PROVE  D(f)' = D(f) - (IF f = e THEN 1 ELSE 0) /\ U(f)' = U(f) /\ U(f) \in Nat
  <2>1. ((Job = <<"dequeue", f>>) <=> (f = e)) /\ Job # <<"unqueued", f>>
    OBVIOUS
  <2>2. OnlyJob(jobs, "start", i)
    BY <1>2, <1>3, CountJob, JobTypes
  <2>3. Count(jobs, <<"dequeue", f>>) = 0 /\ Count(jobs, <<"unqueued", f>>) = 0
    BY <2>2 DEF OnlyJob
  <2>4. /\ Count(todo', <<"dequeue", f>>) =
                Count(todo, <<"dequeue", f>>) + Count(jobs, <<"dequeue", f>>)
                    - (IF Job = <<"dequeue", f>> THEN 1 ELSE 0)
        /\ Count(todo, <<"dequeue", f>>) \in Nat
    BY <1>5, FollowsCount
  <2>5. /\ Count(todo', <<"unqueued", f>>) =
                Count(todo, <<"unqueued", f>>) + Count(jobs, <<"unqueued", f>>)
                    - (IF Job = <<"unqueued", f>> THEN 1 ELSE 0)
        /\ Count(todo, <<"unqueued", f>>) \in Nat
    BY <1>5, FollowsCount
  <2>6. QED
    BY <2>1, <2>3, <2>4, <2>5 DEF D, U
<1>13. D(e) \in Nat /\ D(e) > 0
  BY <1>6, TopCounted DEF D
<1>14. NoDelayRuns(e)
  BY <1>1, <1>6, <1>11, <1>13, NoDelay
<1>15. ASSUME NEW f \in Elements
       PROVE  QueueOK(f)' /\ \A m \in DOMAIN queue'[f] : queue'[f][m] # i
  <2>1. CASE f = e
    <3>1. IsQueue(s, e)'
      BY <1>2, <1>9, IsQueueKept
    <3>2. IsQueue(queue[e], e)'
      BY <1>8, <3>1 DEF IsQueue, Pending
    <3>3. QED
      BY <1>2, <1>8, <2>1, <3>2 DEF QueueOK
  <2>2. CASE f # e
    <3>1. QueueOK(f)'
      BY <1>7, <1>8, <1>9, <2>2, QueueKept
    <3>2. ASSUME NEW m \in DOMAIN queue[f], queue[f][m] = i
          PROVE  FALSE
      <4>1. i = "inprogress" \/ Pending(i, f)
        BY <1>7, <3>2 DEF QueueOK, IsQueue
      <4>2. QED
        BY <1>2, <2>2, <4>1, FxAssumption DEF Pending
    <3>3. QED
      BY <1>8, <2>2, <3>1, <3>2
  <2>3. QED
    BY <2>1, <2>2
<1>16. QueuesOK'
  <2>1. queue' \in [Elements -> Seq(Items \cup {"inprogress"})]
    BY <1>2, <1>7
  <2>2. QED
    BY <1>15, <2>1 DEF QueuesOK
<1>17. NothingQueued'
  BY <1>6 DEF NothingQueued
<1>18. /\ hooks' \in [Elements -> HookSet]
       /\ \A f \in Elements : hooks'[f].unqueued = hooks[f].unqueued
       /\ \A f \in Elements : f # e => hooks'[f].stop = hooks[f].stop
       /\ hooks'[e].stop = None
  <2>1. hooks' = [hooks EXCEPT ![e] = [hooks[e] EXCEPT !.present = TRUE, !.stop = None]]
    BY <1>7
  <2>2. PICK h : h = [hooks[e] EXCEPT !.present = TRUE, !.stop = None]
    OBVIOUS
  <2>3. h \in HookSet /\ h.unqueued = hooks[e].unqueued /\ h.stop = None
    BY <1>7, <2>2 DEF HookSet
  <2>4. hooks' = [hooks EXCEPT ![e] = h]
    BY <2>1, <2>2
  <2>5. QED
    BY <1>7, <2>3, <2>4
<1>19. ASSUME NEW f \in Elements
       PROVE  StopOK(f)' /\ CountOK(f)'
  BY <1>7, <1>12, <1>14, <1>18, StopSame, CountSame
<1>20. HooksOK'
  BY <1>18, <1>19 DEF HooksOK
<1>21. ASSUME NEW f \in Elements
       PROVE  Move(f)
  <2>1. CASE f = e
    <3>1. SentinelFirst(queue'[e])
      BY <1>2, <1>8 DEF SentinelFirst
    <3>2. QED
      BY <1>2, <1>8, <1>9, <1>11, <1>12, <2>1, <3>1 DEF Move, DequeueMove
  <2>2. CASE f # e
    <3>1. D(f)' = D(f)
      BY <1>6, <1>12, <2>2 DEF NumbersOK
    <3>2. QED
      BY <1>6, <1>8, <1>9, <1>11, <2>2, <3>1, QuietMove
  <2>3. QED
    BY <2>1, <2>2
<1>22. NewStart
  BY <1>2, <1>10 DEF NewStart
<1>23. NewJobs(jobs)'
  <2>1. StartOK(i)'
    BY <1>2, <1>15 DEF StartOK
  <2>2. ShortOK(<<"start", i>>)'
    BY <1>2, <2>1 DEF ShortOK
  <2>3. QED
    BY <1>3, <2>2 DEF NewJobs
<1>24. QED
  BY <1>1, <1>5, <1>16, <1>17, <1>20, <1>21, <1>22, <1>23, DequeueEnd

\* A call of dequeue keeps IInv: whoever had the right to go on passes it to
\* what it starts, or the queue is empty.
LEMMA DequeueStep ==
    ASSUME IInv, Dequeue
    PROVE  IInv'
<1>1. PICK X, L : Turn(X, L)
  BY DEF IInv
<1>2. /\ ~Idle /\ Job[1] = "dequeue" /\ item' = item /\ finishing' = finishing
      /\ timers' = timers /\ interval' = interval
  BY DEF Dequeue, Doing
<1>3. PICK e \in Elements : Job = <<"dequeue", e>>
  BY <1>1, <1>2, TopIsShort, ShortFacts DEF ShortKinds
<1>4. PICK q : q = NextOf(e)
  OBVIOUS
<1>5. CASE q = <<>>
  <2>1. EmptyFires(e) /\ Then(<<>>)
    BY <1>3, <1>4, <1>5 DEF Dequeue, NextOf
  <2>2. QED
    BY <1>2, <1>3, <2>1, DequeueEmpty
<1>6. CASE q # <<>>
  <2>1. /\ queue' = [queue EXCEPT ![e] = <<"inprogress">> \o Tail(q)]
        /\ hooks' = [hooks EXCEPT ![e].present = TRUE, ![e].stop = None]
        /\ Then(<<<<"start", Head(q)>>>>)
    BY <1>3, <1>4, <1>6 DEF Dequeue, NextOf
  <2>2. QueueOK(e)
    BY DEF IInv, StateOK, QueuesOK
  <2>3. Waiting(q, e) /\ queue[e] # <<>>
    BY <1>4, <1>6, <2>2, QueueNext
  <2>4. PICK s, i : s = <<"inprogress">> \o Tail(q) /\ i = Head(q)
    OBVIOUS
  <2>5. Begun(s, e, i)
    BY <1>6, <2>3, <2>4, QueueBegun
  <2>6. queue' = [queue EXCEPT ![e] = s] /\ Then(<<<<"start", i>>>>)
    BY <2>1, <2>4
  <2>7. QED
    BY <1>2, <1>3, <2>1, <2>3, <2>5, <2>6, DequeueBegins
<1>7. QED
  BY <1>5, <1>6

-----------------------------------------------------------------------------
(* A start, or a forced end.                                               *)

\* The counts of the hooks, as an item turns.
LEMMA CountTurn ==
    ASSUME NEW e \in Elements, CountOK(e), ItemsOK, NEW i \in Items, NEW s \in EndStates,
           Turns(i, s), hooks[e].unqueued \in Nat, U(e) \in Nat, U(e)' \in Nat,
           NEW n \in {0, 1}, n = IF s = "running" THEN 1 ELSE 0,
           item[i].queued \/ item[i].elem # e =>
                hooks'[e].unqueued = hooks[e].unqueued /\ U(e)' = U(e),
           ~item[i].queued /\ item[i].elem = e /\ ~Started(i) =>
                hooks'[e].unqueued = hooks[e].unqueued + 1 /\ U(e)' + n = U(e) + 1,
           ~item[i].queued /\ item[i].elem = e /\ Started(i) =>
                /\ hooks'[e].unqueued = hooks[e].unqueued
                /\ IF item[i].st = "running" THEN U(e)' + n = U(e) + 1
                                             ELSE U(e)' = U(e) /\ n = 0
    PROVE  CountOK(e)'
<1>1. /\ Cardinality(RunningUnqueued(e)) \in Nat /\ Cardinality(StartedUnqueued(e)) \in Nat
      /\ Cardinality(RunningUnqueued(e)) + U(e) <= hooks[e].unqueued
      /\ hooks[e].unqueued <= Cardinality(StartedUnqueued(e))
  BY CardinalityTypes DEF CountOK, U
<1>2. /\ Cardinality(RunningUnqueued(e)') =
            Cardinality(RunningUnqueued(e)) - (IF i \in RunningUnqueued(e) THEN 1 ELSE 0)
                + (IF item[i].elem = e /\ ~item[i].queued /\ s = "running" THEN 1 ELSE 0)
      /\ Cardinality(StartedUnqueued(e)') =
            Cardinality(StartedUnqueued(e)) - (IF i \in StartedUnqueued(e) THEN 1 ELSE 0)
                + (IF item[i].elem = e /\ ~item[i].queued THEN 1 ELSE 0)
  BY TurnsCounts
<1>3. /\ (i \in RunningUnqueued(e)) <=>
            (item[i].elem = e /\ ~item[i].queued /\ item[i].st = "running")
      /\ (i \in StartedUnqueued(e)) <=> (item[i].elem = e /\ ~item[i].queued /\ Started(i))
      /\ item[i].st = "running" => Started(i)
  BY DEF RunningUnqueued, StartedUnqueued, Started
<1>4. /\ Cardinality(RunningUnqueued(e)') + U(e)' <= hooks'[e].unqueued
      /\ hooks'[e].unqueued <= Cardinality(StartedUnqueued(e)')
  <2>1. CASE item[i].queued \/ item[i].elem # e
    BY <1>1, <1>2, <1>3, <2>1
  <2>2. CASE ~item[i].queued /\ item[i].elem = e /\ ~Started(i)
    BY <1>1, <1>2, <1>3, <2>2
  <2>3. CASE ~item[i].queued /\ item[i].elem = e /\ Started(i)
    <3>1. CASE item[i].st = "running"
      BY <1>1, <1>2, <1>3, <2>3, <3>1
    <3>2. CASE item[i].st # "running"
      BY <1>1, <1>2, <1>3, <2>3, <3>2
    <3>3. QED
      BY <3>1, <3>2
  <2>4. QED
    BY <2>1, <2>2, <2>3
<1>5. QED
  BY <1>4 DEF CountOK, U

\* The right to go on with the queue of the element is passed on.
Passed(e) ==
    /\ R(e)' + D(e)' = R(e) + T(e) + D(e)
    /\ R(e)' <= R(e) + T(e)
    /\ T(e) = 0 => Running(e)' \subseteq Running(e)
    /\ T(e) = 0 /\ finishing = {} => R(e)' = R(e)
    /\ FinishesOld(e) => \A i \in Running(e)' : todo' # <<>> /\ Head(todo') = <<"force", i>>

\* The step of a start or of a forced end of i, but for what it calls.
LEMMA ItemEnd ==
    ASSUME IInv, NEW X, NEW L, NEW Y, NEW jobs, Turn(X, L), Follows(X, L, jobs, Y),
           NEW kind \in {"start", "force"}, NEW i \in Items, ~Idle, Job = <<kind, i>>,
           NEW s \in EndStates, Turns(i, s), Settled(i) => s # "running",
           queue' = queue, finishing' = finishing,
           NEW e \in Elements, item[i].elem = e,
           NEW p \in Nat, NEW q \in Nat, Jobs(jobs, e, p, q), Passed(e),
           ItemsOK', TimersOK', TimersGrow, HooksOK'
    PROVE  IInv'
<1>1. /\ ItemsOK /\ QueuesOK /\ NothingQueued
      /\ X # <<>> /\ X \in Seq(JobSet) /\ Short(X) /\ ShortOK(Job)
  BY TopJob DEF IInv, StateOK, Follows, Turn
<1>2. todo \in Seq(JobSet) /\ todo' \in Seq(JobSet) /\ NumbersOK
  BY TopJob, FollowsCount, Numbers
<1>3. Kept /\ OthersPending(i) /\ (item[i].st # "waiting" => AllPending)
  BY TurnsKept DEF EndStates
<1>4. /\ kind = "start" => StartOK(i)
      /\ kind = "force" => item[i].st # "waiting"
  <2>1. Job[1] = kind /\ Job[2] = i
    OBVIOUS
  <2>2. QED
    BY <1>1, <2>1, ShortFacts DEF HandlerOK, Started
<1>5. todo' = Y \o L /\ Short(Y)'
  BY <1>1, <1>3, FollowsShort DEF Jobs
<1>6. QueuesOK' /\ NothingQueued'
  BY <1>1, <1>3, <1>4, QueuesSame DEF NothingQueued
<1>7. PendingKept
  <2>1. CASE kind = "start"
    BY <1>3, <2>1 DEF OthersPending, PendingKept, Doing
  <2>2. CASE kind = "force"
    BY <1>3, <1>4, <2>2 DEF AllPending, PendingKept
  <2>3. QED
    BY <2>1, <2>2
<1>8. ASSUME NEW f \in Elements
      PROVE  NumbersAfter(f, e, p, q)
  BY FollowsNumbers
<1>9. ASSUME NEW f \in Elements
      PROVE  Move(f)
  <2>1. NumbersAfter(f, e, p, q)
    BY <1>8
  <2>2. /\ D(f) \in Nat /\ T(f)' = 0 /\ Job # <<"dequeue", f>>
        /\ D(f)' = D(f) + (IF f = e THEN p ELSE 0)
    BY <2>1 DEF NumbersAfter
  <2>3. CASE f = e
    BY <2>2, <2>3 DEF Passed, Move, TokenMove
  <2>4. CASE f # e
    <3>1. D(f)' = D(f)
      BY <2>2, <2>4
    <3>2. Running(f)' = Running(f) \ {i} /\ i \notin Running(f)
      BY <1>1, <2>4, TurnsSets DEF Running
    <3>3. Running(f)' = Running(f)
      BY <3>2
    <3>4. T(f) = 0
      BY <2>4 DEF T, Doing
    <3>5. \A k \in Running(f) : Job # <<"force", k>>
      BY <3>2
    <3>6. QED
      BY <1>2, <2>2, <3>1, <3>3, <3>4, <3>5, NoMove
  <2>5. QED
    BY <2>3, <2>4
<1>10. ~StartsWith(todo')
  BY FollowsStart DEF Jobs
<1>11. \A f \in Elements : X # <<<<"dequeue", f>>>>
  BY TopJob
<1>12. NoDelays => NoDelays'
  BY DEF NoDelays, Turns
<1>13. ShortMove(X, L, Y)
  BY <1>1, <1>3, <1>5, <1>7, <1>9, <1>10, <1>11, <1>12 DEF ShortMove, NewStart
<1>14. StateOK'
  BY <1>6 DEF StateOK
<1>15. QED
  BY <1>2, <1>13, <1>14, ShortStep

\* What a start is about.
LEMMA StartFacts ==
    ASSUME IInv, NEW X, NEW L, Turn(X, L), ~Idle, Job[1] \in {"start", "force"}
    PROVE  \E i \in Items, e \in Elements :
                /\ Job = <<Job[1], i>> /\ item[i].elem = e /\ item[i] \in ItemSet
                /\ item[i].kind # None /\ (item[i].kind = "delay" => item[i].queued)
                /\ (item[i].stopped => Settled(i))
                /\ Job[1] = "start" => StartOK(i)
                /\ Job[1] = "force" => HandlerOK(i) /\ finishing # {}
<1>1. ShortOK(Job)
  BY TopIsShort DEF ShortKinds
<1>2. PICK i \in Items : /\ Job = <<Job[1], i>>
                         /\ Job[1] = "start" => StartOK(i)
                         /\ Job[1] = "force" => HandlerOK(i) /\ finishing # {}
  BY <1>1, ShortFacts
<1>3. item[i] \in ItemSet /\ ItemOK(i)
  BY DEF IInv, StateOK, ItemsOK
<1>4. item[i].kind # None
  BY <1>2, <1>3, FxAssumption DEF StartOK, HandlerOK, ItemOK
<1>5. QED
  BY <1>2, <1>3, <1>4 DEF ItemOK

\* The start of a delay keeps IInv.
LEMMA StartDelayStep ==
    ASSUME IInv, StartDelay
    PROVE  IInv'
<1>1. PICK X, L : Turn(X, L)
  BY DEF IInv
<1>2. /\ ~Idle /\ Job[1] = "start" /\ queue' = queue /\ finishing' = finishing
      /\ timers' = timers /\ interval' = interval /\ Then(<<>>)
  BY DEF StartDelay, Doing
<1>3. PICK i \in Items, e \in Elements :
            /\ Job = <<"start", i>> /\ item[i].elem = e /\ item[i] \in ItemSet
            /\ item[i].kind # None /\ (item[i].kind = "delay" => item[i].queued)
            /\ StartOK(i)
  BY <1>1, <1>2, StartFacts
<1>4. /\ item[i].kind = "delay" /\ item[i].queued /\ item[i].st = "waiting"
      /\ item' = [item EXCEPT ![i].st = "running"]
      /\ hooks' = [hooks EXCEPT ![e].stop = i]
  BY <1>3 DEF StartDelay, StartOK
<1>5. PICK Y : Follows(X, L, <<>>, Y)
  BY <1>1, <1>2, ThenFollows, EmptySeq DEF ShortKinds
<1>6. /\ ItemsOK /\ TimersOK /\ HooksOK /\ QueuesOK /\ NothingQueued
      /\ todo \in Seq(JobSet) /\ todo' \in Seq(JobSet) /\ NumbersOK
  BY <1>1, <1>5, TopJob, FollowsCount, Numbers DEF IInv, StateOK
<1>7. /\ hooks \in [Elements -> HookSet] /\ \A f \in Elements : StopOK(f) /\ CountOK(f)
  BY <1>6 DEF HooksOK
<1>8. PICK s \in EndStates : s = "running"
  BY DEF EndStates
<1>9. Turns(i, s) /\ ItemsOK'
  BY <1>3, <1>4, <1>6, <1>8, StTurns DEF Settled
<1>10. TimersOK' /\ TimersGrow
  BY <1>2, <1>4, <1>6, <1>9, TimersTurn, TimersSame, FxAssumption
<1>11. T(e) = 1 /\ Doing("start") /\ Job[2] = i
  BY <1>2, <1>3, <1>4 DEF T, Doing
<1>12. NoDelayRuns(e)
  BY <1>1, <1>2, <1>4, <1>6, <1>11, NoDelay
<1>13. ASSUME NEW f \in Elements
       PROVE  /\ D(f) \in Nat /\ U(f) \in Nat /\ D(f)' = D(f) /\ U(f)' = U(f)
              /\ hooks[f].unqueued \in Nat
  <2>1. Job # <<"dequeue", f>> /\ Job # <<"unqueued", f>>
    BY <1>3
  <2>2. QED
    BY <1>1, <1>5, <1>7, <2>1, EndNumbers DEF HookSet
<1>14. /\ hooks' \in [Elements -> HookSet] /\ hooks'[e].stop = i
       /\ \A f \in Elements : f # e => hooks'[f] = hooks[f]
       /\ hooks'[e].unqueued = hooks[e].unqueued
  <2>1. PICK h : h = [hooks[e] EXCEPT !.stop = i]
    OBVIOUS
  <2>2. h \in HookSet /\ h.stop = i /\ h.unqueued = hooks[e].unqueued
    BY <1>7, <2>1 DEF HookSet
  <2>3. hooks' = [hooks EXCEPT ![e] = h]
    BY <1>4, <2>1
  <2>4. QED
    BY <1>7, <2>2, <2>3
<1>15. ASSUME NEW f \in Elements
       PROVE  StopOK(f)' /\ CountOK(f)'
  <2>1. hooks'[f].unqueued = hooks[f].unqueued
    BY <1>14
  <2>2. CountOK(f)'
    BY <1>4, <1>6, <1>7, <1>8, <1>9, <1>13, <2>1, CountTurn
  <2>3. CASE f = e
    <3>1. \A k \in Items : k # i => item'[k] = item[k]
      BY <1>9 DEF Turns
    <3>2. /\ item'[i].kind = "delay" /\ item'[i].elem = e /\ item'[i].st = "running"
      BY <1>3, <1>4, <1>8, <1>9 DEF Turns
    <3>3. StopOK(e)'
      BY <1>12, <1>14, <3>1, <3>2 DEF StopOK, Started, NoDelayRuns
    <3>4. QED
      BY <2>2, <2>3, <3>3
  <2>4. CASE f # e
    BY <1>3, <1>7, <1>9, <1>14, <2>2, <2>4, StopTurn
  <2>5. QED
    BY <2>3, <2>4
<1>16. HooksOK'
  BY <1>14, <1>15 DEF HooksOK
<1>17. Passed(e)
  <2>1. R(e)' = R(e) + 1
    <3>1. i \notin Running(e)
      BY <1>4 DEF Running
    <3>2. R(e)' = R(e) - (IF i \in Running(e) THEN 1 ELSE 0)
                    + (IF item[i].elem = e /\ item[i].queued /\ s = "running" THEN 1 ELSE 0)
      BY <1>6, <1>9, TurnsCounts
    <3>3. R(e) \in Nat
      BY <1>6 DEF NumbersOK
    <3>4. QED
      BY <1>3, <1>4, <1>8, <3>1, <3>2, <3>3
  <2>2. ~FinishesOld(e)
    BY <1>3, <1>4, <1>11 DEF FinishesOld
  <2>3. R(e) \in Nat /\ D(e)' = D(e) /\ D(e) \in Nat
    BY <1>6, <1>13 DEF NumbersOK
  <2>4. QED
    BY <1>11, <2>1, <2>2, <2>3 DEF Passed
<1>18. PICK z \in Nat : z = 0
  OBVIOUS
<1>19. Jobs(<<>>, e, z, z)
  BY <1>18, NoJobs
<1>20. Settled(i) => s # "running"
  BY <1>4 DEF Settled
<1>21. QED
  BY <1>1, <1>2, <1>3, <1>5, <1>9, <1>10, <1>16, <1>17, <1>19, <1>20, ItemEnd

\* An animation starts: it goes on to s, and calls the jobs.
LEMMA AnimationStarts ==
    ASSUME IInv, NEW X, NEW L, Turn(X, L), NEW i \in Items, NEW e \in Elements, ~Idle,
           Job = <<"start", i>>, item[i].elem = e, item[i] \in ItemSet, item[i].kind = "anim",
           StartOK(i), NEW s \in {"running", "resolved"}, item' = [item EXCEPT ![i].st = s],
           queue' = queue, finishing' = finishing,
           hooks' = IF item[i].queued THEN hooks
                    ELSE [hooks EXCEPT ![e].present = TRUE, ![e].unqueued = @ + 1],
           s = "running" => timers' = Append(timers, i) /\ interval' = TRUE,
           s = "resolved" => timers' = timers /\ interval' = interval,
           NEW p \in Nat, NEW q \in Nat, NEW jobs, Jobs(jobs, e, p, q), Then(jobs),
           p = IF item[i].queued /\ s = "resolved" THEN 1 ELSE 0,
           q = IF ~item[i].queued /\ s = "resolved" THEN 1 ELSE 0,
           s = "running" /\ e \in finishing => jobs = <<<<"force", i>>>>
    PROVE  IInv'
<1>1. jobs \in Seq(JobSet) /\ Job[1] = "start" /\ Job[2] = i /\ Doing("start")
  BY DEF Jobs, Doing
<1>2. PICK Y : Follows(X, L, jobs, Y)
  BY <1>1, ThenFollows DEF ShortKinds
<1>3. /\ ItemsOK /\ TimersOK /\ HooksOK /\ QueuesOK /\ NothingQueued
      /\ todo \in Seq(JobSet) /\ todo' \in Seq(JobSet) /\ NumbersOK
  BY <1>2, TopJob, FollowsCount, Numbers DEF IInv, StateOK
<1>4. /\ hooks \in [Elements -> HookSet] /\ \A f \in Elements : StopOK(f) /\ CountOK(f)
  BY <1>3 DEF HooksOK
<1>5. item[i].st = "waiting" /\ item[i].queued \in BOOLEAN /\ s \in EndStates
  BY DEF StartOK, ItemSet, EndStates
<1>6. Turns(i, s) /\ ItemsOK'
  BY <1>3, <1>5, FxAssumption, StTurns DEF Settled
<1>7. TimersOK' /\ TimersGrow
  <2>1. CASE s = "running"
    BY <1>3, <1>5, <1>6, <2>1, TimersAppend
  <2>2. CASE s = "resolved"
    <3>1. TimersOK'
      BY <1>3, <1>5, <1>6, <2>2, TimersTurn
    <3>2. QED
      BY <1>3, <2>2, <3>1, TimersSame
  <2>3. QED
    BY <2>1, <2>2
<1>8. ASSUME NEW f \in Elements
      PROVE  /\ D(f) \in Nat /\ U(f) \in Nat /\ D(f)' = D(f) + (IF f = e THEN p ELSE 0)
             /\ U(f)' = U(f) + (IF f = e THEN q ELSE 0)
             /\ hooks[f].unqueued \in Nat
  <2>1. Job # <<"dequeue", f>> /\ Job # <<"unqueued", f>>
    OBVIOUS
  <2>2. NumbersAfter(f, e, p, q)
    BY <1>2, FollowsNumbers
  <2>3. QED
    BY <1>4, <2>1, <2>2 DEF HookSet, NumbersAfter
<1>9. /\ hooks' \in [Elements -> HookSet]
      /\ \A f \in Elements : hooks'[f].stop = hooks[f].stop
      /\ \A f \in Elements : f # e \/ item[i].queued => hooks'[f].unqueued = hooks[f].unqueued
      /\ ~item[i].queued => hooks'[e].unqueued = hooks[e].unqueued + 1
  <2>1. CASE item[i].queued
    BY <1>4, <2>1
  <2>2. CASE ~item[i].queued
    <3>1. PICK m \in Nat : m = hooks[e].unqueued + 1
      BY <1>4 DEF HookSet
    <3>2. PICK h : h = [hooks[e] EXCEPT !.present = TRUE, !.unqueued = m]
      OBVIOUS
    <3>3. h \in HookSet /\ h.stop = hooks[e].stop /\ h.unqueued = m
      BY <1>4, <3>2 DEF HookSet
    <3>4. hooks' = [hooks EXCEPT ![e] = h]
      BY <1>4, <2>2, <3>1, <3>2
    <3>5. QED
      BY <1>4, <2>2, <3>1, <3>3, <3>4
  <2>3. QED
    BY <1>5, <2>1, <2>2
<1>10. PICK n \in {0, 1} : n = IF s = "running" THEN 1 ELSE 0
  OBVIOUS
<1>11. ASSUME NEW f \in Elements
       PROVE  StopOK(f)' /\ CountOK(f)'
  <2>1. StopOK(f)'
    BY <1>4, <1>5, <1>6, <1>9, StopTurn
  <2>2. /\ U(f) \in Nat /\ U(f)' = U(f) + (IF f = e THEN q ELSE 0)
        /\ hooks[f].unqueued \in Nat /\ U(f)' \in Nat
    BY <1>8
  <2>3. /\ item[i].queued \/ item[i].elem # f =>
            hooks'[f].unqueued = hooks[f].unqueued /\ U(f)' = U(f)
        /\ ~item[i].queued /\ item[i].elem = f /\ ~Started(i) =>
            hooks'[f].unqueued = hooks[f].unqueued + 1 /\ U(f)' + n = U(f) + 1
    BY <1>9, <1>10, <2>2
  <2>4. ~Started(i)
    BY <1>5 DEF Started
  <2>5. CountOK(f)'
    BY <1>3, <1>4, <1>5, <1>6, <1>10, <2>2, <2>3, <2>4, CountTurn
  <2>6. QED
    BY <2>1, <2>5
<1>12. HooksOK'
  BY <1>9, <1>11 DEF HooksOK
<1>13. Passed(e)
  <2>1. R(e) \in Nat /\ D(e) \in Nat /\ D(e)' = D(e) + p
    BY <1>3, <1>8 DEF NumbersOK
  <2>2. R(e)' = R(e) + (IF item[i].queued /\ s = "running" THEN 1 ELSE 0)
    <3>1. i \notin Running(e)
      BY <1>5 DEF Running
    <3>2. R(e)' = R(e) - (IF i \in Running(e) THEN 1 ELSE 0)
                    + (IF item[i].elem = e /\ item[i].queued /\ s = "running" THEN 1 ELSE 0)
      BY <1>3, <1>5, <1>6, TurnsCounts
    <3>3. QED
      BY <2>1, <3>1, <3>2
  <2>3. Running(e)' = IF item[i].queued /\ s = "running"
                      THEN Running(e) \cup {i} ELSE Running(e) \ {i}
    BY <1>3, <1>5, <1>6, TurnsSets
  <2>4. T(e) = IF item[i].queued THEN 1 ELSE 0
    BY <1>1 DEF T
  <2>5. ASSUME FinishesOld(e), NEW k \in Running(e)'
        PROVE  todo' # <<>> /\ Head(todo') = <<"force", k>>
    <3>1. Running(e) = {}
      <4>1. \A j \in Running(e) : Job = <<"force", j>>
        BY <2>5 DEF FinishesOld
      <4>2. QED
        BY <4>1
    <3>2. k = i /\ item[i].queued /\ s = "running"
      BY <2>3, <2>5, <3>1
    <3>3. T(e) = 1 /\ queue[e] = <<>>
      BY <2>4, <2>5, <3>2 DEF FinishesOld
    <3>4. finishing = {e}
      <4>1. ~Ordinary(e)
        BY <3>3 DEF Ordinary
      <4>2. \A m, g : ~Stops(e, m, g)
        BY <3>3 DEF Stops, Halting
      <4>3. \A m : ~Finishes(e, m)
        BY <3>3 DEF Finishes, Halting
      <4>4. QED
        BY <4>1, <4>2, <4>3, Modes
    <3>5. jobs = <<<<"force", i>>>>
      BY <3>2, <3>4
    <3>6. jobs # <<>> /\ jobs[1] = <<"force", i>>
      BY <3>5
    <3>7. PICK t \in Seq(JobSet) : t = Tail(todo)
      BY <1>3, HeadTailProperties DEF Idle
    <3>8. Goes(JobSet, jobs, t, jobs)
      BY <1>1, <3>6, AfterTopFacts
    <3>9. todo' = jobs \o t
      BY <3>7 DEF Then
    <3>10. QED
      BY <3>2, <3>6, <3>8, <3>9 DEF Goes
  <2>6. /\ R(e)' + D(e)' = R(e) + T(e) + D(e)
        /\ R(e)' <= R(e) + T(e)
        /\ T(e) = 0 /\ finishing = {} => R(e)' = R(e)
    BY <1>5, <2>1, <2>2, <2>4
  <2>7. T(e) = 0 => Running(e)' \subseteq Running(e)
    BY <2>3, <2>4
  <2>8. QED
    BY <2>5, <2>6, <2>7 DEF Passed
<1>14. ~Settled(i)
  BY <1>5 DEF Settled
<1>15. QED
  BY <1>2, <1>5, <1>6, <1>7, <1>12, <1>13, <1>14, ItemEnd

\* The start of an animation, its first tick included, keeps IInv.
LEMMA StartAnimationStep ==
    ASSUME IInv, StartAnimation
    PROVE  IInv'
<1>1. PICK X, L : Turn(X, L)
  BY DEF IInv
<1>2. ~Idle /\ Job[1] = "start" /\ queue' = queue /\ finishing' = finishing
  BY DEF StartAnimation, Doing
<1>3. PICK i \in Items, e \in Elements :
            /\ Job = <<"start", i>> /\ item[i].elem = e /\ item[i] \in ItemSet
            /\ StartOK(i)
  BY <1>1, <1>2, StartFacts
<1>4. item[i].kind = "anim" /\ item[i].st = "waiting" /\ item[i].queued \in BOOLEAN /\ ItemsOK
  BY <1>3 DEF StartAnimation, StartOK, ItemSet, IInv, StateOK
<1>5. PICK force : force = IF e \in finishing THEN <<<<"force", i>>>> ELSE <<>>
  OBVIOUS
<1>6. /\ hooks' = IF item[i].queued THEN hooks
                  ELSE [hooks EXCEPT ![e].present = TRUE, ![e].unqueued = @ + 1]
      /\ IF item[i].instant
         THEN /\ item' = [item EXCEPT ![i].st = "resolved"]
              /\ Then((IF item[i].queued THEN SettleJobs(i, "resolved")
                       ELSE AfterHandlers(i, "resolved") \o <<<<"handler", i>>>>) \o force)
              /\ timers' = timers /\ interval' = interval
         ELSE /\ item' = [item EXCEPT ![i].st = "running"]
              /\ timers' = Append(timers, i)
              /\ interval' = TRUE
              /\ Then(force)
  BY <1>3, <1>5 DEF StartAnimation
<1>7. HandlerOK(i)'
  <2>1. PICK s \in EndStates : item' = [item EXCEPT ![i].st = s]
    BY <1>6 DEF EndStates
  <2>2. Turns(i, s)
    BY <1>4, <2>1, FxAssumption, StTurns DEF Settled
  <2>3. QED
    BY <1>4, <2>2 DEF Turns, HandlerOK, Started, EndStates
<1>8. PICK z \in Nat, w \in Nat : z = 0 /\ w = 1
  OBVIOUS
<1>9. Jobs(force, e, z, z)
  <2>1. CASE e \in finishing
    <3>1. finishing' # {}
      BY <1>2, <2>1
    <3>2. QED
      BY <1>5, <1>7, <1>8, <2>1, <3>1, OneJob
  <2>2. CASE e \notin finishing
    BY <1>5, <1>8, <2>2, NoJobs
  <2>3. QED
    BY <2>1, <2>2
<1>10. z + z = z /\ w + z = w /\ z + w = w
  BY <1>8
<1>11. CASE ~item[i].instant
  <2>1. PICK s \in {"running", "resolved"} : s = "running"
    OBVIOUS
  <2>2. /\ item' = [item EXCEPT ![i].st = s] /\ timers' = Append(timers, i)
        /\ interval' = TRUE /\ Then(force)
    BY <1>6, <1>11, <2>1
  <2>3. s = "running" /\ e \in finishing => force = <<<<"force", i>>>>
    BY <1>5
  <2>4. QED
    BY <1>1, <1>2, <1>3, <1>4, <1>6, <1>8, <1>9, <2>1, <2>2, <2>3, AnimationStarts
<1>12. CASE item[i].instant
  <2>1. PICK s \in {"running", "resolved"} : s = "resolved"
    OBVIOUS
  <2>2. PICK a : a = IF item[i].queued THEN SettleJobs(i, "resolved")
                     ELSE AfterHandlers(i, "resolved") \o <<<<"handler", i>>>>
    OBVIOUS
  <2>3. PICK jobs : jobs = a \o force
    OBVIOUS
  <2>4. /\ item' = [item EXCEPT ![i].st = s] /\ timers' = timers
        /\ interval' = interval /\ Then(jobs)
    BY <1>6, <1>12, <2>1, <2>2, <2>3
  <2>5. CASE item[i].queued
    <3>1. ~Settled(i)
      BY <1>4 DEF Settled
    <3>2. Jobs(SettleJobs(i, "resolved"), e,
                IF ~Settled(i) /\ item[i].queued /\ "resolved" = "resolved" THEN 1 ELSE 0,
                IF ~Settled(i) /\ ~item[i].queued THEN 1 ELSE 0)
      BY <1>3, <1>4, <1>7, FxAssumption, SettleJobsJobs
    <3>3. Jobs(a, e, w, z)
      BY <1>8, <2>2, <2>5, <3>1, <3>2
    <3>4. Jobs(jobs, e, w, z)
      BY <1>9, <1>10, <2>3, <3>3, MoreJobs
    <3>5. QED
      BY <1>1, <1>2, <1>3, <1>4, <1>6, <1>8, <2>1, <2>4, <2>5, <3>4, AnimationStarts
  <2>6. CASE ~item[i].queued
    <3>1. Jobs(AfterHandlers(i, "resolved"), e,
                IF item[i].queued /\ "resolved" = "resolved" THEN 1 ELSE 0,
                IF ~item[i].queued THEN 1 ELSE 0)
      BY <1>3, <1>4, <1>7, FxAssumption, AfterHandlersJobs
    <3>2. Jobs(AfterHandlers(i, "resolved"), e, z, w)
      BY <1>8, <2>6, <3>1
    <3>3. Jobs(<<<<"handler", i>>>>, e, z, z)
      BY <1>7, <1>8, OneJob DEF HandlerKinds
    <3>4. Jobs(AfterHandlers(i, "resolved") \o <<<<"handler", i>>>>, e, z, w)
      BY <1>10, <3>2, <3>3, MoreJobs
    <3>5. Jobs(a, e, z, w)
      BY <2>2, <2>6, <3>4
    <3>6. Jobs(jobs, e, z, w)
      BY <1>9, <1>10, <2>3, <3>5, MoreJobs
    <3>7. QED
      BY <1>1, <1>2, <1>3, <1>4, <1>6, <1>8, <2>1, <2>4, <2>6, <3>6, AnimationStarts
  <2>7. QED
    BY <1>4, <2>5, <2>6
<1>13. QED
  BY <1>11, <1>12

\* The end that finish forces on what is waiting or runs keeps IInv.
LEMMA ForcedEndStep ==
    ASSUME IInv, ForcedEnd
    PROVE  IInv'
<1>1. PICK X, L : Turn(X, L)
  BY DEF IInv
<1>2. /\ ~Idle /\ Job[1] = "force" /\ queue' = queue /\ finishing' = finishing
      /\ hooks' = hooks /\ timers' = timers /\ interval' = interval
  BY DEF ForcedEnd, Doing
<1>3. PICK i \in Items, e \in Elements :
            /\ Job = <<"force", i>> /\ item[i].elem = e /\ item[i] \in ItemSet
            /\ item[i].kind # None /\ (item[i].stopped => Settled(i))
            /\ HandlerOK(i) /\ finishing # {}
  BY <1>1, <1>2, StartFacts
<1>4. PICK jobs : jobs = StopJobs(i, TRUE)
  OBVIOUS
<1>5. item' = [item EXCEPT ![i] = Stopped(i, TRUE)] /\ Then(jobs)
  BY <1>3, <1>4 DEF ForcedEnd
<1>6. item[i].queued \in BOOLEAN /\ Started(i) /\ (Settled(i) \/ item[i].st = "running")
  BY <1>3 DEF HandlerOK, Started, Settled, ItemSet
<1>7. PICK s \in EndStates : s = IF item[i].st = "running" THEN "resolved" ELSE item[i].st
  BY <1>6 DEF EndStates, Settled
<1>8. Turns(i, s) /\ ItemsOK'
  <2>1. ItemsOK
    BY DEF IInv, StateOK
  <2>2. PICK g \in BOOLEAN : g = TRUE
    OBVIOUS
  <2>3. item' = [item EXCEPT ![i] = Stopped(i, g)]
    BY <1>5, <2>2
  <2>4. /\ ItemsOK'
        /\ Turns(i, IF item[i].st = "running" THEN IF g THEN "resolved" ELSE "rejected"
                    ELSE item[i].st)
    BY <1>3, <2>1, <2>3, StoppedTurns
  <2>5. QED
    BY <1>7, <2>2, <2>4
<1>9. /\ Settled(i) => s # "running"
      /\ s # "running"
  BY <1>7
<1>10. HandlerOK(i)'
  BY <1>3, <1>8 DEF HandlerOK, Started, Turns, EndStates
<1>11. PICK p \in {0, 1} : p = IF ~Settled(i) /\ item[i].queued THEN 1 ELSE 0
  OBVIOUS
<1>12. PICK q \in {0, 1} : q = IF ~Settled(i) /\ ~item[i].queued THEN 1 ELSE 0
  OBVIOUS
<1>13. p \in Nat /\ q \in Nat
  BY <1>11, <1>12
<1>14. Jobs(jobs, e, p, q)
  <2>1. CASE item[i].stopped
    BY <1>3, <1>4, <1>11, <1>12, <2>1, NoJobs DEF StopJobs
  <2>2. CASE ~item[i].stopped
    <3>1. jobs = SettleJobs(i, "resolved")
      BY <1>4, <2>2 DEF StopJobs
    <3>2. ItemsOK
      BY DEF IInv, StateOK
    <3>3. Jobs(SettleJobs(i, "resolved"), e,
                IF ~Settled(i) /\ item[i].queued /\ "resolved" = "resolved" THEN 1 ELSE 0,
                IF ~Settled(i) /\ ~item[i].queued THEN 1 ELSE 0)
      BY <1>3, <1>10, <3>2, SettleJobsJobs
    <3>4. QED
      BY <1>11, <1>12, <3>1, <3>3
  <2>3. QED
    BY <2>1, <2>2
<1>15. jobs \in Seq(JobSet)
  BY <1>14 DEF Jobs
<1>16. PICK Y : Follows(X, L, jobs, Y)
  BY <1>1, <1>2, <1>5, <1>15, ThenFollows DEF ShortKinds
<1>17. /\ ItemsOK /\ TimersOK /\ HooksOK
       /\ todo \in Seq(JobSet) /\ todo' \in Seq(JobSet) /\ NumbersOK
  BY <1>1, <1>16, TopJob, FollowsCount, Numbers DEF IInv, StateOK
<1>18. /\ hooks \in [Elements -> HookSet] /\ \A f \in Elements : StopOK(f) /\ CountOK(f)
  BY <1>17 DEF HooksOK
<1>19. TimersOK' /\ TimersGrow
  BY <1>2, <1>8, <1>9, <1>17, TimersTurn, TimersSame
<1>20. ASSUME NEW f \in Elements
       PROVE  /\ D(f) \in Nat /\ U(f) \in Nat /\ D(f)' = D(f) + (IF f = e THEN p ELSE 0)
              /\ U(f)' = U(f) + (IF f = e THEN q ELSE 0)
              /\ hooks[f].unqueued \in Nat
  <2>1. Job # <<"dequeue", f>> /\ Job # <<"unqueued", f>>
    BY <1>3
  <2>2. NumbersAfter(f, e, p, q)
    BY <1>1, <1>13, <1>14, <1>16, FollowsNumbers
  <2>3. QED
    BY <1>18, <2>1, <2>2 DEF HookSet, NumbersAfter
<1>21. PICK n \in {0, 1} : n = IF s = "running" THEN 1 ELSE 0
  OBVIOUS
<1>22. ASSUME NEW f \in Elements
       PROVE  StopOK(f)' /\ CountOK(f)'
  <2>1. StopOK(f)'
    BY <1>2, <1>8, <1>9, <1>18, StopTurn
  <2>2. /\ U(f) \in Nat /\ U(f)' \in Nat /\ hooks[f].unqueued \in Nat
        /\ U(f)' = U(f) + (IF f = e THEN q ELSE 0)
    BY <1>13, <1>20
  <2>3. /\ hooks'[f].unqueued = hooks[f].unqueued
        /\ item[i].queued \/ item[i].elem # f => U(f)' = U(f)
    BY <1>2, <1>3, <1>12, <2>2
  <2>4. ~item[i].queued /\ item[i].elem = f =>
            IF item[i].st = "running" THEN U(f)' + n = U(f) + 1 ELSE U(f)' = U(f) /\ n = 0
    BY <1>3, <1>6, <1>9, <1>12, <1>21, <2>2 DEF Settled
  <2>5. CountOK(f)'
    BY <1>6, <1>8, <1>17, <1>18, <1>21, <2>2, <2>3, <2>4, CountTurn
  <2>6. QED
    BY <2>1, <2>5
<1>23. HooksOK'
  BY <1>2, <1>18, <1>22 DEF HooksOK
<1>24. Passed(e)
  <2>1. R(e) \in Nat /\ D(e) \in Nat /\ D(e)' = D(e) + p
    BY <1>17, <1>20 DEF NumbersOK
  <2>2. R(e)' = R(e) - p
    <3>1. (i \in Running(e)) <=> (item[i].queued /\ ~Settled(i))
      BY <1>3, <1>6 DEF Running, Settled
    <3>2. R(e)' = R(e) - (IF i \in Running(e) THEN 1 ELSE 0)
                    + (IF item[i].elem = e /\ item[i].queued /\ s = "running" THEN 1 ELSE 0)
      BY <1>8, <1>17, TurnsCounts
    <3>3. QED
      BY <1>9, <1>11, <2>1, <3>1, <3>2
  <2>3. Running(e)' = Running(e) \ {i}
    BY <1>8, <1>9, <1>17, TurnsSets
  <2>4. T(e) = 0
    BY <1>3, NoStart DEF Doing
  <2>5. FinishesOld(e) => Running(e)' = {}
    <3>1. FinishesOld(e) => \A k \in Running(e) : Job = <<"force", k>>
      BY <1>2 DEF FinishesOld
    <3>2. QED
      BY <1>3, <2>3, <3>1
  <2>6. QED
    BY <1>3, <1>11, <2>1, <2>2, <2>3, <2>4, <2>5 DEF Passed
<1>25. QED
  BY <1>1, <1>2, <1>3, <1>8, <1>9, <1>13, <1>14, <1>16, <1>19, <1>23, <1>24, ItemEnd

-----------------------------------------------------------------------------
(* What the page and the handlers call.                                    *)

\* Calls are made between two turns or by a handler.
LEMMA CallContext ==
    ASSUME NEW X, NEW L, Turn(X, L), NEW use, May(use), NEW jobs \in Seq(JobSet), Call(jobs)
    PROVE  /\ \E Y : Calls(X, L, jobs, Y)
           /\ todo \in Seq(JobSet) /\ todo' \in Seq(JobSet) /\ NumbersOK /\ NumbersOK'
           /\ Idle \/ Job[1] \in HandlerKinds
           /\ Idle => X = <<>> /\ L = <<>> /\ use \in PageUses
           /\ ~Idle => use \in HandlerUses
           /\ \A e : X # <<<<"dequeue", e>>>>
<1>1. /\ X \in Seq(JobSet) /\ L \in Seq(JobSet) /\ todo \in Seq(JobSet) /\ todo = X \o L
      /\ Idle => X = <<>> /\ L = <<>>
      /\ X # <<>> => Job = X[1]
      /\ X = <<>> /\ ~Idle => Job[1] \notin ShortKinds
  BY TopJob DEF Turn
<1>2. /\ Idle \/ Job[1] \in HandlerKinds
      /\ Idle => use \in PageUses
      /\ ~Idle => use \in HandlerUses
  BY DEF May, InHandler, Doing, HandlerKinds
<1>3. X # <<>> \/ L = <<>>
  BY <1>1, <1>2 DEF ShortKinds, HandlerKinds
<1>4. ~Doing("start")
  BY <1>2 DEF Doing, HandlerKinds
<1>5. PICK Y : Y = jobs \o X
  OBVIOUS
<1>6. Calls(X, L, jobs, Y)
  BY <1>1, <1>3, <1>4, <1>5 DEF Calls, Call
<1>7. todo' \in Seq(JobSet)
  BY <1>6, CallsCount
<1>8. ASSUME NEW e, X = <<<<"dequeue", e>>>>
      PROVE  FALSE
  <2>1. X # <<>> /\ X[1] = <<"dequeue", e>> /\ ~Idle
    BY <1>1, <1>8
  <2>2. Job[1] = "dequeue"
    BY <1>1, <2>1
  <2>3. QED
    BY <1>2, <2>1, <2>2 DEF HandlerKinds
<1>9. NumbersOK /\ NumbersOK'
  BY <1>1, <1>7, Numbers
<1>10. QED
  BY <1>1, <1>2, <1>6, <1>7, <1>8, <1>9

\* The numbers of calls after one.
CallsAfter(f, e, p, q) ==
    /\ D(f) \in Nat /\ U(f) \in Nat
    /\ D(f)' = D(f) + (IF f = e THEN p ELSE 0)
    /\ U(f)' = U(f) + (IF f = e THEN q ELSE 0)
    /\ ~StartsWith(todo') /\ T(f) = 0 /\ T(f)' = 0

\* The numbers after a call, from those of the jobs it adds.
LEMMA CallNumbers ==
    ASSUME NEW X, NEW L, NEW jobs, NEW Y, Calls(X, L, jobs, Y),
           NEW e, NEW p \in Nat, NEW q \in Nat, Jobs(jobs, e, p, q), NEW f \in Elements
    PROVE  CallsAfter(f, e, p, q)
<1>1. ~StartsWith(todo')
  BY CallsStart DEF Jobs
<1>2. /\ Count(todo', <<"dequeue", f>>) =
            Count(todo, <<"dequeue", f>>) + Count(jobs, <<"dequeue", f>>)
      /\ Count(todo, <<"dequeue", f>>) \in Nat
  BY CallsCount
<1>3. /\ Count(todo', <<"unqueued", f>>) =
            Count(todo, <<"unqueued", f>>) + Count(jobs, <<"unqueued", f>>)
      /\ Count(todo, <<"unqueued", f>>) \in Nat
  BY CallsCount
<1>4. /\ Count(jobs, <<"dequeue", f>>) = IF f = e THEN p ELSE 0
      /\ Count(jobs, <<"unqueued", f>>) = IF f = e THEN q ELSE 0
  BY DEF Jobs
<1>5. T(f)' = 0 /\ T(f) = 0
  BY <1>1, NoStart DEF Calls
<1>6. QED
  BY <1>1, <1>2, <1>3, <1>4, <1>5 DEF D, U, CallsAfter

\* The step of a call, but for what it calls.
LEMMA CallEnd ==
    ASSUME IInv, NEW X, NEW L, NEW Y, NEW jobs, Turn(X, L), Calls(X, L, jobs, Y),
           \A e : X # <<<<"dequeue", e>>>>, NewJobs(jobs)', NewStart,
           timers' = timers, Kept, AllPending, NoDelays => NoDelays',
           \A f \in Elements : Move(f),
           ItemsOK', TimersOK', QueuesOK', NothingQueued', HooksOK'
    PROVE  IInv'
<1>1. /\ ItemsOK /\ TimersOK /\ (X # <<>> \/ L = <<>>)
  BY DEF IInv, StateOK, Calls
<1>2. todo \in Seq(JobSet) /\ todo' \in Seq(JobSet)
  BY TopJob, CallsCount
<1>3. TimersGrow
  BY <1>1, TimersSame
<1>4. todo' = Y \o L /\ Short(Y)'
  BY CallsShort
<1>5. PendingKept
  BY DEF AllPending, PendingKept
<1>6. ShortMove(X, L, Y)
  BY <1>1, <1>3, <1>4, <1>5 DEF ShortMove
<1>7. StateOK'
  BY DEF StateOK
<1>8. QED
  BY <1>2, <1>6, <1>7, ShortStep

\* A call of promise keeps IInv: it only watches.
LEMMA PromiseStep ==
    ASSUME IInv, NEW e \in Elements, PromiseOf(e)
    PROVE  IInv'
<1>1. PICK X, L : Turn(X, L)
  BY DEF IInv
<1>2. /\ May("promise") /\ item' = item /\ queue' = queue /\ finishing' = finishing
      /\ timers' = timers /\ interval' = interval /\ todo' = todo
      /\ hooks' = [hooks EXCEPT ![e].waiting = TRUE]
  BY DEF PromiseOf
<1>3. PICK jobs \in Seq(JobSet) : jobs = <<>>
  BY EmptySeq
<1>4. Call(jobs)
  <2>1. todo \in Seq(JobSet)
    BY <1>1, TopJob
  <2>2. jobs \o todo = todo
    BY <1>3, <2>1, ConcatEmptySeq
  <2>3. QED
    BY <1>2, <2>2 DEF Call
<1>5. /\ todo \in Seq(JobSet) /\ NumbersOK /\ (Idle \/ Job[1] \in HandlerKinds)
      /\ \A f : X # <<<<"dequeue", f>>>>
  BY <1>1, <1>2, <1>4, CallContext
<1>6. PICK Y : Calls(X, L, jobs, Y)
  BY <1>1, <1>2, <1>4, CallContext
<1>7. PICK z \in Nat : z = 0
  OBVIOUS
<1>8. Jobs(jobs, e, z, z)
  BY <1>3, <1>7, NoJobs
<1>9. ASSUME NEW f \in Elements
      PROVE  CallsAfter(f, e, z, z)
  BY <1>6, <1>8, CallNumbers
<1>10. ASSUME NEW f \in Elements
       PROVE  ~StartsWith(todo') /\ D(f)' = D(f) /\ U(f)' = U(f) /\ T(f)' = 0
  <2>1. CallsAfter(f, e, z, z)
    BY <1>9
  <2>2. QED
    BY <1>7, <2>1 DEF CallsAfter
<1>11. /\ ItemsOK /\ TimersOK /\ HooksOK /\ QueuesOK /\ NothingQueued
  BY DEF IInv, StateOK
<1>12. /\ hooks \in [Elements -> HookSet] /\ \A f \in Elements : StopOK(f) /\ CountOK(f)
  BY <1>11 DEF HooksOK
<1>13. /\ hooks' \in [Elements -> HookSet]
       /\ \A f \in Elements : hooks'[f].stop = hooks[f].stop
       /\ \A f \in Elements : hooks'[f].unqueued = hooks[f].unqueued
  <2>1. PICK h : h = [hooks[e] EXCEPT !.waiting = TRUE]
    OBVIOUS
  <2>2. h \in HookSet /\ h.stop = hooks[e].stop /\ h.unqueued = hooks[e].unqueued
    BY <1>12, <2>1 DEF HookSet
  <2>3. hooks' = [hooks EXCEPT ![e] = h]
    BY <1>2, <2>1
  <2>4. QED
    BY <1>12, <2>2, <2>3
<1>14. ASSUME NEW f \in Elements
       PROVE  StopOK(f)' /\ CountOK(f)'
  BY <1>2, <1>10, <1>12, <1>13, StopSame, CountSame
<1>15. HooksOK'
  BY <1>13, <1>14 DEF HooksOK
<1>16. Kept /\ AllPending /\ ItemsOK' /\ \A f \in Elements : Running(f)' = Running(f)
  BY <1>2, <1>11, SameKept
<1>17. TimersOK' /\ QueuesOK' /\ NothingQueued'
  BY <1>2, <1>11, <1>16, TimersSame, QueuesSame DEF NothingQueued
<1>18. ASSUME NEW f \in Elements
       PROVE  Move(f)
  BY <1>2, <1>5, <1>10, <1>16, QuietMove DEF HandlerKinds
<1>19. NewStart /\ NewJobs(jobs)' /\ (NoDelays => NoDelays')
  BY <1>2, <1>8, <1>10 DEF NewStart, Jobs, NoDelays
<1>20. QED
  BY <1>1, <1>2, <1>5, <1>6, <1>15, <1>16, <1>17, <1>18, <1>19, CallEnd

\* A call of clearQueue keeps IInv, where nothing is queued.
LEMMA ClearStep ==
    ASSUME CarefulUses, IInv, NEW e \in Elements, ClearQueue(e)
    PROVE  IInv'
<1>1. PICK X, L : Turn(X, L)
  BY DEF IInv
<1>2. /\ May("clear") /\ item' = item /\ finishing' = finishing
      /\ timers' = timers /\ interval' = interval /\ Call(<<<<"dequeue", e>>>>)
      /\ hooks' = [hooks EXCEPT ![e].present = TRUE]
      /\ queue' = [queue EXCEPT ![e] = <<>>]
  BY DEF ClearQueue
<1>3. PICK jobs : jobs = <<<<"dequeue", e>>>>
  OBVIOUS
<1>4. PICK z \in Nat, w \in Nat : z = 0 /\ w = 1
  OBVIOUS
<1>5. Jobs(jobs, e, w, z)
  BY <1>3, <1>4, OneJob
<1>6. jobs \in Seq(JobSet) /\ Call(jobs)
  BY <1>2, <1>3, <1>5 DEF Jobs
<1>7. /\ todo \in Seq(JobSet) /\ NumbersOK /\ (Idle \/ Job[1] \in HandlerKinds)
      /\ \A f : X # <<<<"dequeue", f>>>>
      /\ MayDequeue
  BY <1>1, <1>2, <1>6, CallContext DEF Dequeueing, MayDequeue
<1>8. PICK Y : Calls(X, L, jobs, Y)
  BY <1>1, <1>2, <1>6, CallContext
<1>9. ASSUME NEW f \in Elements
      PROVE  CallsAfter(f, e, w, z)
  BY <1>5, <1>8, CallNumbers
<1>10. ASSUME NEW f \in Elements
       PROVE  /\ ~StartsWith(todo') /\ U(f)' = U(f) /\ T(f) = 0 /\ T(f)' = 0
              /\ D(f)' = D(f) + (IF f = e THEN 1 ELSE 0)
  <2>1. CallsAfter(f, e, w, z)
    BY <1>9
  <2>2. QED
    BY <1>4, <2>1 DEF CallsAfter
<1>11. /\ ItemsOK /\ TimersOK /\ HooksOK /\ QueuesOK /\ NothingQueued
  BY DEF IInv, StateOK
<1>12. /\ hooks \in [Elements -> HookSet] /\ \A f \in Elements : StopOK(f) /\ CountOK(f)
  BY <1>11 DEF HooksOK
<1>13. /\ hooks' \in [Elements -> HookSet]
       /\ \A f \in Elements : hooks'[f].stop = hooks[f].stop
       /\ \A f \in Elements : hooks'[f].unqueued = hooks[f].unqueued
  <2>1. PICK h : h = [hooks[e] EXCEPT !.present = TRUE]
    OBVIOUS
  <2>2. h \in HookSet /\ h.stop = hooks[e].stop /\ h.unqueued = hooks[e].unqueued
    BY <1>12, <2>1 DEF HookSet
  <2>3. hooks' = [hooks EXCEPT ![e] = h]
    BY <1>2, <2>1
  <2>4. QED
    BY <1>12, <2>2, <2>3
<1>14. ASSUME NEW f \in Elements
       PROVE  StopOK(f)' /\ CountOK(f)'
  BY <1>2, <1>10, <1>12, <1>13, StopSame, CountSame
<1>15. HooksOK'
  BY <1>13, <1>14 DEF HooksOK
<1>16. /\ Kept /\ AllPending /\ ItemsOK'
       /\ \A f \in Elements : Running(f)' = Running(f) /\ R(f)' = R(f)
  BY <1>2, <1>11, SameKept
<1>17. (\A f \in Elements : queue[f] = <<>>) /\ HandlersQueueNothing
  <2>1. \A f \in Elements : queue[f] = <<>>
    BY <1>7, <1>11 DEF NothingQueued
  <2>2. NoneQueues
    BY <1>7 DEF CarefulUses
  <2>3. QED
    BY <2>1, <2>2 DEF NoneQueues, HandlersQueueNothing
<1>18. queue' = queue
  <2>1. queue[e] = <<>> /\ queue \in [Elements -> Seq(Items \cup {"inprogress"})]
    BY <1>11, <1>17 DEF QueuesOK
  <2>2. QED
    BY <1>2, <2>1
<1>19. TimersOK' /\ QueuesOK' /\ NothingQueued'
  BY <1>2, <1>11, <1>16, <1>18, TimersSame, QueuesSame DEF NothingQueued
<1>20. ASSUME NEW f \in Elements
       PROVE  Move(f)
  <2>1. CASE f = e
    BY <1>7, <1>10, <1>16, <1>17, <1>18, <2>1 DEF Move, ClearMove
  <2>2. CASE f # e
    <3>1. D(f)' = D(f)
      BY <1>7, <1>10, <2>2 DEF NumbersOK
    <3>2. QED
      BY <1>7, <1>10, <1>16, <1>18, <3>1, QuietMove DEF HandlerKinds
  <2>3. QED
    BY <2>1, <2>2
<1>21. NewStart /\ NewJobs(jobs)' /\ (NoDelays => NoDelays')
  BY <1>2, <1>5, <1>10 DEF NewStart, Jobs, NoDelays
<1>22. QED
  BY <1>1, <1>2, <1>7, <1>8, <1>15, <1>16, <1>19, <1>20, <1>21, CallEnd

\* An unqueued animation is new, and starts at once.
LEMMA UnqueuedStep ==
    ASSUME IInv, NEW e \in Elements, NEW i \in Items, NEW instant \in BOOLEAN,
           AnimateUnqueued(e, i, instant)
    PROVE  IInv'
<1>1. PICK X, L : Turn(X, L)
  BY DEF IInv
<1>2. /\ Unused /\ New(i) /\ queue' = queue /\ hooks' = hooks /\ finishing' = finishing
      /\ timers' = timers /\ interval' = interval /\ Call(<<<<"start", i>>>>)
      /\ item' = [item EXCEPT ![i] = [NoItem EXCEPT !.kind = "anim", !.elem = e,
                        !.queued = FALSE, !.instant = instant, !.st = "waiting"]]
  BY DEF AnimateUnqueued
<1>3. PICK use : May(use)
  BY DEF AnimateUnqueued
<1>4. /\ ItemsOK /\ TimersOK /\ HooksOK /\ QueuesOK /\ NothingQueued
  BY DEF IInv, StateOK
<1>5. PICK kind \in {"anim", "delay"}, b \in BOOLEAN : kind = "anim" /\ b = FALSE
  OBVIOUS
<1>6. Arrives(i, e, kind, b) /\ ItemsOK'
  <2>1. PICK x : x = [NoItem EXCEPT !.kind = "anim", !.elem = e, !.queued = FALSE,
                                    !.instant = instant, !.st = "waiting"]
    OBVIOUS
  <2>2. IsNewItem(x, kind, e, b)
    BY <1>5, <2>1 DEF IsNewItem, NoItem, ItemSet
  <2>3. item' = [item EXCEPT ![i] = x]
    BY <1>2, <2>1
  <2>4. QED
    BY <1>2, <1>4, <1>5, <2>2, <2>3, ItemArrives
<1>7. Kept /\ AllPending /\ item[i].st = "new"
  BY <1>2, <1>4, <1>6, ArrivesKept
<1>8. PICK jobs : jobs = <<<<"start", i>>>>
  OBVIOUS
<1>9. jobs \in Seq(JobSet) /\ Call(jobs) /\ OnlyJob(jobs, "start", i)
      /\ jobs # <<>> /\ jobs[1] = <<"start", i>>
  <2>1. <<"start", i>> \in JobSet
    BY JobTypes
  <2>2. OnlyJob(jobs, "start", i)
    BY <1>8, <2>1, CountJob
  <2>3. jobs # <<>> /\ jobs[1] = <<"start", i>>
    BY <1>8
  <2>4. QED
    BY <1>2, <1>8, <2>2, <2>3 DEF OnlyJob
<1>10. /\ todo \in Seq(JobSet) /\ NumbersOK /\ (Idle \/ Job[1] \in HandlerKinds)
       /\ \A f : X # <<<<"dequeue", f>>>>
  BY <1>1, <1>3, <1>9, CallContext
<1>11. PICK Y : Calls(X, L, jobs, Y)
  BY <1>1, <1>3, <1>9, CallContext
<1>12. todo' # <<>> /\ Head(todo') = <<"start", i>>
  <2>1. Goes(JobSet, jobs, todo, jobs) /\ todo' = jobs \o todo
    BY <1>9, <1>10, AfterTopFacts DEF Call
  <2>2. QED
    BY <1>9, <2>1 DEF Goes
<1>13. item'[i].st = "waiting" /\ item'[i].kind = "anim" /\ item'[i].queued = FALSE
  BY <1>5, <1>6 DEF Arrives
<1>14. ASSUME NEW f \in Elements
       PROVE  /\ D(f)' = D(f) /\ U(f)' = U(f) /\ T(f)' = 0
  <2>1. /\ Count(todo', <<"dequeue", f>>) =
                Count(todo, <<"dequeue", f>>) + Count(jobs, <<"dequeue", f>>)
        /\ Count(todo, <<"dequeue", f>>) \in Nat
    BY <1>11, CallsCount
  <2>2. /\ Count(todo', <<"unqueued", f>>) =
                Count(todo, <<"unqueued", f>>) + Count(jobs, <<"unqueued", f>>)
        /\ Count(todo, <<"unqueued", f>>) \in Nat
    BY <1>11, CallsCount
  <2>3. Count(jobs, <<"dequeue", f>>) = 0 /\ Count(jobs, <<"unqueued", f>>) = 0
    BY <1>9 DEF OnlyJob
  <2>4. T(f)' = 0
    <3>1. Job' = <<"start", i>>
      BY <1>12, StartsNext
    <3>2. Job'[2] = i
      BY <3>1
    <3>3. QED
      BY <1>13, <3>2 DEF T
  <2>5. QED
    BY <2>1, <2>2, <2>3, <2>4 DEF D, U
<1>15. /\ hooks \in [Elements -> HookSet] /\ \A f \in Elements : StopOK(f) /\ CountOK(f)
  BY <1>4 DEF HooksOK
<1>16. ASSUME NEW f \in Elements
       PROVE  /\ Running(f)' = Running(f)
              /\ RunningUnqueued(f)' = RunningUnqueued(f)
              /\ StartedUnqueued(f)' = StartedUnqueued(f)
  BY <1>4, <1>6, ArrivesSets
<1>17. ASSUME NEW f \in Elements
       PROVE  StopOK(f)' /\ CountOK(f)'
  <2>1. StopOK(f)'
    BY <1>2, <1>6, <1>15, StopArrive
  <2>2. CountOK(f)'
    BY <1>2, <1>14, <1>15, <1>16 DEF CountOK, U
  <2>3. QED
    BY <2>1, <2>2
<1>18. HooksOK'
  BY <1>2, <1>15, <1>17 DEF HooksOK
<1>19. TimersOK' /\ QueuesOK' /\ NothingQueued'
  BY <1>2, <1>4, <1>6, <1>7, TimersArrive, QueuesSame DEF NothingQueued
<1>20. ASSUME NEW f \in Elements
       PROVE  Move(f)
  BY <1>2, <1>10, <1>14, <1>16, QuietMove DEF HandlerKinds
<1>21. NewStart
  BY <1>7, <1>12, <1>13 DEF NewStart
<1>22. NewJobs(jobs)'
  <2>1. \A f \in Elements : \A m \in DOMAIN queue[f] : queue[f][m] # i
    BY <1>4, <1>7, FxAssumption DEF QueuesOK, QueueOK, IsQueue, Pending
  <2>2. StartOK(i)'
    BY <1>2, <1>13, <2>1 DEF StartOK
  <2>3. ShortOK(<<"start", i>>)'
    BY <2>2 DEF ShortOK
  <2>4. QED
    BY <1>8, <2>3 DEF NewJobs
<1>23. NoDelays => NoDelays'
  <2>1. \A k \in Items : k # i => item'[k] = item[k]
    BY <1>6 DEF Arrives
  <2>2. QED
    BY <1>13, <2>1 DEF NoDelays
<1>24. QED
  BY <1>1, <1>2, <1>6, <1>7, <1>10, <1>11, <1>18, <1>19, <1>20, <1>21, <1>22, <1>23, CallEnd

\* An animation with no properties is over at once, and dequeues where nothing is
\* queued.
LEMMA EmptyStep ==
    ASSUME CarefulUses, IInv, NEW e \in Elements, NEW i \in Items, AnimateEmpty(e, i)
    PROVE  IInv'
<1>1. PICK X, L : Turn(X, L)
  BY DEF IInv
<1>2. /\ May("empty") /\ Unused /\ New(i) /\ queue' = queue /\ hooks' = hooks
      /\ finishing' = finishing /\ timers' = timers /\ interval' = interval
      /\ Call(<<<<"handler", i>>, <<"dequeue", e>>, <<"always", i>>>>)
      /\ item' = [item EXCEPT ![i] = [NoItem EXCEPT !.kind = "anim", !.elem = e,
                        !.instant = TRUE, !.st = "resolved", !.stopped = TRUE]]
  BY DEF AnimateEmpty
<1>3. /\ ItemsOK /\ TimersOK /\ HooksOK /\ QueuesOK /\ NothingQueued
  BY DEF IInv, StateOK
<1>4. PICK kind \in {"anim", "delay"}, b \in BOOLEAN : kind = "anim" /\ b = TRUE
  OBVIOUS
<1>5. Arrives(i, e, kind, b) /\ ItemsOK' /\ item'[i].st = "resolved"
  <2>1. PICK x : x = [NoItem EXCEPT !.kind = "anim", !.elem = e, !.instant = TRUE,
                                    !.st = "resolved", !.stopped = TRUE]
    OBVIOUS
  <2>2. IsNewItem(x, kind, e, b) /\ x.st = "resolved"
    BY <1>4, <2>1 DEF IsNewItem, NoItem, ItemSet
  <2>3. item' = [item EXCEPT ![i] = x]
    BY <1>2, <2>1
  <2>4. Arrives(i, e, kind, b) /\ ItemsOK'
    BY <1>2, <1>3, <1>4, <2>2, <2>3, ItemArrives
  <2>5. QED
    BY <1>3, <2>2, <2>3, <2>4 DEF ItemsOK
<1>6. Kept /\ AllPending
  BY <1>2, <1>3, <1>5, ArrivesKept
<1>7. PICK z \in Nat, w \in Nat : z = 0 /\ w = 1
  OBVIOUS
<1>8. PICK jobs : jobs = <<<<"handler", i>>, <<"dequeue", e>>, <<"always", i>>>>
  OBVIOUS
<1>9. Jobs(jobs, e, w, z)
  <2>1. HandlerOK(i)'
    BY <1>4, <1>5 DEF HandlerOK, Started, Arrives
  <2>2. /\ Jobs(<<<<"handler", i>>>>, e, z, z) /\ Jobs(<<<<"always", i>>>>, e, z, z)
        /\ Jobs(<<<<"dequeue", e>>>>, e, w, z)
    BY <1>7, <2>1, OneJob DEF HandlerKinds
  <2>3. Jobs(<<<<"handler", i>>>> \o <<<<"dequeue", e>>>>, e, z + w, z + z)
    BY <2>2, MoreJobs
  <2>4. Jobs(<<<<"handler", i>>>> \o <<<<"dequeue", e>>>>, e, w, z)
    BY <1>7, <2>3
  <2>5. Jobs((<<<<"handler", i>>>> \o <<<<"dequeue", e>>>>) \o <<<<"always", i>>>>, e, w + z, z + z)
    BY <2>2, <2>4, MoreJobs
  <2>6. jobs = (<<<<"handler", i>>>> \o <<<<"dequeue", e>>>>) \o <<<<"always", i>>>>
    BY <1>8
  <2>7. QED
    BY <1>7, <2>5, <2>6
<1>10. jobs \in Seq(JobSet) /\ Call(jobs)
  BY <1>2, <1>8, <1>9 DEF Jobs
<1>11. /\ todo \in Seq(JobSet) /\ NumbersOK /\ (Idle \/ Job[1] \in HandlerKinds)
       /\ \A f : X # <<<<"dequeue", f>>>>
       /\ MayDequeue
  BY <1>1, <1>2, <1>10, CallContext DEF Dequeueing, MayDequeue
<1>12. PICK Y : Calls(X, L, jobs, Y)
  BY <1>1, <1>2, <1>10, CallContext
<1>13. ASSUME NEW f \in Elements
       PROVE  CallsAfter(f, e, w, z)
  BY <1>9, <1>12, CallNumbers
<1>14. ASSUME NEW f \in Elements
       PROVE  /\ ~StartsWith(todo') /\ U(f)' = U(f) /\ T(f) = 0 /\ T(f)' = 0
              /\ D(f)' = D(f) + (IF f = e THEN 1 ELSE 0)
  <2>1. CallsAfter(f, e, w, z)
    BY <1>13
  <2>2. QED
    BY <1>7, <2>1 DEF CallsAfter
<1>15. /\ hooks \in [Elements -> HookSet] /\ \A f \in Elements : StopOK(f) /\ CountOK(f)
  BY <1>3 DEF HooksOK
<1>16. ASSUME NEW f \in Elements
       PROVE  /\ Running(f)' = Running(f) /\ R(f)' = R(f)
              /\ RunningUnqueued(f)' = RunningUnqueued(f)
              /\ StartedUnqueued(f)' = StartedUnqueued(f)
  <2>1. /\ Running(f)' = Running(f)
        /\ RunningUnqueued(f)' = RunningUnqueued(f)
        /\ StartedUnqueued(f)' = StartedUnqueued(f)
    BY <1>3, <1>5, ArrivesSets
  <2>2. QED
    BY <2>1 DEF R
<1>17. ASSUME NEW f \in Elements
       PROVE  StopOK(f)' /\ CountOK(f)'
  <2>1. StopOK(f)'
    BY <1>2, <1>5, <1>15, StopArrive
  <2>2. CountOK(f)'
    BY <1>2, <1>14, <1>15, <1>16 DEF CountOK, U
  <2>3. QED
    BY <2>1, <2>2
<1>18. HooksOK'
  BY <1>2, <1>15, <1>17 DEF HooksOK
<1>19. TimersOK' /\ QueuesOK' /\ NothingQueued'
  BY <1>2, <1>3, <1>5, <1>6, TimersArrive, QueuesSame DEF NothingQueued
<1>20. (\A f \in Elements : queue[f] = <<>>) /\ HandlersQueueNothing
  <2>1. \A f \in Elements : queue[f] = <<>>
    BY <1>3, <1>11 DEF NothingQueued
  <2>2. NoneQueues
    BY <1>11 DEF CarefulUses
  <2>3. QED
    BY <2>1, <2>2 DEF NoneQueues, HandlersQueueNothing
<1>21. ASSUME NEW f \in Elements
       PROVE  Move(f)
  <2>1. CASE f = e
    BY <1>2, <1>11, <1>14, <1>16, <1>20, <2>1 DEF Move, ClearMove
  <2>2. CASE f # e
    <3>1. D(f)' = D(f)
      BY <1>11, <1>14, <2>2 DEF NumbersOK
    <3>2. QED
      BY <1>2, <1>11, <1>14, <1>16, <3>1, QuietMove DEF HandlerKinds
  <2>3. QED
    BY <2>1, <2>2
<1>22. NewStart /\ NewJobs(jobs)'
  BY <1>9, <1>14 DEF NewStart, Jobs
<1>23. NoDelays => NoDelays'
  <2>1. (\A k \in Items : k # i => item'[k] = item[k]) /\ item'[i].kind = "anim"
    BY <1>4, <1>5 DEF Arrives
  <2>2. QED
    BY <2>1 DEF NoDelays
<1>24. QED
  BY <1>1, <1>2, <1>6, <1>11, <1>12, <1>5, <1>18, <1>19, <1>21, <1>22, <1>23, CallEnd

\* The loop of the tick waits for what is called.
LEMMA CalmLoopKept ==
    ASSUME NEW L, CalmLoop(L), TimersGrow, Kept, timers \in Seq(Items)
    PROVE  CalmLoop(L)'
<1>1. CASE L = <<>> \/ \E k \in Nat : L = <<<<"tick", k>>>>
  BY <1>1 DEF CalmLoop
<1>2. CASE \E k \in Nat, i \in Items :
            L = <<<<"ticked", k, i>>>> /\ Over(k + 1) /\ timers[k + 1] = i
  <2>1. PICK k \in Nat, i \in Items :
            L = <<<<"ticked", k, i>>>> /\ Over(k + 1) /\ timers[k + 1] = i
    BY <1>2
  <2>2. Over(k + 1)' /\ timers'[k + 1] = i
    BY <2>1, OverKept
  <2>3. QED
    BY <2>1, <2>2 DEF CalmLoop
<1>3. QED
  BY <1>1, <1>2 DEF CalmLoop

\* A new item is the last of its queue.
LEMMA QueueGrows ==
    ASSUME NEW e \in Elements, QueueOK(e), NEW i \in Items, item[i].st = "new", AllPending,
           Pending(i, e)', NEW s, s = Append(queue[e], i), queue'[e] = s
    PROVE  /\ QueueOK(e)' /\ s \in Seq(Items \cup {"inprogress"}) /\ s # <<>>
           /\ SentinelFirst(queue[e]) => SentinelFirst(s)
<1>1. PICK q : q = queue[e]
  OBVIOUS
<1>2. PICK n : n = Len(q)
  OBVIOUS
<1>3. /\ q \in Seq(Items \cup {"inprogress"}) /\ n \in Nat /\ DOMAIN q = 1..n
      /\ \A m \in 1..n : q[m] = "inprogress" \/ Pending(q[m], e)
      /\ \A m, k \in 1..n : q[m] = q[k] => m = k
      /\ \A m \in 1..n : q[m] = "inprogress" => m = 1
  BY <1>1, <1>2, LenProperties DEF QueueOK, IsQueue
<1>4. /\ s \in Seq(Items \cup {"inprogress"}) /\ Len(s) = n + 1 /\ s[n + 1] = i
      /\ \A m \in 1..n : s[m] = q[m]
  BY <1>1, <1>2, <1>3, AppendProperties
<1>5. DOMAIN s = 1..(n + 1) /\ s # <<>>
  BY <1>3, <1>4, LenProperties, EmptySeq
<1>6. \A m \in 1..n : q[m] # i
  BY <1>3, FxAssumption DEF Pending
<1>7. i # "inprogress"
  BY FxAssumption
<1>8. \A m, k \in DOMAIN s : s[m] = s[k] => m = k
  BY <1>3, <1>4, <1>5, <1>6
<1>9. ASSUME NEW m \in DOMAIN s
      PROVE  s[m] = "inprogress" \/ Pending(s[m], e)'
  <2>1. CASE m = n + 1
    BY <1>4, <2>1 DEF Pending
  <2>2. CASE m # n + 1
    <3>1. m \in 1..n /\ s[m] = q[m]
      BY <1>3, <1>4, <1>5, <2>2
    <3>2. CASE q[m] = "inprogress"
      BY <3>1, <3>2
    <3>3. CASE Pending(q[m], e)
      <4>1. PICK k \in Items : k = q[m]
        BY <3>3 DEF Pending
      <4>2. Pending(k, e)'
        BY <3>3, <4>1 DEF AllPending
      <4>3. s[m] = k
        BY <3>1, <4>1
      <4>4. QED
        BY <4>2, <4>3 DEF Pending
    <3>4. QED
      BY <1>3, <3>1, <3>2, <3>3
  <2>3. QED
    BY <2>1, <2>2
<1>10. \A m \in DOMAIN s : s[m] = "inprogress" => m = 1
  BY <1>3, <1>4, <1>5, <1>7
<1>11. QueueOK(e)'
  <2>1. IsQueue(s, e)'
    BY <1>4, <1>8, <1>9 DEF IsQueue
  <2>2. QED
    BY <1>10, <2>1 DEF QueueOK
<1>12. ASSUME SentinelFirst(queue[e])
       PROVE  SentinelFirst(s)
  <2>1. q # <<>> /\ Head(q) = "inprogress"
    BY <1>1, <1>12 DEF SentinelFirst
  <2>2. 1 \in 1..n /\ q[1] = "inprogress"
    BY <1>2, <1>3, <2>1, EmptySeq
  <2>3. Head(s) = s[1] /\ s[1] = "inprogress"
    BY <1>4, <1>5, <2>2
  <2>4. QED
    BY <1>5, <2>3 DEF SentinelFirst
<1>13. QED
  BY <1>4, <1>5, <1>11, <1>12

\* A careful page queues where nothing is being stopped, and never clears.
LEMMA QueueingContext ==
    ASSUME CarefulUses, NEW X, NEW L, Turn(X, L), NEW use \in Queueing, May(use)
    PROVE  /\ Calm(L)
           /\ \A e \in Elements : queue[e] = <<>> => D(e) = 0
           /\ ~MayDequeue
<1>1. use \in PageUses \cup HandlerUses /\ ~MayDequeue
  <2>1. use \in PageUses \cup HandlerUses
    BY DEF May
  <2>2. ~NoneQueues
    BY <2>1 DEF NoneQueues
  <2>3. QED
    BY <2>1, <2>2 DEF CarefulUses
<1>2. CASE Idle
  <2>1. L = <<>>
    BY <1>2, TopJob
  <2>2. Calm(L)
    BY <2>1 DEF Turn, LoopOK, StopBegins, StopGoesOn, StopAt, FinishGoesOn, FinishAt, FinishEnds
  <2>3. \A e \in Elements : D(e) = 0
    BY <1>2, CountEmpty DEF Idle, D
  <2>4. QED
    BY <1>1, <2>2, <2>3
<1>3. CASE ~Idle
  <2>1. ~HandlersQueueNothing
    BY <1>3 DEF May, HandlersQueueNothing
  <2>2. Calm(L)
    BY <2>1 DEF Turn, LoopOK, StopBegins, StopGoesOn, FinishGoesOn, FinishEnds, Stops,
                Finishes, FinishesOld
  <2>3. \A e \in Elements : queue[e] = <<>> => D(e) = 0
    BY <2>1, <2>2 DEF Calm, AllOrdinary, Ordinary
  <2>4. QED
    BY <1>1, <2>2, <2>3
<1>4. QED
  BY <1>2, <1>3

\* What is queued waits for what has the right to go on, or takes it.
LEMMA EnqueueStep ==
    ASSUME CarefulUses, IInv, NEW use \in Queueing, May(use), NEW e \in Elements,
           NEW i \in Items, NEW kind \in {"anim", "delay"}, NEW b \in BOOLEAN, b,
           kind = "delay" => UsesDelays, NEW x, IsNewItem(x, kind, e, b),
           x.st = "waiting", Enqueue(e, i, x)
    PROVE  IInv'
<1>1. PICK X, L : Turn(X, L)
  BY DEF IInv
<1>2. /\ Unused /\ New(i) /\ item' = [item EXCEPT ![i] = x]
      /\ queue' = [queue EXCEPT ![e] = Append(@, i)]
      /\ hooks' = [hooks EXCEPT ![e].present = TRUE]
      /\ Call(IF SentinelFirst(queue[e]) THEN <<>> ELSE <<<<"dequeue", e>>>>)
      /\ finishing' = finishing /\ timers' = timers /\ interval' = interval
  BY DEF Enqueue
<1>3. PICK jobs : jobs = IF SentinelFirst(queue[e]) THEN <<>> ELSE <<<<"dequeue", e>>>>
  OBVIOUS
<1>4. PICK z \in Nat, w \in Nat : z = 0 /\ w = IF SentinelFirst(queue[e]) THEN 0 ELSE 1
  OBVIOUS
<1>5. Jobs(jobs, e, w, z)
  <2>1. CASE SentinelFirst(queue[e])
    BY <1>3, <1>4, <2>1, NoJobs
  <2>2. CASE ~SentinelFirst(queue[e])
    BY <1>3, <1>4, <2>2, OneJob
  <2>3. QED
    BY <2>1, <2>2
<1>6. jobs \in Seq(JobSet) /\ Call(jobs)
  BY <1>2, <1>3, <1>5 DEF Jobs
<1>7. /\ todo \in Seq(JobSet) /\ todo' \in Seq(JobSet) /\ NumbersOK /\ NumbersOK'
      /\ Idle \/ Job[1] \in HandlerKinds
  BY <1>1, <1>6, CallContext
<1>8. PICK Y : Calls(X, L, jobs, Y)
  BY <1>1, <1>6, CallContext
<1>9. /\ Calm(L) /\ \A f \in Elements : queue[f] = <<>> => D(f) = 0
      /\ ~MayDequeue
  BY <1>1, QueueingContext
<1>10. ASSUME NEW f \in Elements
      PROVE  CallsAfter(f, e, w, z)
  BY <1>5, <1>8, CallNumbers
<1>11. ASSUME NEW f \in Elements
       PROVE  /\ ~StartsWith(todo') /\ U(f)' = U(f) /\ T(f) = 0 /\ T(f)' = 0
              /\ D(f) \in Nat /\ D(f)' = D(f) + (IF f = e THEN w ELSE 0)
  <2>1. CallsAfter(f, e, w, z)
    BY <1>10
  <2>2. QED
    BY <1>4, <2>1 DEF CallsAfter
<1>12. /\ ItemsOK /\ TimersOK /\ HooksOK /\ QueuesOK /\ finishing \subseteq Elements
  BY DEF IInv, StateOK
<1>13. Arrives(i, e, kind, b) /\ ItemsOK'
  BY <1>2, <1>12, ItemArrives
<1>14. Kept /\ AllPending /\ item[i].st = "new"
  BY <1>2, <1>12, <1>13, ArrivesKept
<1>15. /\ hooks \in [Elements -> HookSet] /\ \A f \in Elements : StopOK(f) /\ CountOK(f)
  BY <1>12 DEF HooksOK
<1>16. /\ hooks' \in [Elements -> HookSet]
       /\ \A f \in Elements : hooks'[f].stop = hooks[f].stop
       /\ \A f \in Elements : hooks'[f].unqueued = hooks[f].unqueued
  <2>1. PICK h : h = [hooks[e] EXCEPT !.present = TRUE]
    OBVIOUS
  <2>2. h \in HookSet /\ h.stop = hooks[e].stop /\ h.unqueued = hooks[e].unqueued
    BY <1>15, <2>1 DEF HookSet
  <2>3. hooks' = [hooks EXCEPT ![e] = h]
    BY <1>2, <2>1
  <2>4. QED
    BY <1>15, <2>2, <2>3
<1>17. ASSUME NEW f \in Elements
       PROVE  /\ Running(f)' = Running(f)
              /\ RunningUnqueued(f)' = RunningUnqueued(f)
              /\ StartedUnqueued(f)' = StartedUnqueued(f)
  BY <1>12, <1>13, ArrivesSets
<1>18. ASSUME NEW f \in Elements
       PROVE  StopOK(f)' /\ CountOK(f)'
  <2>1. StopOK(f)'
    BY <1>13, <1>15, <1>16, StopArrive
  <2>2. U(f)' = U(f)
    BY <1>11
  <2>3. CountOK(f)'
    BY <1>15, <1>16, <1>17, <2>2 DEF CountOK, U
  <2>4. QED
    BY <2>1, <2>3
<1>19. HooksOK'
  BY <1>16, <1>18 DEF HooksOK
<1>20. TimersOK' /\ TimersGrow /\ NothingQueued'
  BY <1>2, <1>9, <1>12, <1>13, TimersArrive, TimersSame DEF NothingQueued
<1>21. PICK s : s = Append(queue[e], i)
  OBVIOUS
<1>22. queue \in [Elements -> Seq(Items \cup {"inprogress"})] /\ \A f \in Elements : QueueOK(f)
  BY <1>12 DEF QueuesOK
<1>23. queue'[e] = s /\ \A f \in Elements \ {e} : queue'[f] = queue[f]
  BY <1>2, <1>21, <1>22
<1>24. /\ QueueOK(e)' /\ s \in Seq(Items \cup {"inprogress"}) /\ s # <<>>
       /\ SentinelFirst(queue[e]) => SentinelFirst(s)
  <2>1. Pending(i, e)'
    <3>1. item'[i].st = "waiting"
      BY <1>2, <1>12 DEF ItemsOK
    <3>2. QED
      BY <1>13, <3>1 DEF Pending, Arrives
  <2>2. QED
    BY <1>14, <1>21, <1>22, <1>23, <2>1, QueueGrows
<1>25. QueuesOK'
  <2>1. queue' \in [Elements -> Seq(Items \cup {"inprogress"})]
    BY <1>2, <1>21, <1>22, <1>24
  <2>2. ASSUME NEW f \in Elements
        PROVE  QueueOK(f)'
    BY <1>14, <1>22, <1>23, <1>24, QueueKept
  <2>3. QED
    BY <2>1, <2>2 DEF QueuesOK
<1>26. ASSUME NEW f \in Elements, f # e
       PROVE  Ordinary(f)'
  <2>1. D(f)' = D(f) /\ T(f)' = 0 /\ queue'[f] = queue[f] /\ Running(f)' = Running(f)
    BY <1>11, <1>17, <1>23, <1>26
  <2>2. Idle \/ (Job # <<"dequeue", f>> /\ Job[1] \notin {"start", "force"})
    BY <1>7 DEF HandlerKinds
  <2>3. Move(f)
    BY <1>7, <2>1, <2>2, QuietMove
  <2>4. Ordinary(f)
    BY <1>9 DEF Calm, AllOrdinary
  <2>5. QED
    BY <1>7, <2>3, <2>4, OrdinaryMove
<1>27. Ordinary(e)'
  <2>1. R(e)' = R(e) /\ R(e) \in Nat /\ T(e) = 0 /\ T(e)' = 0 /\ D(e) \in Nat /\ D(e)' = D(e) + w
    BY <1>7, <1>11, <1>17 DEF R, NumbersOK
  <2>2. Ordinary(e) /\ queue'[e] # <<>>
    BY <1>9, <1>23, <1>24 DEF Calm, AllOrdinary
  <2>3. CASE SentinelFirst(queue[e])
    <3>1. R(e)' + T(e)' + D(e)' = 1
      BY <1>4, <2>1, <2>2, <2>3 DEF Ordinary, SentinelFirst
    <3>2. SentinelFirst(queue'[e])
      BY <1>23, <1>24, <2>3
    <3>3. QED
      BY <2>2, <3>1, <3>2 DEF Ordinary
  <2>4. CASE ~SentinelFirst(queue[e])
    <3>1. queue[e] = <<>>
      <4>1. Idle \/ Job # <<"dequeue", e>>
        BY <1>7 DEF HandlerKinds
      <4>2. QED
        BY <2>2, <2>4, <4>1 DEF Ordinary
    <3>2. R(e) = 0 /\ D(e) = 0
      BY <1>9, <2>2, <3>1 DEF Ordinary
    <3>3. R(e)' + T(e)' + D(e)' = 1
      BY <1>4, <2>1, <2>4, <3>2
    <3>4. todo' # <<>> /\ Head(todo') = <<"dequeue", e>>
      <4>1. jobs = <<<<"dequeue", e>>>> /\ jobs # <<>> /\ jobs[1] = <<"dequeue", e>>
        BY <1>3, <2>4
      <4>2. Goes(JobSet, jobs, todo, jobs) /\ todo' = jobs \o todo
        BY <1>6, <1>7, <4>1, AfterTopFacts DEF Call
      <4>3. QED
        BY <4>1, <4>2 DEF Goes
    <3>5. (~Idle /\ Job = <<"dequeue", e>>)'
      BY <3>4 DEF Idle, Job
    <3>6. QED
      BY <2>2, <3>3, <3>5 DEF Ordinary
  <2>5. QED
    BY <2>3, <2>4
<1>28. Calm(L)'
  <2>1. CalmLoop(L)'
    BY <1>9, <1>12, <1>14, <1>20, CalmLoopKept DEF Calm, TimersOK
  <2>2. AllOrdinary'
    BY <1>26, <1>27 DEF AllOrdinary
  <2>3. finishing' = {}
    BY <1>2, <1>9 DEF Calm
  <2>4. QED
    BY <2>1, <2>2, <2>3 DEF Calm
<1>29. todo' = Y \o L /\ Short(Y)' /\ L \in Seq(JobSet)
  BY <1>1, <1>5, <1>8, <1>14, CallsShort DEF Jobs, Turn
<1>30. Turn(Y, L)'
  BY <1>28, <1>29 DEF Turn, LoopOK
<1>31. (\E A, B : Turn(A, B))'
  BY <1>30
<1>32. StateOK'
  BY <1>13, <1>19, <1>20, <1>25 DEF StateOK
<1>33. QED
  BY <1>2, <1>12, <1>31, <1>32 DEF IInv

\* A call of animate keeps IInv.
LEMMA AnimateStep ==
    ASSUME CarefulUses, IInv, NEW e \in Elements, NEW i \in Items, NEW instant \in BOOLEAN,
           Animate(e, i, instant)
    PROVE  IInv'
<1>1. PICK x : x = [NoItem EXCEPT !.kind = "anim", !.elem = e, !.instant = instant,
                                  !.st = "waiting"]
  OBVIOUS
<1>2. PICK kind \in {"anim", "delay"}, b \in BOOLEAN, use \in Queueing :
        kind = "anim" /\ b = TRUE /\ use = "animate"
  BY DEF Queueing
<1>3. IsNewItem(x, kind, e, b) /\ x.st = "waiting"
  BY <1>1, <1>2 DEF IsNewItem, NoItem, ItemSet
<1>4. May(use) /\ Enqueue(e, i, x)
  BY <1>1, <1>2 DEF Animate
<1>5. QED
  BY <1>2, <1>3, <1>4, EnqueueStep

\* A call of delay keeps IInv.
LEMMA DelayStep ==
    ASSUME CarefulUses, IInv, NEW e \in Elements, NEW i \in Items, Delay(e, i)
    PROVE  IInv'
<1>1. PICK x : x = [NoItem EXCEPT !.kind = "delay", !.elem = e, !.st = "waiting"]
  OBVIOUS
<1>2. PICK kind \in {"anim", "delay"}, b \in BOOLEAN, use \in Queueing :
        kind = "delay" /\ b = TRUE /\ use = "delay"
  BY DEF Queueing
<1>3. IsNewItem(x, kind, e, b) /\ x.st = "waiting"
  BY <1>1, <1>2 DEF IsNewItem, NoItem, ItemSet
<1>4. May(use) /\ Enqueue(e, i, x) /\ UsesDelays
  BY <1>1, <1>2 DEF Delay, May, UsesDelays
<1>5. QED
  BY <1>2, <1>3, <1>4, EnqueueStep

-----------------------------------------------------------------------------
(* The steps of the loops.                                                 *)

\* Jobs of a loop are not short.
LoopJobs(s) == s \in Seq(JobSet) /\ \A n \in DOMAIN s : s[n][1] \notin ShortKinds

\* One job of a loop is a list of such jobs;
LEMMA LoopJobsOne ==
    ASSUME NEW a \in JobSet, a[1] \notin ShortKinds
    PROVE  LoopJobs(<<a>>)
<1>1. <<a>> \in Seq(JobSet) /\ DOMAIN <<a>> = {1} /\ <<a>>[1] = a
  OBVIOUS
<1>2. QED
  BY <1>1 DEF LoopJobs

\* so are two of them,
LEMMA LoopJobsTwo ==
    ASSUME NEW a \in JobSet, NEW b \in JobSet, a[1] \notin ShortKinds, b[1] \notin ShortKinds
    PROVE  LoopJobs(<<a, b>>)
<1>1. <<a, b>> \in Seq(JobSet) /\ DOMAIN <<a, b>> = {1, 2} /\ <<a, b>>[1] = a /\ <<a, b>>[2] = b
  OBVIOUS
<1>2. QED
  BY <1>1 DEF LoopJobs

\* three of them,
LEMMA LoopJobsThree ==
    ASSUME NEW a \in JobSet, NEW b \in JobSet, NEW c \in JobSet,
           a[1] \notin ShortKinds, b[1] \notin ShortKinds, c[1] \notin ShortKinds
    PROVE  LoopJobs(<<a, b, c>>)
<1>1. /\ <<a, b, c>> \in Seq(JobSet) /\ DOMAIN <<a, b, c>> = {1, 2, 3}
      /\ <<a, b, c>>[1] = a /\ <<a, b, c>>[2] = b /\ <<a, b, c>>[3] = c
  OBVIOUS
<1>2. QED
  BY <1>1 DEF LoopJobs

\* and none.
LEMMA LoopJobsNone == LoopJobs(<<>>)
BY EmptySeq DEF LoopJobs

\* They are no calls of dequeue.
LEMMA LoopCount ==
    ASSUME NEW s, LoopJobs(s), NEW e
    PROVE  Count(s, <<"dequeue", e>>) = 0 /\ Count(s, <<"unqueued", e>>) = 0
<1>1. {n \in DOMAIN s : s[n] = <<"dequeue", e>>} = {}
  BY DEF LoopJobs, ShortKinds
<1>2. {n \in DOMAIN s : s[n] = <<"unqueued", e>>} = {}
  BY DEF LoopJobs, ShortKinds
<1>3. QED
  BY <1>1, <1>2, FS_EmptySet DEF Count

\* Those of a loop are such.
LEMMA LoopIsJobs ==
    ASSUME NEW X, NEW L, LoopOK(X, L), L \in Seq(JobSet)
    PROVE  LoopJobs(L)
<1>1. ASSUME NEW n \in DOMAIN L
      PROVE  L[n][1] \notin ShortKinds
  <2>1. CASE Calm(L)
    BY <1>1, <2>1 DEF Calm, CalmLoop, ShortKinds
  <2>2. CASE \E e \in Elements, g \in BOOLEAN : StopBegins(X, L, e, g)
    BY <1>1, <2>2 DEF StopBegins, ShortKinds
  <2>3. CASE \E e \in Elements, k \in Nat, g, d \in BOOLEAN : StopGoesOn(X, L, e, k, g, d)
    BY <1>1, <2>3 DEF StopGoesOn, StopAt, ShortKinds
  <2>4. CASE \E e \in Elements, k \in Nat, old \in Seq(Items \cup {"inprogress"}) :
                FinishGoesOn(L, e, k, old)
    BY <1>1, <2>4 DEF FinishGoesOn, FinishAt, ShortKinds
  <2>5. CASE \E e \in Elements, old \in Seq(Items \cup {"inprogress"}) : FinishEnds(L, e, old)
    BY <1>1, <2>5 DEF FinishEnds, ShortKinds
  <2>6. QED
    BY <2>1, <2>2, <2>3, <2>4, <2>5 DEF LoopOK
<1>2. QED
  BY <1>1 DEF LoopJobs

\* Where a loop goes on, or none is, there are no short jobs.
NoShorts == \A f \in Elements : D(f) = 0 /\ U(f) = 0 /\ T(f) = 0

AtLoop(X, L) ==
    /\ X = <<>> /\ todo = L /\ todo \in Seq(JobSet) /\ LoopJobs(L) /\ LoopOK(X, L) /\ NoShorts
    /\ Idle \/ Job[1] \notin ShortKinds

\* Where no short job is on top there is none at all.
LEMMA LoopContext ==
    ASSUME NEW X, NEW L, Turn(X, L), Idle \/ Job[1] \notin ShortKinds
    PROVE  AtLoop(X, L)
<1>1. X = <<>> /\ todo = L /\ todo \in Seq(JobSet)
  BY TopJob, TopIsLoop
<1>2. LoopJobs(L) /\ LoopOK(X, L)
  BY <1>1, LoopIsJobs DEF Turn
<1>3. \A f \in Elements : D(f) = 0 /\ U(f) = 0
  BY <1>1, <1>2, LoopCount DEF D, U
<1>4. \A f \in Elements : T(f) = 0
  BY DEF T, Doing, ShortKinds
<1>5. QED
  BY <1>1, <1>2, <1>3, <1>4 DEF AtLoop, NoShorts

\* What a step of a loop leads to: some short jobs, and how it goes on.
LoopNumbers(f, e, p, q) ==
    /\ D(f)' = IF f = e THEN p ELSE 0
    /\ U(f)' = IF f = e THEN q ELSE 0
    /\ T(f)' = 0

\* The numbers after a step of a loop that calls short jobs.
LEMMA LoopGoesOn ==
    ASSUME NEW short, NEW loop, NEW e, NEW p \in Nat, NEW q \in Nat, Jobs(short, e, p, q),
           LoopJobs(loop), todo' = short \o loop
    PROVE  /\ todo' \in Seq(JobSet) /\ Short(short)' /\ ~StartsWith(todo')
           /\ \A f \in Elements : LoopNumbers(f, e, p, q)
<1>1. short \in Seq(JobSet) /\ loop \in Seq(JobSet) /\ ~StartsWith(short) /\ NewJobs(short)'
  BY DEF Jobs, LoopJobs
<1>2. todo' \in Seq(JobSet)
  BY <1>1, ConcatProperties
<1>3. Short(short)'
  BY <1>1 DEF Short, NewJobs
<1>4. ~StartsWith(todo')
  <2>1. CASE short = <<>>
    <3>1. todo' = loop
      BY <1>1, <2>1, ConcatEmptySeq
    <3>2. CASE loop = <<>>
      BY <3>1, <3>2 DEF StartsWith
    <3>3. CASE loop # <<>>
      <4>1. Head(loop) = loop[1] /\ 1 \in DOMAIN loop
        BY <1>1, <3>3, EmptySeq, LenProperties
      <4>2. QED
        BY <3>1, <4>1 DEF StartsWith, LoopJobs, ShortKinds
    <3>4. QED
      BY <3>2, <3>3
  <2>2. CASE short # <<>>
    <3>1. Goes(JobSet, short, loop, loop)
      BY <1>1, <2>2, AfterTopFacts
    <3>2. Head(short) = short[1]
      BY <1>1, <2>2
    <3>3. todo' # <<>> /\ Head(todo') = short[1]
      BY <3>1 DEF Goes
    <3>4. QED
      BY <1>1, <2>2, <3>2, <3>3 DEF StartsWith
  <2>3. QED
    BY <2>1, <2>2
<1>5. ASSUME NEW f \in Elements
      PROVE  LoopNumbers(f, e, p, q)
  <2>1. /\ Count(todo', <<"dequeue", f>>) =
                Count(short, <<"dequeue", f>>) + Count(loop, <<"dequeue", f>>)
        /\ Count(todo', <<"unqueued", f>>) =
                Count(short, <<"unqueued", f>>) + Count(loop, <<"unqueued", f>>)
    BY <1>1, CountConcat
  <2>2. Count(loop, <<"dequeue", f>>) = 0 /\ Count(loop, <<"unqueued", f>>) = 0
    BY LoopCount
  <2>3. /\ Count(short, <<"dequeue", f>>) = IF f = e THEN p ELSE 0
        /\ Count(short, <<"unqueued", f>>) = IF f = e THEN q ELSE 0
    BY DEF Jobs
  <2>4. T(f)' = 0
    BY <1>4, NoStart
  <2>5. QED
    BY <2>1, <2>2, <2>3, <2>4 DEF LoopNumbers, D, U
<1>6. QED
  BY <1>2, <1>3, <1>4, <1>5

\* The step keeps the invariant if the new loop is where it should be.
LEMMA LoopStep ==
    ASSUME NEW short, NEW loop, Short(short)', loop \in Seq(JobSet), todo' = short \o loop,
           LoopOK(short, loop)', StateOK', finishing' \subseteq Elements
    PROVE  IInv'
<1>1. Turn(short, loop)'
  BY DEF Turn
<1>2. (\E A, B : Turn(A, B))'
  BY <1>1
<1>3. QED
  BY <1>2 DEF IInv

\* The right to go on, where nothing stops: a call of dequeue takes over that
\* of what has settled.
LEMMA LoopOrdinary ==
    ASSUME NEW e \in Elements, Ordinary(e), queue'[e] = queue[e],
           Idle \/ Job[1] \notin ShortKinds, D(e) = 0, T(e) = 0, T(e)' = 0,
           R(e) \in Nat, R(e)' \in Nat, NEW p \in Nat, D(e)' = p, R(e)' + p = R(e)
    PROVE  Ordinary(e)'
<1>1. Idle \/ Job # <<"dequeue", e>>
  BY DEF ShortKinds
<1>2. queue'[e] # <<>> => R(e)' + T(e)' + D(e)' = 1
  BY DEF Ordinary
<1>3. queue'[e] = <<>> => R(e)' = 0 /\ T(e)' = 0 /\ D(e)' = 0
  BY DEF Ordinary
<1>4. queue'[e] # <<>> => SentinelFirst(queue'[e])
  BY <1>1 DEF Ordinary
<1>5. QED
  BY <1>2, <1>3, <1>4 DEF Ordinary

\* Where only the jobs and the timers change.
LEMMA LoopTimers ==
    ASSUME StateOK, NoShorts, item' = item, queue' = queue, hooks' = hooks, TimersOK',
           \A f \in Elements : U(f)' = 0
    PROVE  /\ StateOK' /\ AllPending
           /\ \A f \in Elements : Running(f)' = Running(f) /\ R(f)' = R(f) /\ R(f) \in Nat
<1>1. /\ ItemsOK /\ HooksOK /\ QueuesOK /\ NothingQueued
      /\ hooks \in [Elements -> HookSet] /\ \A f \in Elements : StopOK(f) /\ CountOK(f)
  BY DEF StateOK, HooksOK
<1>2. AllPending /\ ItemsOK' /\ \A f \in Elements : Running(f)' = Running(f) /\ R(f)' = R(f)
  BY <1>1, SameKept
<1>3. QueuesOK' /\ NothingQueued'
  BY <1>1, <1>2, QueuesSame DEF NothingQueued
<1>4. ASSUME NEW f \in Elements
      PROVE  StopOK(f)' /\ CountOK(f)'
  <2>1. U(f)' = U(f) /\ hooks'[f].unqueued = hooks[f].unqueued /\ hooks'[f].stop = hooks[f].stop
    BY DEF NoShorts
  <2>2. QED
    BY <1>1, <2>1, StopSame, CountSame
<1>5. HooksOK'
  BY <1>1, <1>4 DEF HooksOK
<1>6. \A f \in Elements : R(f) \in Nat
  BY CardinalityTypes DEF R
<1>7. QED
  BY <1>2, <1>3, <1>5, <1>6 DEF StateOK

\* A step of a loop that changes no state but the jobs keeps it right.
LEMMA LoopSame ==
    ASSUME StateOK, NoShorts, item' = item, queue' = queue, hooks' = hooks, timers' = timers,
           interval' = interval, \A f \in Elements : U(f)' = 0
    PROVE  /\ StateOK' /\ TimersGrow /\ AllPending
           /\ \A f \in Elements : Running(f)' = Running(f) /\ R(f)' = R(f) /\ R(f) \in Nat
<1>1. TimersOK' /\ TimersGrow
  BY TimersSame DEF StateOK
<1>2. QED
  BY <1>1, LoopTimers

\* Where an item goes on or settles, what it ends with is to be done.
EndsUnqueued(i, s) ==
    IF ~item[i].queued /\ item[i].st = "running" /\ s # "running" THEN 1 ELSE 0
UnqueuedAfter(e, q) == \A f \in Elements : U(f)' = IF f = e THEN q ELSE 0

\* A step of a loop that turns one item to its end keeps what it does not touch.
LEMMA LoopTurns ==
    ASSUME StateOK, NoShorts, queue' = queue, hooks' = hooks, timers' = timers,
           interval' = interval,
           NEW i \in Items, NEW e, e = item[i].elem, NEW s \in EndStates, Turns(i, s), ItemsOK',
           Started(i), item[i].kind # None, s = "running" => item[i].st = "running",
           Settled(i) => s # "running", NEW q \in Nat, q = EndsUnqueued(i, s),
           UnqueuedAfter(e, q)
    PROVE  /\ StateOK' /\ TimersGrow /\ AllPending /\ e \in Elements
           /\ \A f \in Elements : R(f) \in Nat /\ R(f)' \in Nat
           /\ \A f \in Elements \ {e} : Running(f)' = Running(f) /\ R(f)' = R(f)
<1>1. /\ ItemsOK /\ TimersOK /\ HooksOK /\ QueuesOK /\ NothingQueued
      /\ hooks \in [Elements -> HookSet] /\ \A f \in Elements : StopOK(f) /\ CountOK(f)
  BY DEF StateOK, HooksOK
<1>2. item[i] \in ItemSet /\ e \in Elements
  BY <1>1 DEF ItemsOK, ItemOK
<1>3. item[i].st # "waiting" /\ item[i].st # "new" /\ item[i].st \in EndStates
  BY <1>2 DEF Started, ItemSet, EndStates
<1>4. OthersPending(i) /\ AllPending
  <2>1. ASSUME NEW k \in Items, NEW f \in Elements, Pending(k, f)
        PROVE  Pending(k, f)'
    <3>1. k # i
      BY <1>3, <2>1 DEF Pending
    <3>2. item'[k] = item[k]
      BY <3>1 DEF Turns
    <3>3. QED
      BY <2>1, <3>2 DEF Pending
  <2>2. QED
    BY <2>1 DEF AllPending, OthersPending
<1>5. TimersOK' /\ TimersGrow
  BY <1>1, TimersTurn, TimersSame
<1>6. QueuesOK' /\ NothingQueued'
  BY <1>1, <1>4, QueuesSame DEF NothingQueued
<1>7. ASSUME NEW f \in Elements
      PROVE  StopOK(f)'
  BY <1>1, <1>7, StopTurn
<1>8. ASSUME NEW f \in Elements
      PROVE  CountOK(f)'
  <2>1. PICK n \in {0, 1} : n = IF s = "running" THEN 1 ELSE 0
    OBVIOUS
  <2>2. U(f) = 0 /\ U(f)' = IF f = e THEN q ELSE 0
    BY DEF NoShorts, UnqueuedAfter
  <2>3. U(f) \in Nat /\ U(f)' \in Nat
    BY <2>2
  <2>4. hooks[f].unqueued \in Nat /\ hooks'[f].unqueued = hooks[f].unqueued
    BY <1>1 DEF HookSet
  <2>5. item[i].queued \/ item[i].elem # f => U(f)' = U(f)
    BY <2>2 DEF EndsUnqueued
  <2>6. ~item[i].queued /\ item[i].elem = f =>
            IF item[i].st = "running" THEN U(f)' + n = U(f) + 1 ELSE U(f)' = U(f) /\ n = 0
    BY <1>3, <2>1, <2>2 DEF EndStates, EndsUnqueued
  <2>7. QED
    BY <1>1, <2>1, <2>3, <2>4, <2>5, <2>6, CountTurn
<1>9. HooksOK'
  BY <1>1, <1>7, <1>8 DEF HooksOK
<1>10. ASSUME NEW f \in Elements \ {e}
       PROVE  Running(f)' = Running(f) /\ R(f)' = R(f)
  <2>1. Running(f)' = Running(f) \ {i} /\ i \notin Running(f)
    BY <1>1, <1>10, TurnsSets DEF Running
  <2>2. QED
    BY <2>1 DEF R
<1>11. \A f \in Elements : R(f) \in Nat /\ R(f)' \in Nat
  BY CardinalityTypes DEF R
<1>12. QED
  BY <1>1, <1>2, <1>4, <1>5, <1>6, <1>9, <1>10, <1>11 DEF StateOK

\* Where there are only those of a loop.
LEMMA LoopOnly ==
    ASSUME NEW loop, LoopJobs(loop), todo' = loop
    PROVE  /\ todo' = <<>> \o loop /\ Short(<<>>)' /\ loop \in Seq(JobSet) /\ ~StartsWith(todo')
           /\ \A f \in Elements : D(f)' = 0 /\ U(f)' = 0 /\ T(f)' = 0
<1>1. PICK short, e, z : short = <<>> /\ z = 0 /\ e = None
  OBVIOUS
<1>2. Jobs(short, e, z, z) /\ z \in Nat
  BY <1>1, NoJobs
<1>3. todo' = short \o loop /\ loop \in Seq(JobSet)
  BY <1>1, ConcatEmptySeq DEF LoopJobs
<1>4. Short(short)' /\ ~StartsWith(todo') /\ \A f \in Elements : LoopNumbers(f, e, z, z)
  BY <1>2, <1>3, LoopGoesOn
<1>5. \A f \in Elements : D(f)' = 0 /\ U(f)' = 0 /\ T(f)' = 0
  BY <1>1, <1>4 DEF LoopNumbers
<1>6. QED
  BY <1>1, <1>3, <1>4, <1>5

\* Between two turns there is no loop.
LEMMA IdleIsCalm ==
    ASSUME NEW X, NEW L, Turn(X, L), Idle
    PROVE  X = <<>> /\ L = <<>> /\ Calm(L) /\ AtLoop(X, L)
<1>1. X = <<>> /\ L = <<>>
  BY TopJob
<1>2. Calm(L)
  BY <1>1 DEF Turn, LoopOK, StopBegins, StopGoesOn, StopAt, FinishGoesOn, FinishAt, FinishEnds
<1>3. QED
  BY <1>1, <1>2, LoopContext

\* A step of the tick: what settles calls dequeue, if it was queued.
LEMMA CalmStep ==
    ASSUME IInv, NEW X, NEW L, AtLoop(X, L), Calm(L),
           NEW short, NEW loop, NEW e, NEW p \in Nat, NEW q \in Nat, Jobs(short, e, p, q),
           LoopJobs(loop), todo' = short \o loop, queue' = queue, finishing' = finishing,
           StateOK', CalmLoop(loop)', NumbersOK, NumbersOK',
           \A f \in Elements : R(f)' + (IF f = e THEN p ELSE 0) = R(f)
    PROVE  IInv'
<1>1. Short(short)' /\ \A f \in Elements : LoopNumbers(f, e, p, q)
  BY LoopGoesOn
<1>2. ASSUME NEW f \in Elements
      PROVE  Ordinary(f)'
  <2>1. PICK r \in Nat : r = IF f = e THEN p ELSE 0
    OBVIOUS
  <2>2. D(f)' = r /\ T(f)' = 0 /\ R(f)' + r = R(f)
    BY <1>1, <2>1 DEF LoopNumbers
  <2>3. Ordinary(f) /\ D(f) = 0 /\ T(f) = 0 /\ (Idle \/ Job[1] \notin ShortKinds)
    BY DEF Calm, AllOrdinary, AtLoop, NoShorts
  <2>4. R(f) \in Nat /\ R(f)' \in Nat
    BY DEF NumbersOK
  <2>5. QED
    BY <2>2, <2>3, <2>4, LoopOrdinary
<1>3. LoopOK(short, loop)'
  BY <1>2 DEF Calm, AllOrdinary, LoopOK
<1>4. QED
  BY <1>1, <1>3, LoopStep DEF LoopJobs, IInv

\* A step of the tick that ends in no call keeps IInv.
LEMMA CalmOnly ==
    ASSUME IInv, NEW X, NEW L, AtLoop(X, L), Calm(L),
           NEW loop, LoopJobs(loop), todo' = loop, queue' = queue, finishing' = finishing,
           StateOK', CalmLoop(loop)', \A f \in Elements : R(f)' = R(f)
    PROVE  IInv'
<1>1. PICK short, e, z : short = <<>> /\ z = 0 /\ e = None
  OBVIOUS
<1>2. Jobs(short, e, z, z) /\ z \in Nat /\ todo' = short \o loop /\ todo' \in Seq(JobSet)
  BY <1>1, NoJobs, LoopOnly DEF LoopJobs
<1>3. NumbersOK /\ NumbersOK'
  BY <1>2, Numbers DEF AtLoop
<1>4. ASSUME NEW f \in Elements
      PROVE  R(f)' + (IF f = e THEN z ELSE 0) = R(f)
  BY <1>1, <1>3 DEF NumbersOK
<1>5. QED
  BY <1>2, <1>3, <1>4, CalmStep

\* The interval finds no jobs.
LEMMA TickBeginsStep ==
    ASSUME IInv, TickBegins
    PROVE  IInv'
<1>1. PICK X, L : Turn(X, L)
  BY DEF IInv
<1>2. /\ Idle /\ todo' = <<<<"tick", 0>>>> /\ item' = item /\ queue' = queue /\ hooks' = hooks
      /\ finishing' = finishing /\ timers' = timers /\ interval' = interval
  BY DEF TickBegins
<1>3. AtLoop(X, L) /\ Calm(L) /\ NoShorts /\ StateOK
  BY <1>1, <1>2, IdleIsCalm DEF AtLoop, IInv
<1>4. PICK loop : loop = <<<<"tick", 0>>>>
  OBVIOUS
<1>5. LoopJobs(loop) /\ CalmLoop(loop)'
  <2>1. <<"tick", 0>> \in JobSet
    BY JobTypes
  <2>2. QED
    BY <1>4, <2>1, LoopJobsOne DEF ShortKinds, CalmLoop
<1>6. \A f \in Elements : U(f)' = 0
  BY <1>2, <1>4, <1>5, LoopOnly
<1>7. StateOK' /\ \A f \in Elements : R(f)' = R(f)
  BY <1>2, <1>3, <1>6, LoopSame
<1>8. QED
  BY <1>2, <1>3, <1>4, <1>5, <1>7, CalmOnly

\* What follows the only job.
LEMMA ThenOnly ==
    ASSUME NEW j, todo = <<j>>, NEW jobs \in Seq(JobSet), Then(jobs)
    PROVE  todo' = jobs
<1>1. Tail(todo) = <<>>
  OBVIOUS
<1>2. QED
  BY <1>1, ConcatEmptySeq DEF Then

\* The loop of the tick.
TickAt(X, L, k) ==
    /\ AtLoop(X, L) /\ Calm(L) /\ NoShorts /\ StateOK /\ k \in Nat /\ ~Idle
    /\ todo \in Seq(JobSet) /\ Len(timers) \in Nat

\* A tick is the only loop there is, and runs over timers from its position;
LEMMA TickLoop ==
    ASSUME IInv, Doing("tick")
    PROVE  \E X, L, k : TickAt(X, L, k) /\ todo = <<<<"tick", k>>>> /\ Job = <<"tick", k>>
<1>1. PICK X, L : Turn(X, L)
  BY DEF IInv
<1>2. ~Idle /\ Job[1] = "tick"
  BY DEF Doing
<1>3. AtLoop(X, L)
  BY <1>1, <1>2, LoopContext DEF ShortKinds
<1>4. todo = L /\ LoopOK(X, L) /\ L # <<>> /\ Job = Head(L) /\ Head(L)[1] = "tick"
  BY <1>2, <1>3 DEF AtLoop, Idle, Job
<1>5. Calm(L)
  BY <1>4 DEF LoopOK, StopBegins, StopGoesOn, StopAt, FinishGoesOn, FinishAt, FinishEnds
<1>6. PICK k \in Nat : L = <<<<"tick", k>>>>
  BY <1>4, <1>5 DEF Calm, CalmLoop
<1>7. Len(timers) \in Nat /\ StateOK
  BY LenProperties DEF IInv, StateOK, TimersOK
<1>8. QED
  BY <1>2, <1>3, <1>4, <1>5, <1>6, <1>7 DEF TickAt, AtLoop

\* what it has ticked is over, at that position.
LEMMA TickedLoop ==
    ASSUME IInv, Doing("ticked")
    PROVE  \E X, L, k : \E i \in Items :
                /\ TickAt(X, L, k) /\ todo = <<<<"ticked", k, i>>>> /\ Job = <<"ticked", k, i>>
                /\ Over(k + 1) /\ timers[k + 1] = i
<1>1. PICK X, L : Turn(X, L)
  BY DEF IInv
<1>2. ~Idle /\ Job[1] = "ticked"
  BY DEF Doing
<1>3. AtLoop(X, L)
  BY <1>1, <1>2, LoopContext DEF ShortKinds
<1>4. todo = L /\ LoopOK(X, L) /\ L # <<>> /\ Job = Head(L) /\ Head(L)[1] = "ticked"
  BY <1>2, <1>3 DEF AtLoop, Idle, Job
<1>5. Calm(L)
  BY <1>4 DEF LoopOK, StopBegins, StopGoesOn, StopAt, FinishGoesOn, FinishAt, FinishEnds
<1>6. PICK k \in Nat, i \in Items :
        L = <<<<"ticked", k, i>>>> /\ Over(k + 1) /\ timers[k + 1] = i
  BY <1>4, <1>5 DEF Calm, CalmLoop
<1>7. Len(timers) \in Nat /\ StateOK
  BY LenProperties DEF IInv, StateOK, TimersOK
<1>8. QED
  BY <1>2, <1>3, <1>4, <1>5, <1>6, <1>7 DEF TickAt, AtLoop

\* The animation at a timer was started.
LEMMA TimerStarted ==
    ASSUME StateOK, NEW k \in 1..Len(timers)
    PROVE  /\ timers[k] \in Items /\ item[timers[k]].kind = "anim" /\ HandlerOK(timers[k])
           /\ item[timers[k]].kind # None /\ item[timers[k]] \in ItemSet
           /\ item[timers[k]].st \in EndStates
<1>1. timers \in Seq(Items) /\ k \in DOMAIN timers
  BY LenProperties DEF StateOK, TimersOK
<1>2. timers[k] \in Items /\ item[timers[k]].kind = "anim" /\ Started(timers[k])
  BY <1>1, ElementOfSeq DEF StateOK, TimersOK
<1>3. item[timers[k]] \in ItemSet
  BY <1>2 DEF StateOK, ItemsOK
<1>4. item[timers[k]].st \in EndStates
  BY <1>2, <1>3 DEF ItemSet, Started, EndStates
<1>5. QED
  BY <1>2, <1>3, <1>4, FxAssumption DEF HandlerOK

\* A timer that is not over yet goes on, and the invariant IInv with it.
LEMMA TickGoesOnStep ==
    ASSUME IInv, TickGoesOn
    PROVE  IInv'
<1>1. PICK X, L, k : TickAt(X, L, k) /\ todo = <<<<"tick", k>>>> /\ Job = <<"tick", k>>
  BY TickLoop DEF TickGoesOn
<1>2. /\ AtLoop(X, L) /\ Calm(L) /\ NoShorts /\ StateOK /\ k \in Nat /\ Len(timers) \in Nat
  BY <1>1 DEF TickAt
<1>3. PICK i : i = timers[k + 1]
  OBVIOUS
<1>4. /\ k < Len(timers) /\ item[i].st = "running"
      /\ item' = [item EXCEPT ![i].ticks = @ + 1]
      /\ Then(<<<<"tick", k + 1>>>>)
      /\ queue' = queue /\ hooks' = hooks /\ finishing' = finishing /\ timers' = timers
      /\ interval' = interval
  BY <1>1, <1>3 DEF TickGoesOn, Current
<1>5. i \in Items /\ item[i].kind # None /\ HandlerOK(i)
  <2>1. k + 1 \in 1..Len(timers)
    BY <1>2, <1>4
  <2>2. QED
    BY <1>2, <1>3, <2>1, TimerStarted
<1>6. PICK s \in EndStates : s = "running"
  BY DEF EndStates
<1>7. Turns(i, s) /\ ItemsOK'
  BY <1>2, <1>4, <1>5, <1>6, TickTurns DEF StateOK
<1>8. PICK n \in Nat : n = k + 1
  BY <1>2
<1>9. PICK loop : loop = <<<<"tick", n>>>>
  OBVIOUS
<1>10. LoopJobs(loop) /\ CalmLoop(loop)'
  <2>1. <<"tick", n>> \in JobSet
    BY JobTypes
  <2>2. QED
    BY <1>9, <2>1, LoopJobsOne DEF ShortKinds, CalmLoop
<1>11. todo' = loop
  BY <1>1, <1>4, <1>9, <1>10, <1>8, ThenOnly DEF LoopJobs
<1>12. \A f \in Elements : U(f)' = 0
  BY <1>10, <1>11, LoopOnly
<1>13. StateOK' /\ \A f \in Elements : R(f)' = R(f)
  <2>1. PICK e, z : e = item[i].elem /\ z = 0
    OBVIOUS
  <2>2. z = EndsUnqueued(i, s)
    BY <1>6, <2>1 DEF EndsUnqueued
  <2>3. UnqueuedAfter(e, z)
    BY <1>12, <2>1 DEF UnqueuedAfter
  <2>4. Started(i) /\ ~Settled(i)
    BY <1>4 DEF Started, Settled
  <2>5. StateOK' /\ \A f \in Elements \ {e} : R(f)' = R(f)
    BY <1>2, <1>4, <1>5, <1>6, <1>7, <2>1, <2>2, <2>3, <2>4, LoopTurns
  <2>6. ASSUME NEW f \in Elements
        PROVE  R(f)' = R(f)
    <3>1. Running(f)' = IF item[i].elem = f /\ item[i].queued /\ s = "running"
                        THEN Running(f) \cup {i} ELSE Running(f) \ {i}
      BY <1>2, <1>5, <1>7, TurnsSets DEF StateOK
    <3>2. item[i].elem = f /\ item[i].queued <=> i \in Running(f)
      BY <1>4, <1>5 DEF Running
    <3>3. Running(f)' = Running(f)
      BY <1>6, <3>1, <3>2
    <3>4. QED
      BY <3>3 DEF R
  <2>7. QED
    BY <2>5, <2>6
<1>14. QED
  BY <1>2, <1>4, <1>10, <1>11, <1>13, CalmOnly

\* A tick that has passed the last timer keeps IInv.
LEMMA TickEndsStep ==
    ASSUME IInv, TickEnds
    PROVE  IInv'
<1>1. PICK X, L, k : TickAt(X, L, k) /\ todo = <<<<"tick", k>>>> /\ Job = <<"tick", k>>
  BY TickLoop DEF TickEnds
<1>2. /\ AtLoop(X, L) /\ Calm(L) /\ NoShorts /\ StateOK
  BY <1>1 DEF TickAt
<1>3. /\ interval' = (timers # <<>>) /\ Then(<<>>)
      /\ item' = item /\ queue' = queue /\ hooks' = hooks /\ finishing' = finishing
      /\ timers' = timers
  BY <1>1 DEF TickEnds
<1>4. PICK loop \in Seq(JobSet) : loop = <<>>
  BY EmptySeq
<1>5. LoopJobs(loop) /\ CalmLoop(loop)'
  BY <1>4, LoopJobsNone DEF CalmLoop
<1>6. todo' = loop
  BY <1>1, <1>3, <1>4, ThenOnly
<1>7. \A f \in Elements : U(f)' = 0
  BY <1>5, <1>6, LoopOnly
<1>8. TimersOK'
  BY <1>2, <1>3 DEF StateOK, TimersOK, Started
<1>9. StateOK' /\ \A f \in Elements : R(f)' = R(f)
  BY <1>2, <1>3, <1>7, <1>8, LoopTimers
<1>10. QED
  BY <1>2, <1>3, <1>5, <1>6, <1>9, CalmOnly

\* A tick that removes the timer that is over keeps IInv: it names the item it
\* ticked, even where a handler has changed the timers.
LEMMA TickRemovesStep ==
    ASSUME IInv, TickRemoves
    PROVE  IInv'
<1>1. PICK X, L, k : \E i \in Items :
        /\ TickAt(X, L, k) /\ todo = <<<<"ticked", k, i>>>> /\ Job = <<"ticked", k, i>>
        /\ Over(k + 1) /\ timers[k + 1] = i
  BY TickedLoop DEF TickRemoves
<1>2. PICK i \in Items :
        /\ TickAt(X, L, k) /\ todo = <<<<"ticked", k, i>>>> /\ Job = <<"ticked", k, i>>
        /\ Over(k + 1) /\ timers[k + 1] = i
  BY <1>1
<1>3. /\ AtLoop(X, L) /\ Calm(L) /\ NoShorts /\ StateOK /\ TimersOK /\ k \in Nat
      /\ Len(timers) \in Nat
  BY <1>2 DEF TickAt, StateOK
<1>4. PICK n : n = k + 1
  OBVIOUS
<1>5. n \in 1..Len(timers) /\ k < Len(timers) /\ timers[n] = i /\ Settled(timers[n])
  BY <1>2, <1>3, <1>4, LenProperties DEF Over, TimersOK
<1>6. /\ timers' = RemoveAt(timers, n) /\ Then(<<<<"tick", k>>>>) /\ item' = item
      /\ queue' = queue /\ hooks' = hooks /\ finishing' = finishing /\ interval' = interval
  BY <1>2, <1>4, <1>5 DEF TickRemoves
<1>7. PICK loop : loop = <<<<"tick", k>>>>
  OBVIOUS
<1>8. LoopJobs(loop) /\ CalmLoop(loop)'
  <2>1. <<"tick", k>> \in JobSet
    BY <1>3, JobTypes
  <2>2. QED
    BY <1>3, <1>7, <2>1, LoopJobsOne DEF ShortKinds, CalmLoop
<1>9. todo' = loop
  BY <1>2, <1>6, <1>7, <1>8, ThenOnly DEF LoopJobs
<1>10. \A f \in Elements : U(f)' = 0
  BY <1>8, <1>9, LoopOnly
<1>11. TimersOK'
  BY <1>3, <1>5, <1>6, TimersRemove
<1>12. StateOK' /\ \A f \in Elements : R(f)' = R(f)
  BY <1>3, <1>6, <1>10, <1>11, LoopTimers
<1>13. QED
  BY <1>3, <1>6, <1>8, <1>9, <1>12, CalmOnly

\* What an animation or a delay that settles between two turns, or in the tick,
\* passes on.
LEMMA CalmSettles ==
    ASSUME IInv, NEW X, NEW L, AtLoop(X, L), Calm(L),
           NEW i \in Items, Started(i), item[i].kind # None, NEW e, e = item[i].elem,
           NEW s \in EndStates, s # "running", item' = [item EXCEPT ![i].st = s],
           NEW p \in Nat, NEW q \in Nat,
           p = IF item[i].st = "running" /\ item[i].queued THEN 1 ELSE 0,
           q = IF item[i].st = "running" /\ ~item[i].queued THEN 1 ELSE 0,
           NEW short, Jobs(short, e, p, q), NEW loop, LoopJobs(loop), todo' = short \o loop,
           Settled(i)' => CalmLoop(loop)',
           queue' = queue, hooks' = hooks, finishing' = finishing, timers' = timers,
           interval' = interval
    PROVE  IInv'
<1>1. StateOK /\ NoShorts /\ ItemsOK /\ todo \in Seq(JobSet)
  BY DEF IInv, StateOK, AtLoop
<1>2. Turns(i, s) /\ ItemsOK'
  BY <1>1, StTurns
<1>3. todo' \in Seq(JobSet) /\ \A f \in Elements : LoopNumbers(f, e, p, q)
  BY LoopGoesOn
<1>4. NumbersOK /\ NumbersOK'
  BY <1>1, <1>3, Numbers
<1>5. UnqueuedAfter(e, q)
  BY <1>3 DEF LoopNumbers, UnqueuedAfter
<1>6. StateOK' /\ e \in Elements /\ \A f \in Elements \ {e} : R(f)' = R(f)
  <2>1. q = EndsUnqueued(i, s)
    BY DEF EndsUnqueued
  <2>2. QED
    BY <1>1, <1>2, <1>5, <2>1, LoopTurns
<1>7. R(e)' + p = R(e)
  <2>1. R(e)' = R(e) - (IF i \in Running(e) THEN 1 ELSE 0)
            + (IF item[i].elem = e /\ item[i].queued /\ s = "running" THEN 1 ELSE 0)
    BY <1>1, <1>2, <1>6, TurnsCounts
  <2>2. p = IF i \in Running(e) THEN 1 ELSE 0
    BY DEF Running
  <2>3. R(e) \in Nat
    BY <1>4, <1>6 DEF NumbersOK
  <2>4. QED
    BY <2>1, <2>2, <2>3
<1>8. ASSUME NEW f \in Elements
      PROVE  R(f)' + (IF f = e THEN p ELSE 0) = R(f)
  BY <1>4, <1>6, <1>7 DEF NumbersOK
<1>9. Settled(i)'
  BY <1>2 DEF Turns, Settled, EndStates
<1>10. QED
  BY <1>4, <1>6, <1>8, <1>9, CalmStep

\* A timer that is over settles its animation, and keeps IInv.
LEMMA TickOverStep ==
    ASSUME IInv, TickOver
    PROVE  IInv'
<1>1. PICK X, L, k : TickAt(X, L, k) /\ todo = <<<<"tick", k>>>> /\ Job = <<"tick", k>>
  BY TickLoop DEF TickOver
<1>2. /\ AtLoop(X, L) /\ Calm(L) /\ NoShorts /\ StateOK /\ ItemsOK /\ k \in Nat
      /\ Len(timers) \in Nat /\ timers \in Seq(Items)
  BY <1>1 DEF TickAt, StateOK, TimersOK
<1>3. PICK i : i = timers[k + 1]
  OBVIOUS
<1>4. PICK s : s = IF item[i].st = "running" THEN "resolved" ELSE item[i].st
  OBVIOUS
<1>5. /\ k < Len(timers) /\ item' = [item EXCEPT ![i].st = s]
      /\ Then(SettleJobs(i, "resolved") \o <<<<"ticked", k, i>>>>)
      /\ queue' = queue /\ hooks' = hooks /\ finishing' = finishing /\ timers' = timers
      /\ interval' = interval
  BY <1>1, <1>3, <1>4 DEF TickOver, Current
<1>6. k + 1 \in 1..Len(timers)
  BY <1>2, <1>5
<1>7. i \in Items /\ item[i].kind # None /\ HandlerOK(i) /\ item[i].st \in EndStates
  BY <1>2, <1>3, <1>6, TimerStarted
<1>8. s \in EndStates /\ s # "running" /\ Started(i)
  BY <1>4, <1>7 DEF EndStates, HandlerOK
<1>9. Turns(i, s)
  BY <1>2, <1>5, <1>7, <1>8, StTurns
<1>10. HandlerOK(i)' /\ (Settled(i)' => Over(k + 1)')
  <2>1. k + 1 \in DOMAIN timers' /\ timers'[k + 1] = i
    BY <1>2, <1>3, <1>5, <1>6, LenProperties
  <2>2. Settled(i)' => Over(k + 1)'
    BY <2>1 DEF Over, Settled
  <2>3. HandlerOK(i)'
    BY <1>7, <1>8, <1>9 DEF HandlerOK, Started, Turns, EndStates
  <2>4. QED
    BY <2>2, <2>3
<1>11. PICK e, short, loop : /\ e = item[i].elem /\ short = SettleJobs(i, "resolved")
                             /\ loop = <<<<"ticked", k, i>>>>
  OBVIOUS
<1>12. PICK p \in Nat, q \in Nat :
        /\ p = IF item[i].st = "running" /\ item[i].queued THEN 1 ELSE 0
        /\ q = IF item[i].st = "running" /\ ~item[i].queued THEN 1 ELSE 0
  OBVIOUS
<1>13. Jobs(short, e, p, q)
  <2>1. item[i].st = "running" <=> ~Settled(i)
    BY <1>7 DEF Settled, EndStates
  <2>2. /\ p = IF ~Settled(i) /\ item[i].queued /\ "resolved" = "resolved" THEN 1 ELSE 0
        /\ q = IF ~Settled(i) /\ ~item[i].queued THEN 1 ELSE 0
    BY <1>12, <2>1
  <2>3. QED
    BY <1>2, <1>7, <1>10, <1>11, <2>2, SettleJobsJobs
<1>14. LoopJobs(loop) /\ (Settled(i)' => CalmLoop(loop)')
  <2>1. <<"ticked", k, i>> \in JobSet
    BY <1>2, <1>7, JobTypes
  <2>2. LoopJobs(loop)
    BY <1>11, <2>1, LoopJobsOne DEF ShortKinds
  <2>3. Settled(i)' => CalmLoop(loop)'
    BY <1>2, <1>3, <1>5, <1>7, <1>10, <1>11 DEF CalmLoop
  <2>4. QED
    BY <2>2, <2>3
<1>15. todo' = short \o loop
  <2>1. short \o loop \in Seq(JobSet)
    BY <1>13, <1>14, ConcatProperties DEF Jobs, LoopJobs
  <2>2. QED
    BY <1>1, <1>5, <1>11, <2>1, ThenOnly
<1>16. QED
  BY <1>2, <1>5, <1>7, <1>8, <1>11, <1>12, <1>13, <1>14, <1>15, CalmSettles

\* A delay whose time is over goes on with the queue, and keeps IInv.
LEMMA DelayEndsStep ==
    ASSUME IInv, NEW i \in Items, DelayEnds(i)
    PROVE  IInv'
<1>1. PICK X, L : Turn(X, L)
  BY DEF IInv
<1>2. /\ Idle /\ item[i].kind = "delay" /\ item[i].st = "running"
      /\ todo' = <<<<"dequeue", item[i].elem>>>>
      /\ item' = [item EXCEPT ![i].st = "resolved"]
      /\ queue' = queue /\ hooks' = hooks /\ finishing' = finishing /\ timers' = timers
      /\ interval' = interval
  BY DEF DelayEnds
<1>3. AtLoop(X, L) /\ Calm(L) /\ ItemsOK
  BY <1>1, <1>2, IdleIsCalm DEF IInv, StateOK
<1>4. PICK s \in EndStates : s = "resolved"
  BY DEF EndStates
<1>5. PICK e, short, loop, p, q : /\ e = item[i].elem /\ short = <<<<"dequeue", e>>>>
                                  /\ loop = <<>> /\ p = 1 /\ q = 0
  OBVIOUS
<1>6. item[i].kind # None /\ e \in Elements /\ item[i].queued /\ Started(i)
  BY <1>2, <1>3, <1>5, FxAssumption DEF ItemsOK, ItemOK, Started
<1>7. Jobs(short, e, p, q) /\ short \in Seq(JobSet)
  BY <1>5, <1>6, OneJob DEF Jobs
<1>8. todo' = short \o loop
  BY <1>2, <1>5, <1>7, ConcatEmptySeq
<1>9. LoopJobs(loop) /\ CalmLoop(loop)'
  BY <1>5, LoopJobsNone DEF CalmLoop
<1>10. /\ p \in Nat /\ p = IF item[i].st = "running" /\ item[i].queued THEN 1 ELSE 0
       /\ q \in Nat /\ q = IF item[i].st = "running" /\ ~item[i].queued THEN 1 ELSE 0
       /\ s # "running"
  BY <1>2, <1>4, <1>5, <1>6
<1>11. QED
  BY <1>2, <1>3, <1>4, <1>5, <1>6, <1>7, <1>8, <1>9, <1>10, CalmSettles

\* The others go on as before.
LEMMA LoopOthers ==
    ASSUME NEW X, NEW L, AtLoop(X, L), NEW e \in Elements, OthersOrdinary(e),
           \A f \in Elements \ {e} :
                queue'[f] = queue[f] /\ R(f)' = R(f) /\ D(f)' = 0 /\ T(f)' = 0
    PROVE  OthersOrdinary(e)'
<1>1. ASSUME NEW f \in Elements \ {e}
      PROVE  Ordinary(f)'
  <2>1. PICK p \in Nat : p = 0
    OBVIOUS
  <2>2. R(f) \in Nat
    BY CardinalityTypes DEF R
  <2>3. Ordinary(f) /\ queue'[f] = queue[f] /\ D(f) = 0 /\ T(f) = 0
    BY DEF OthersOrdinary, AtLoop, NoShorts
  <2>4. Idle \/ Job[1] \notin ShortKinds
    BY DEF AtLoop
  <2>5. R(f)' \in Nat /\ T(f)' = 0 /\ D(f)' = p /\ R(f)' + p = R(f)
    BY <2>1, <2>2
  <2>6. QED
    BY <2>2, <2>3, <2>4, <2>5, LoopOrdinary
<1>2. QED
  BY <1>1 DEF OthersOrdinary

\* Hooks that know of the same delay, and count as many animations.
HooksAlike ==
    /\ hooks' \in [Elements -> HookSet]
    /\ \A f \in Elements :
        hooks'[f].stop = hooks[f].stop /\ hooks'[f].unqueued = hooks[f].unqueued

\* A step of a loop that leaves items and hooks alike keeps the hooks right.
LEMMA LoopHooks ==
    ASSUME HooksOK, NoShorts, item' = item, HooksAlike, \A f \in Elements : U(f)' = 0
    PROVE  HooksOK'
<1>1. ASSUME NEW f \in Elements
      PROVE  StopOK(f)' /\ CountOK(f)'
  <2>1. /\ U(f)' = U(f) /\ hooks'[f].unqueued = hooks[f].unqueued
        /\ hooks'[f].stop = hooks[f].stop /\ StopOK(f) /\ CountOK(f)
    BY DEF NoShorts, HooksAlike, HooksOK
  <2>2. QED
    BY <2>1, StopSame, CountSame
<1>2. QED
  BY <1>1 DEF HooksOK, HooksAlike

\* Between two turns, the timers have all that runs, if no delay does.
LEMMA AllBelow ==
    ASSUME StateOK, NEW e \in Elements, NoDelayRuns(e)
    PROVE  Below(e, Len(timers)) /\ Len(timers) \in Nat
<1>1. ItemsOK /\ TimersOK /\ Len(timers) \in Nat /\ DOMAIN timers = 1..Len(timers)
  BY LenProperties DEF StateOK, TimersOK
<1>2. ASSUME NEW i \in Running(e)
      PROVE  \E m \in 1..Len(timers) : timers[m] = i
  <2>1. i \in Items /\ item[i].st = "running" /\ item[i].elem = e
    BY DEF Running
  <2>2. item[i].kind = "anim"
    BY <1>1, <2>1 DEF ItemsOK, ItemOK, ItemSet, NoDelayRuns
  <2>3. QED
    BY <1>1, <2>1, <2>2 DEF TimersOK
<1>3. QED
  BY <1>1, <1>2 DEF Below

\* Where no delay runs, what runs for an ordinary element has its timer, which
\* the loop of stop is still to pass.
LEMMA CalmHalting ==
    ASSUME StateOK, NEW e \in Elements, Ordinary(e), NoDelayRuns(e), T(e) = 0, D(e) = 0
    PROVE  /\ Halting(e, Len(timers)) /\ R(e) \in Nat
           /\ R(e) = IF queue[e] = <<>> THEN 0 ELSE 1
<1>1. R(e) \in Nat
  BY CardinalityTypes DEF R
<1>2. R(e) = IF queue[e] = <<>> THEN 0 ELSE 1
  BY <1>1 DEF Ordinary
<1>3. QED
  BY <1>1, <1>2, AllBelow DEF Halting

\* What a page that stops has agreed to.
LEMMA StoppingContext ==
    ASSUME CarefulUses, IInv, NEW use \in Stopping, May(use)
    PROVE  /\ Idle /\ HandlersQueueNothing
           /\ use # "finish" => NoDelays
<1>1. Idle /\ use \in PageUses
  BY DEF May, CarefulUses
<1>2. HandlersQueueNothing
  BY <1>1 DEF CarefulUses
<1>3. ASSUME use # "finish"
      PROVE  NoDelays
  <2>1. ~UsesDelays
    BY <1>1, <1>3 DEF CarefulUses, Stopping
  <2>2. QED
    BY <2>1 DEF IInv, StateOK, ItemsOK, ItemOK, NoDelays
<1>4. QED
  BY <1>1, <1>2, <1>3

\* stop is called between two turns, and its loop begins.
LEMMA StopStep ==
    ASSUME CarefulUses, IInv, NEW e \in Elements, NEW clear \in BOOLEAN, NEW g \in BOOLEAN,
           Stop(e, clear, g)
    PROVE  IInv'
<1>1. PICK X, L : Turn(X, L)
  BY DEF IInv
<1>2. PICK use : use = IF clear THEN "stop and clear" ELSE "stop"
  OBVIOUS
<1>3. /\ May(use) /\ item' = item /\ finishing' = finishing /\ timers' = timers
      /\ interval' = interval /\ queue' = [queue EXCEPT ![e] = IF clear THEN <<>> ELSE @]
      /\ hooks' = [hooks EXCEPT ![e].present = @ \/ clear]
      /\ Call((IF clear THEN <<<<"dequeue", e>>>> ELSE <<>>) \o <<<<"stopHooks", e, g>>>>)
  BY <1>2 DEF Stop
<1>4. Idle /\ HandlersQueueNothing /\ NoDelays
  BY <1>2, <1>3, StoppingContext DEF Stopping
<1>5. AtLoop(X, L) /\ Calm(L) /\ StateOK /\ NoShorts /\ finishing = {} /\ AllOrdinary
  BY <1>1, <1>4, IdleIsCalm DEF IInv, AtLoop, Calm
<1>6. /\ ItemsOK /\ TimersOK /\ HooksOK /\ QueuesOK /\ NothingQueued
      /\ hooks \in [Elements -> HookSet]
      /\ queue \in [Elements -> Seq(Items \cup {"inprogress"})]
      /\ \A f \in Elements : QueueOK(f)
  BY <1>5 DEF StateOK, HooksOK, QueuesOK
<1>7. PICK short, loop : /\ short = IF clear THEN <<<<"dequeue", e>>>> ELSE <<>>
                         /\ loop = <<<<"stopHooks", e, g>>>>
  OBVIOUS
<1>8. PICK p, z : p = (IF clear THEN 1 ELSE 0) /\ z = 0
  OBVIOUS
<1>9. p \in Nat /\ z \in Nat /\ Jobs(short, e, p, z)
  <2>1. CASE clear
    BY <1>7, <1>8, <2>1, OneJob
  <2>2. CASE ~clear
    BY <1>7, <1>8, <2>2, NoJobs
  <2>3. QED
    BY <2>1, <2>2
<1>10. LoopJobs(loop)
  <2>1. <<"stopHooks", e, g>> \in JobSet
    BY JobTypes
  <2>2. QED
    BY <1>7, <2>1, LoopJobsOne DEF ShortKinds
<1>11. todo' = short \o loop
  <2>1. short \o loop \in Seq(JobSet)
    BY <1>9, <1>10, ConcatProperties DEF Jobs, LoopJobs
  <2>2. QED
    BY <1>3, <1>4, <1>7, <2>1, ConcatEmptySeq DEF Idle, Call
<1>12. Short(short)' /\ \A f \in Elements : LoopNumbers(f, e, p, z)
  BY <1>9, <1>10, <1>11, LoopGoesOn
<1>13. \A f \in Elements : U(f)' = 0 /\ T(f)' = 0 /\ D(f)' = IF f = e THEN p ELSE 0
  BY <1>8, <1>12 DEF LoopNumbers
<1>14. HooksOK'
  <2>1. PICK h : h = [hooks[e] EXCEPT !.present = @ \/ clear]
    OBVIOUS
  <2>2. h \in HookSet /\ h.stop = hooks[e].stop /\ h.unqueued = hooks[e].unqueued
    BY <1>6, <2>1 DEF HookSet
  <2>3. hooks' = [hooks EXCEPT ![e] = h]
    BY <1>3, <2>1
  <2>4. HooksAlike
    BY <1>6, <2>2, <2>3 DEF HooksAlike
  <2>5. QED
    BY <1>3, <1>5, <1>6, <1>13, <2>4, LoopHooks
<1>15. /\ AllPending /\ ItemsOK'
       /\ \A f \in Elements : Running(f)' = Running(f) /\ R(f)' = R(f)
  BY <1>3, <1>6, SameKept
<1>16. /\ \A f \in Elements \ {e} : queue'[f] = queue[f]
       /\ queue'[e] = IF clear THEN <<>> ELSE queue[e]
  BY <1>3, <1>6
<1>17. QueuesOK'
  <2>1. queue' \in [Elements -> Seq(Items \cup {"inprogress"})]
    <3>1. <<>> \in Seq(Items \cup {"inprogress"})
      BY EmptySeq
    <3>2. QED
      BY <1>3, <1>6, <3>1
  <2>2. ASSUME NEW f \in Elements
        PROVE  QueueOK(f)'
    <3>1. CASE queue'[f] = queue[f]
      BY <1>6, <1>15, <3>1, QueueKept
    <3>2. CASE queue'[f] = <<>>
      BY <3>2, EmptyQueue
    <3>3. QED
      BY <1>16, <3>1, <3>2
  <2>3. QED
    BY <2>1, <2>2 DEF QueuesOK
<1>18. NothingQueued'
  BY <1>6, <1>16 DEF NothingQueued
<1>19. TimersOK' /\ TimersGrow
  BY <1>3, <1>6, TimersSame
<1>20. StateOK'
  BY <1>14, <1>15, <1>17, <1>18, <1>19 DEF StateOK
<1>21. PICK n : n = Len(timers)
  OBVIOUS
<1>22. /\ Halting(e, n) /\ R(e) \in Nat /\ R(e) = IF queue[e] = <<>> THEN 0 ELSE 1
       /\ Ordinary(e)
  <2>1. Ordinary(e) /\ T(e) = 0 /\ D(e) = 0 /\ NoDelayRuns(e)
    BY <1>4, <1>5 DEF AllOrdinary, NoShorts, NoDelays, NoDelayRuns
  <2>2. QED
    BY <1>5, <1>21, <2>1, CalmHalting
<1>23. Halting(e, n)'
  BY <1>3, <1>13, <1>15, <1>22 DEF Halting, Below
<1>24. Stops(e, n, g)'
  <2>1. queue'[e] # <<>> => ~clear /\ queue'[e] = queue[e] /\ SentinelFirst(queue[e])
    BY <1>4, <1>16, <1>22 DEF Ordinary
  <2>2. queue'[e] # <<>> => D(e)' = 0 /\ R(e)' + T(e)' + D(e)' = 1
    BY <1>8, <1>13, <1>15, <1>22, <2>1
  <2>3. NoDelays'
    BY <1>3, <1>4 DEF NoDelays
  <2>4. QED
    BY <1>4, <1>23, <2>1, <2>2, <2>3 DEF Stops
<1>25. OthersOrdinary(e)'
  BY <1>5, <1>13, <1>15, <1>16, LoopOthers DEF AllOrdinary, OthersOrdinary
<1>26. StopBegins(short, loop, e, g)'
  <2>1. n = Len(timers')
    BY <1>3, <1>21
  <2>2. Stops(e, Len(timers), g)' /\ Halting(e, Len(timers))'
    BY <1>23, <1>24, <2>1
  <2>3. short = <<>> \/ (short = <<<<"dequeue", e>>>> /\ queue'[e] = <<>>)
    BY <1>7, <1>16
  <2>4. finishing' = {}
    BY <1>3, <1>5
  <2>5. QED
    BY <1>7, <1>25, <2>2, <2>3, <2>4 DEF StopBegins
<1>27. LoopOK(short, loop)'
  BY <1>26 DEF LoopOK
<1>28. finishing' \subseteq Elements
  BY <1>3, <1>5
<1>29. QED
  BY <1>10, <1>11, <1>12, <1>20, <1>27, <1>28, LoopStep DEF LoopJobs

\* The jobs of the loop of stop.
LoopAt(X, L) ==
    /\ AtLoop(X, L) /\ X = <<>> /\ todo = L /\ NoShorts /\ StateOK /\ ~Idle
    /\ todo \in Seq(JobSet) /\ Len(timers) \in Nat /\ finishing \subseteq Elements

\* A job of a loop is on top of the loop it belongs to.
LEMMA LoopIs ==
    ASSUME IInv, ~Idle, Job[1] \notin ShortKinds
    PROVE  \E X, L : LoopAt(X, L) /\ LoopOK(X, L) /\ L # <<>> /\ Job = Head(L)
<1>1. PICK X, L : Turn(X, L)
  BY DEF IInv
<1>2. AtLoop(X, L)
  BY <1>1, LoopContext
<1>3. Len(timers) \in Nat /\ StateOK /\ finishing \subseteq Elements
  BY LenProperties DEF IInv, StateOK, TimersOK
<1>4. LoopAt(X, L)
  BY <1>2, <1>3 DEF LoopAt, AtLoop
<1>5. QED
  BY <1>4 DEF LoopAt, AtLoop, Idle, Job

StopHooksAt(X, L, e, g) ==
    /\ LoopAt(X, L) /\ StopBegins(X, L, e, g)
    /\ todo = <<<<"stopHooks", e, g>>>> /\ Job = <<"stopHooks", e, g>>

StopTimersAt(X, L, e, k, g, d) ==
    /\ LoopAt(X, L) /\ StopGoesOn(X, L, e, k, g, d)
    /\ todo = <<<<"stopTimers", e, k, g, d>>>> /\ Job = <<"stopTimers", e, k, g, d>>

SpliceAt(X, L, e, k, g, d) ==
    /\ LoopAt(X, L) /\ StopGoesOn(X, L, e, k, g, d) /\ ~d /\ Over(k + 1)
    /\ todo = <<<<"splice", k + 1>>, <<"stopTimers", e, k, g, d>>>>
    /\ Job = <<"splice", k + 1>>

FinishTimersAt(X, L, e, k, old) ==
    /\ LoopAt(X, L) /\ FinishGoesOn(L, e, k, old)
    /\ todo = <<<<"finishTimers", e, k>>, <<"finishOld", e, old>>>>
    /\ Job = <<"finishTimers", e, k>>

FinishSpliceAt(X, L, e, k, old) ==
    /\ LoopAt(X, L) /\ FinishGoesOn(L, e, k, old) /\ Over(k + 1)
    /\ todo = <<<<"splice", k + 1>>, <<"finishTimers", e, k>>, <<"finishOld", e, old>>>>
    /\ Job = <<"splice", k + 1>>

FinishOldAt(X, L, e, old) ==
    /\ LoopAt(X, L) /\ FinishEnds(L, e, old)
    /\ todo = <<<<"finishOld", e, old>>>> /\ Job = <<"finishOld", e, old>>

\* That loop is one of the tick, of stop or of finish, in one of their stages.
LEMMA LoopKinds ==
    ASSUME IInv, ~Idle, Job[1] \notin ShortKinds
    PROVE  \E X, L :
            \/ Job[1] \in {"tick", "ticked"}
            \/ \E e \in Elements, g \in BOOLEAN : StopHooksAt(X, L, e, g)
            \/ \E e \in Elements, k \in Nat, g, d \in BOOLEAN : StopTimersAt(X, L, e, k, g, d)
            \/ \E e \in Elements, k \in Nat, g, d \in BOOLEAN : SpliceAt(X, L, e, k, g, d)
            \/ \E e \in Elements, k \in Nat, old \in Seq(Items \cup {"inprogress"}) :
                FinishTimersAt(X, L, e, k, old)
            \/ \E e \in Elements, k \in Nat, old \in Seq(Items \cup {"inprogress"}) :
                FinishSpliceAt(X, L, e, k, old)
            \/ \E e \in Elements, old \in Seq(Items \cup {"inprogress"}) :
                FinishOldAt(X, L, e, old)
<1>1. PICK X, L : LoopAt(X, L) /\ LoopOK(X, L) /\ L # <<>> /\ Job = Head(L) /\ todo = L
  BY LoopIs DEF LoopAt
<1>2. CASE Calm(L)
  BY <1>1, <1>2 DEF Calm, CalmLoop
<1>3. CASE \E e \in Elements, g \in BOOLEAN : StopBegins(X, L, e, g)
  <2>1. PICK e \in Elements, g \in BOOLEAN : StopBegins(X, L, e, g)
    BY <1>3
  <2>2. StopHooksAt(X, L, e, g)
    <3>1. L = <<<<"stopHooks", e, g>>>>
      BY <2>1 DEF StopBegins
    <3>2. QED
      BY <1>1, <2>1, <3>1 DEF StopHooksAt
  <2>3. QED
    BY <2>2
<1>4. CASE \E e \in Elements, k \in Nat, g, d \in BOOLEAN : StopGoesOn(X, L, e, k, g, d)
  <2>1. PICK e \in Elements, k \in Nat, g \in BOOLEAN, d \in BOOLEAN :
            StopGoesOn(X, L, e, k, g, d)
    BY <1>4
  <2>2. CASE L = <<<<"stopTimers", e, k, g, d>>>>
    <3>1. StopTimersAt(X, L, e, k, g, d)
      BY <1>1, <2>1, <2>2 DEF StopTimersAt
    <3>2. QED
      BY <3>1
  <2>3. CASE L = <<<<"splice", k + 1>>, <<"stopTimers", e, k, g, d>>>> /\ ~d /\ Over(k + 1)
    <3>1. SpliceAt(X, L, e, k, g, d)
      BY <1>1, <2>1, <2>3 DEF SpliceAt
    <3>2. QED
      BY <3>1
  <2>4. QED
    BY <2>1, <2>2, <2>3 DEF StopGoesOn, StopAt
<1>5. CASE \E e \in Elements, k \in Nat, old \in Seq(Items \cup {"inprogress"}) :
            FinishGoesOn(L, e, k, old)
  <2>1. PICK e \in Elements, k \in Nat, old \in Seq(Items \cup {"inprogress"}) :
            FinishGoesOn(L, e, k, old)
    BY <1>5
  <2>2. CASE L = <<<<"finishTimers", e, k>>, <<"finishOld", e, old>>>>
    <3>1. FinishTimersAt(X, L, e, k, old)
      BY <1>1, <2>1, <2>2 DEF FinishTimersAt
    <3>2. QED
      BY <3>1
  <2>3. CASE /\ L = <<<<"splice", k + 1>>, <<"finishTimers", e, k>>, <<"finishOld", e, old>>>>
             /\ Over(k + 1)
    <3>1. FinishSpliceAt(X, L, e, k, old)
      BY <1>1, <2>1, <2>3 DEF FinishSpliceAt
    <3>2. QED
      BY <3>1
  <2>4. QED
    BY <2>1, <2>2, <2>3 DEF FinishGoesOn, FinishAt
<1>6. CASE \E e \in Elements, old \in Seq(Items \cup {"inprogress"}) : FinishEnds(L, e, old)
  <2>1. PICK e \in Elements, old \in Seq(Items \cup {"inprogress"}) : FinishEnds(L, e, old)
    BY <1>6
  <2>2. FinishOldAt(X, L, e, old)
    <3>1. L = <<<<"finishOld", e, old>>>>
      BY <2>1 DEF FinishEnds
    <3>2. QED
      BY <1>1, <2>1, <3>1 DEF FinishOldAt
  <2>3. QED
    BY <2>2
<1>7. QED
  BY <1>1, <1>2, <1>3, <1>4, <1>5, <1>6 DEF LoopOK

\* Only the jobs change: the loop of stop is where it was.
LEMMA StopsSame ==
    ASSUME NEW X, NEW L, LoopAt(X, L), NEW e \in Elements, NEW k \in Nat, NEW g \in BOOLEAN,
           Stops(e, k, g), k <= Len(timers), finishing = {}, item' = item, queue' = queue,
           timers' = timers, \A f \in Elements : D(f)' = 0 /\ T(f)' = 0, todo' \in Seq(JobSet)
    PROVE  Stops(e, k, g)' /\ (Halting(e, k) => Halting(e, k)')
<1>1. \A f \in Elements : Running(f)' = Running(f) /\ R(f)' = R(f)
  BY SameKept
<1>2. QED
  BY <1>1 DEF Stops, Halting, Below, NoDelays, LoopAt, NoShorts

\* The part of stop over the hooks keeps IInv.
LEMMA StopHooksStep ==
    ASSUME IInv, StopHooks
    PROVE  IInv'
<1>1. ~Idle /\ Job[1] = "stopHooks"
  BY DEF StopHooks, Doing
<1>2. PICK X, L : \E e \in Elements, g \in BOOLEAN : StopHooksAt(X, L, e, g)
  BY <1>1, LoopKinds DEF ShortKinds, StopTimersAt, SpliceAt, FinishTimersAt, FinishSpliceAt,
                         FinishOldAt
<1>3. PICK e \in Elements, g \in BOOLEAN : StopHooksAt(X, L, e, g)
  BY <1>2
<1>4. /\ LoopAt(X, L) /\ Job = <<"stopHooks", e, g>> /\ todo = <<<<"stopHooks", e, g>>>>
      /\ AtLoop(X, L) /\ NoShorts /\ StateOK /\ Len(timers) \in Nat
      /\ finishing = {} /\ OthersOrdinary(e)
      /\ Stops(e, Len(timers), g) /\ Halting(e, Len(timers))
  BY <1>3 DEF StopHooksAt, StopBegins, LoopAt
<1>5. HooksOK /\ hooks \in [Elements -> HookSet] /\ StopOK(e) /\ NoDelays
  BY <1>4 DEF StateOK, HooksOK, Stops
<1>6. hooks[e].stop = None
  <2>1. hooks[e].stop \in Items \cup {None}
    BY <1>5 DEF HookSet
  <2>2. QED
    BY <1>5, <2>1 DEF StopOK, NoDelays
<1>7. PICK k \in Nat : k = Len(timers)
  BY <1>4
<1>8. /\ item' = item /\ hooks' = [hooks EXCEPT ![e].stop = None]
      /\ Then(<<<<"stopTimers", e, k, g, TRUE>>>>)
      /\ queue' = queue /\ finishing' = finishing /\ timers' = timers /\ interval' = interval
  BY <1>4, <1>6, <1>7 DEF StopHooks
<1>9. PICK d \in BOOLEAN : d = TRUE
  OBVIOUS
<1>10. PICK loop : loop = <<<<"stopTimers", e, k, g, d>>>>
  OBVIOUS
<1>11. LoopJobs(loop)
  <2>1. <<"stopTimers", e, k, g, d>> \in JobSet
    BY JobTypes
  <2>2. QED
    BY <1>10, <2>1, LoopJobsOne DEF ShortKinds
<1>12. todo' = loop /\ loop \in Seq(JobSet)
  BY <1>4, <1>8, <1>9, <1>10, <1>11, ThenOnly DEF LoopJobs
<1>13. /\ todo' = <<>> \o loop /\ Short(<<>>)'
       /\ \A f \in Elements : D(f)' = 0 /\ U(f)' = 0 /\ T(f)' = 0
  BY <1>11, <1>12, LoopOnly
<1>14. HooksOK'
  <2>1. PICK h : h = [hooks[e] EXCEPT !.stop = None]
    OBVIOUS
  <2>2. h \in HookSet /\ h.stop = hooks[e].stop /\ h.unqueued = hooks[e].unqueued
    BY <1>5, <1>6, <2>1 DEF HookSet
  <2>3. hooks' = [hooks EXCEPT ![e] = h]
    BY <1>8, <2>1
  <2>4. HooksAlike
    BY <1>5, <2>2, <2>3 DEF HooksAlike
  <2>5. QED
    BY <1>4, <1>5, <1>8, <1>13, <2>4, LoopHooks
<1>15. /\ AllPending /\ ItemsOK'
       /\ \A f \in Elements : Running(f)' = Running(f) /\ R(f)' = R(f)
  BY <1>4, <1>8, SameKept DEF StateOK
<1>16. StateOK'
  <2>1. TimersOK'
    BY <1>4, <1>8, TimersSame DEF StateOK
  <2>2. QueuesOK' /\ NothingQueued'
    BY <1>4, <1>8, <1>15, QueuesSame DEF StateOK, NothingQueued
  <2>3. QED
    BY <1>14, <1>15, <2>1, <2>2 DEF StateOK
<1>17. Stops(e, k, g)' /\ Halting(e, k)'
  BY <1>4, <1>7, <1>8, <1>12, <1>13, StopsSame
<1>18. OthersOrdinary(e)'
  BY <1>4, <1>8, <1>13, <1>15, LoopOthers
<1>19. StopGoesOn(<<>>, loop, e, k, g, d)'
  <2>1. k <= Len(timers') /\ finishing' = {} /\ StopAt(loop, e, k, g, d)'
    BY <1>4, <1>7, <1>8, <1>10 DEF StopAt
  <2>2. QED
    BY <1>17, <1>18, <2>1 DEF StopGoesOn
<1>20. LoopOK(<<>>, loop)'
  BY <1>19 DEF LoopOK
<1>21. finishing' \subseteq Elements
  BY <1>4, <1>8
<1>22. QED
  BY <1>12, <1>13, <1>16, <1>20, <1>21, LoopStep

\* Nothing runs that no timer has.
LEMMA NoneBelow ==
    ASSUME NEW e \in Elements, Below(e, 0)
    PROVE  Running(e) = {} /\ R(e) = 0
<1>1. 1..0 = {}
  OBVIOUS
<1>2. Running(e) = {}
  BY <1>1 DEF Below
<1>3. QED
  BY <1>2, FS_EmptySet DEF R

\* stop ends: the next item starts, if no animation has seen to that.
LEMMA StopTimersOver ==
    ASSUME IInv, NEW X, NEW L, NEW e \in Elements, NEW k, NEW g \in BOOLEAN, NEW d \in BOOLEAN,
           StopTimersAt(X, L, e, k, g, d), StopTimers, k = 0
    PROVE  IInv'
<1>1. /\ LoopAt(X, L) /\ Job = <<"stopTimers", e, k, g, d>>
      /\ todo = <<<<"stopTimers", e, k, g, d>>>>
      /\ AtLoop(X, L) /\ NoShorts /\ StateOK /\ finishing \subseteq Elements
      /\ finishing = {} /\ OthersOrdinary(e)
      /\ Stops(e, k, g) /\ (d => Halting(e, k))
  BY DEF StopTimersAt, StopGoesOn, LoopAt
<1>2. /\ Then(AfterStop(e, d, g)) /\ item' = item /\ hooks' = hooks /\ queue' = queue
      /\ finishing' = finishing /\ timers' = timers /\ interval' = interval
  BY <1>1 DEF StopTimers
<1>3. PICK short, loop, p, z :
        /\ short = AfterStop(e, d, g) /\ loop = <<>>
        /\ p = (IF d \/ ~g THEN 1 ELSE 0) /\ z = 0
  OBVIOUS
<1>4. p \in Nat /\ z \in Nat /\ Jobs(short, e, p, z) /\ short \in Seq(JobSet)
  <2>1. CASE d \/ ~g
    BY <1>3, <2>1, OneJob, ZenonT(30) DEF AfterStop, Jobs
  <2>2. CASE ~(d \/ ~g)
    BY <1>3, <2>2, NoJobs DEF AfterStop, Jobs
  <2>3. QED
    BY <2>1, <2>2
<1>5. todo' = short \o loop /\ LoopJobs(loop)
  <2>1. todo' = short
    BY <1>1, <1>2, <1>3, <1>4, ThenOnly
  <2>2. QED
    BY <1>3, <1>4, <2>1, ConcatEmptySeq, LoopJobsNone
<1>6. Short(short)' /\ \A f \in Elements : LoopNumbers(f, e, p, z)
  BY <1>4, <1>5, LoopGoesOn
<1>7. \A f \in Elements : U(f)' = 0 /\ T(f)' = 0 /\ D(f)' = IF f = e THEN p ELSE 0
  BY <1>3, <1>6 DEF LoopNumbers
<1>8. StateOK' /\ \A f \in Elements : R(f)' = R(f) /\ R(f) \in Nat
  BY <1>1, <1>2, <1>7, LoopSame
<1>9. OthersOrdinary(e)'
  BY <1>1, <1>2, <1>7, <1>8, LoopOthers
<1>10. Ordinary(e)'
  <2>1. Halting(e, k) => R(e) = 0
    BY NoneBelow DEF Halting
  <2>2. D(e) = 0 /\ T(e) = 0 /\ R(e) \in Nat
    BY <1>1, <1>8 DEF NoShorts
  <2>3. CASE queue[e] = <<>>
    <3>1. R(e)' = 0 /\ T(e)' = 0 /\ HandlersQueueNothing /\ queue'[e] = <<>>
      BY <1>1, <1>2, <1>7, <1>8, <2>1, <2>3 DEF Stops
    <3>2. QED
      BY <3>1 DEF Ordinary
  <2>4. CASE queue[e] # <<>>
    <3>1. R(e)' + T(e)' + D(e)' = 1
      <4>1. CASE ~g
        BY <1>1, <1>3, <1>7, <1>8, <2>1, <2>4, <4>1 DEF Stops
      <4>2. CASE g
        <5>1. R(e) = 1
          BY <1>1, <2>2, <2>4, <4>2 DEF Stops
        <5>2. p = 0
          BY <1>1, <1>3, <2>1, <4>2, <5>1
        <5>3. QED
          BY <1>7, <1>8, <5>1, <5>2
      <4>3. QED
        BY <4>1, <4>2
    <3>2. queue'[e] # <<>> /\ SentinelFirst(queue'[e])
      BY <1>1, <1>2, <2>4 DEF Stops
    <3>3. QED
      BY <3>1, <3>2 DEF Ordinary
  <2>5. QED
    BY <2>3, <2>4
<1>11. Calm(loop)'
  <2>1. AllOrdinary'
    BY <1>9, <1>10 DEF AllOrdinary, OthersOrdinary
  <2>2. finishing' = {} /\ CalmLoop(loop)'
    BY <1>1, <1>2, <1>3 DEF CalmLoop
  <2>3. QED
    BY <2>1, <2>2 DEF Calm
<1>12. LoopOK(short, loop)'
  BY <1>11 DEF LoopOK
<1>13. finishing' \subseteq Elements
  BY <1>1, <1>2
<1>14. QED
  BY <1>5, <1>6, <1>8, <1>12, <1>13, LoopStep DEF LoopJobs

\* It passes a timer that names another element, or what has settled.
LEMMA StopTimersPasses ==
    ASSUME IInv, NEW X, NEW L, NEW e \in Elements, NEW k \in Nat, NEW g \in BOOLEAN,
           NEW d \in BOOLEAN, StopTimersAt(X, L, e, k, g, d), StopTimers, k # 0,
           ~Names(timers[k], e)
    PROVE  IInv'
<1>1. /\ LoopAt(X, L) /\ Job = <<"stopTimers", e, k, g, d>>
      /\ todo = <<<<"stopTimers", e, k, g, d>>>>
      /\ AtLoop(X, L) /\ NoShorts /\ StateOK /\ finishing \subseteq Elements
      /\ finishing = {} /\ OthersOrdinary(e) /\ k <= Len(timers) /\ Len(timers) \in Nat
      /\ Stops(e, k, g) /\ (d => Halting(e, k))
  BY DEF StopTimersAt, StopGoesOn, LoopAt
<1>2. PICK n \in Nat : n = k - 1
  OBVIOUS
<1>3. /\ Then(<<<<"stopTimers", e, n, g, d>>>>) /\ item' = item /\ hooks' = hooks
      /\ queue' = queue /\ finishing' = finishing /\ timers' = timers /\ interval' = interval
  BY <1>1, <1>2 DEF StopTimers
<1>4. PICK loop : loop = <<<<"stopTimers", e, n, g, d>>>>
  OBVIOUS
<1>5. LoopJobs(loop)
  <2>1. <<"stopTimers", e, n, g, d>> \in JobSet
    BY JobTypes
  <2>2. QED
    BY <1>4, <2>1, LoopJobsOne DEF ShortKinds
<1>6. todo' = loop /\ loop \in Seq(JobSet)
  BY <1>1, <1>3, <1>4, <1>5, ThenOnly DEF LoopJobs
<1>7. /\ todo' = <<>> \o loop /\ Short(<<>>)'
      /\ \A f \in Elements : D(f)' = 0 /\ U(f)' = 0 /\ T(f)' = 0
  BY <1>5, <1>6, LoopOnly
<1>8. StateOK' /\ \A f \in Elements : R(f)' = R(f) /\ R(f) \in Nat
  BY <1>1, <1>3, <1>7, LoopSame
<1>9. Halting(e, k) => Halting(e, n)
  <2>1. ASSUME Below(e, k), NEW i \in Running(e)
        PROVE  \E m \in 1..n : timers[m] = i
    <3>1. PICK m \in 1..k : timers[m] = i
      BY <2>1 DEF Below
    <3>2. m # k
      BY <3>1 DEF Running, Names
    <3>3. m \in 1..n
      BY <1>2, <3>1, <3>2
    <3>4. QED
      BY <3>1, <3>3
  <2>2. Below(e, k) => Below(e, n)
    BY <2>1 DEF Below
  <2>3. QED
    BY <2>2 DEF Halting
<1>10. Stops(e, n, g)
  BY <1>1, <1>9 DEF Stops
<1>11. Stops(e, n, g)' /\ (Halting(e, n) => Halting(e, n)') /\ n <= Len(timers)
  <2>1. n <= Len(timers)
    BY <1>1, <1>2
  <2>2. QED
    BY <1>1, <1>3, <1>6, <1>7, <1>10, <2>1, StopsSame
<1>12. OthersOrdinary(e)'
  BY <1>1, <1>3, <1>7, <1>8, LoopOthers
<1>13. StopGoesOn(<<>>, loop, e, n, g, d)'
  <2>1. n <= Len(timers') /\ finishing' = {} /\ StopAt(loop, e, n, g, d)'
    BY <1>1, <1>3, <1>4, <1>11 DEF StopAt
  <2>2. d => Halting(e, n)'
    BY <1>1, <1>9, <1>11
  <2>3. QED
    BY <1>11, <1>12, <2>1, <2>2 DEF StopGoesOn
<1>14. LoopOK(<<>>, loop)'
  BY <1>13 DEF LoopOK
<1>15. finishing' \subseteq Elements
  BY <1>1, <1>3
<1>16. QED
  BY <1>6, <1>7, <1>8, <1>14, <1>15, LoopStep

\* An animation at a timer is stopped: its handlers are to be called, and, if
\* it was queued and got to its end, dequeue.
StopsTimer(e, k, i, g) ==
    /\ k \in 1..Len(timers) /\ i = timers[k] /\ Names(i, e) /\ g \in BOOLEAN
    /\ item' = [item EXCEPT ![i] = Stopped(i, g)]

\* The jobs that stopping a timer leads to: a call of dequeue only if it was
\* queued and is to go to its end.
LEMMA StopsTimerJobs ==
    ASSUME StateOK, NEW e, NEW k, NEW i, NEW g \in BOOLEAN, StopsTimer(e, k, i, g),
           NEW p, p = IF item[i].queued /\ g THEN 1 ELSE 0,
           NEW q, q = IF item[i].queued THEN 0 ELSE 1,
           NEW s, s = IF g THEN "resolved" ELSE "rejected"
    PROVE  /\ i \in Items /\ e \in Elements /\ s \in EndStates \ {"running"}
           /\ p \in Nat /\ q \in Nat
           /\ Turns(i, s) /\ ItemsOK' /\ Jobs(StopJobs(i, g), e, p, q)
<1>1. /\ k \in 1..Len(timers) /\ i = timers[k]
      /\ item[i].elem = e /\ item[i].st = "running"
      /\ item' = [item EXCEPT ![i] = Stopped(i, g)]
  BY DEF StopsTimer, Names
<1>2. i \in Items /\ HandlerOK(i) /\ item[i].kind # None /\ item[i] \in ItemSet
  BY <1>1, TimerStarted
<1>3. ItemsOK /\ ItemOK(i)
  BY <1>2 DEF StateOK, ItemsOK
<1>4. e \in Elements /\ ~item[i].stopped /\ ~Settled(i)
  BY <1>1, <1>2, <1>3 DEF ItemOK, Settled, ItemSet
<1>5. Turns(i, s) /\ ItemsOK'
  BY <1>1, <1>2, <1>3, StoppedTurns
<1>6. s \in EndStates \ {"running"}
  BY DEF EndStates
<1>7. HandlerOK(i)'
  BY <1>2, <1>5, <1>6 DEF HandlerOK, Started, Turns, EndStates
<1>8. PICK outcome : outcome = IF g THEN "resolved" ELSE "rejected"
  OBVIOUS
<1>9. StopJobs(i, g) = SettleJobs(i, outcome)
  BY <1>4, <1>8 DEF StopJobs
<1>10. /\ p \in Nat /\ p = IF ~Settled(i) /\ item[i].queued /\ outcome = "resolved" THEN 1 ELSE 0
       /\ q \in Nat /\ q = IF ~Settled(i) /\ ~item[i].queued THEN 1 ELSE 0
  BY <1>4, <1>8
<1>11. Jobs(SettleJobs(i, outcome), e, p, q)
  BY <1>1, <1>2, <1>3, <1>7, <1>10, SettleJobsJobs
<1>12. QED
  BY <1>2, <1>4, <1>5, <1>6, <1>9, <1>10, <1>11

\* What has become of the right to go on.
TimerStopped(e, k, n, p, r) ==
    /\ StateOK' /\ AllPending /\ Over(k)'
    /\ \A f \in Elements : T(f)' = 0 /\ D(f)' = IF f = e THEN p ELSE 0
    /\ \A f \in Elements \ {e} : R(f)' = R(f)
    /\ R(e) \in Nat /\ R(e)' \in Nat /\ R(e)' + r = R(e)
    /\ Halting(e, k) => Halting(e, n)'
    /\ NoDelays => NoDelays'

\* Stopping one timer takes its right to go on away, or passes it on.
LEMMA StopsTimerStep ==
    ASSUME NEW X, NEW L, LoopAt(X, L), NEW e \in Elements, NEW k, NEW i, NEW g \in BOOLEAN,
           StopsTimer(e, k, i, g), NEW n \in Nat, n = k - 1,
           NEW p, p = IF item[i].queued /\ g THEN 1 ELSE 0,
           NEW r, r = IF item[i].queued THEN 1 ELSE 0,
           NEW short, short = StopJobs(i, g), NEW loop, LoopJobs(loop), todo' = short \o loop,
           queue' = queue, hooks' = hooks, timers' = timers, interval' = interval
    PROVE  Short(short)' /\ TimerStopped(e, k, n, p, r)
<1>1. /\ StateOK /\ NoShorts /\ ItemsOK /\ TimersOK /\ todo \in Seq(JobSet)
      /\ k \in 1..Len(timers) /\ i = timers[k] /\ Len(timers) \in Nat
      /\ item[i].elem = e /\ item[i].st = "running"
  BY DEF LoopAt, StateOK, StopsTimer, Names
<1>2. PICK q, s : /\ q = IF item[i].queued THEN 0 ELSE 1
                  /\ s = IF g THEN "resolved" ELSE "rejected"
  OBVIOUS
<1>3. /\ i \in Items /\ s \in EndStates /\ s # "running" /\ p \in Nat /\ q \in Nat
      /\ Turns(i, s) /\ ItemsOK' /\ Jobs(short, e, p, q)
  BY <1>1, <1>2, StopsTimerJobs
<1>4. item[i].kind # None /\ Started(i) /\ ~Settled(i) /\ item[i] \in ItemSet
  BY <1>1, TimerStarted DEF Started, Settled
<1>5. /\ Short(short)' /\ todo' \in Seq(JobSet)
      /\ \A f \in Elements : LoopNumbers(f, e, p, q)
  BY <1>3, LoopGoesOn
<1>6. q = EndsUnqueued(i, s) /\ UnqueuedAfter(e, q)
  <2>1. q = EndsUnqueued(i, s)
    BY <1>1, <1>2, <1>3 DEF EndsUnqueued
  <2>2. UnqueuedAfter(e, q)
    BY <1>5 DEF UnqueuedAfter, LoopNumbers
  <2>3. QED
    BY <2>1, <2>2
<1>7. /\ StateOK' /\ AllPending
      /\ \A f \in Elements : R(f) \in Nat /\ R(f)' \in Nat
      /\ \A f \in Elements \ {e} : R(f)' = R(f)
  BY <1>1, <1>3, <1>4, <1>6, LoopTurns
<1>8. \A f \in Elements : T(f)' = 0 /\ D(f)' = IF f = e THEN p ELSE 0
  BY <1>5 DEF LoopNumbers
<1>9. Running(e)' = Running(e) \ {i}
  BY <1>1, <1>3, TurnsSets
<1>10. R(e)' + r = R(e)
  <2>1. R(e)' = R(e) - (IF i \in Running(e) THEN 1 ELSE 0)
            + (IF item[i].elem = e /\ item[i].queued /\ s = "running" THEN 1 ELSE 0)
    BY <1>1, <1>3, TurnsCounts
  <2>2. r = IF i \in Running(e) THEN 1 ELSE 0
    BY <1>1, <1>3 DEF Running
  <2>3. QED
    BY <1>3, <1>7, <2>1, <2>2
<1>11. Over(k)'
  <2>1. k \in DOMAIN timers' /\ timers'[k] = i
    BY <1>1, LenProperties DEF TimersOK
  <2>2. Settled(i)'
    BY <1>3 DEF Turns, Settled, EndStates
  <2>3. QED
    BY <2>1, <2>2 DEF Over, Settled
<1>12. ASSUME Halting(e, k)
       PROVE  Halting(e, n)'
  <2>1. R(e) <= 1 /\ Below(e, k)
    BY <1>12 DEF Halting
  <2>2. ASSUME NEW j \in Running(e)'
        PROVE  \E m \in 1..n : timers'[m] = j
    <3>1. j \in Running(e) /\ j # i
      BY <1>9
    <3>2. PICK m \in 1..k : timers[m] = j
      BY <2>1, <3>1 DEF Below
    <3>3. m # k
      BY <1>1, <3>1, <3>2
    <3>4. m \in 1..n
      BY <1>1, <3>2, <3>3
    <3>5. QED
      BY <3>2, <3>4
  <2>3. Below(e, n)'
    BY <2>2 DEF Below
  <2>4. R(e)' <= 1 /\ T(e)' = 0
    BY <1>7, <1>8, <1>10, <2>1
  <2>5. QED
    BY <2>3, <2>4 DEF Halting
<1>13. NoDelays => NoDelays'
  <2>1. \A j \in Items : item'[j].kind = item[j].kind
    BY <1>3 DEF Turns
  <2>2. QED
    BY <2>1 DEF NoDelays
<1>14. QED
  BY <1>5, <1>7, <1>8, <1>10, <1>11, <1>12, <1>13 DEF TimerStopped

\* The loop of stop keeps IInv where it stops the timer it is at.
LEMMA StopTimersStops ==
    ASSUME IInv, NEW X, NEW L, NEW e \in Elements, NEW k \in Nat, NEW g \in BOOLEAN,
           NEW d \in BOOLEAN, StopTimersAt(X, L, e, k, g, d), StopTimers, k # 0,
           Names(timers[k], e)
    PROVE  IInv'
<1>1. /\ LoopAt(X, L) /\ Job = <<"stopTimers", e, k, g, d>>
      /\ todo = <<<<"stopTimers", e, k, g, d>>>>
      /\ AtLoop(X, L) /\ NoShorts /\ StateOK /\ finishing \subseteq Elements
      /\ finishing = {} /\ OthersOrdinary(e) /\ k <= Len(timers) /\ Len(timers) \in Nat
      /\ Stops(e, k, g)
  BY DEF StopTimersAt, StopGoesOn, LoopAt
<1>2. PICK n \in Nat : n = k - 1
  OBVIOUS
<1>3. PICK c \in BOOLEAN : c = FALSE
  OBVIOUS
<1>4. PICK i : i = timers[k]
  OBVIOUS
<1>5. /\ item' = [item EXCEPT ![i] = Stopped(i, g)]
      /\ Then(StopJobs(i, g) \o <<<<"splice", k>>, <<"stopTimers", e, n, g, c>>>>)
      /\ hooks' = hooks /\ queue' = queue /\ finishing' = finishing
      /\ timers' = timers /\ interval' = interval
  <2>1. /\ Job[2] = e /\ Job[3] = k /\ Job[4] = g /\ ~(Job[3] > Len(timers)) /\ Job[3] # 0
        /\ Job[3] - 1 = n /\ timers[Job[3]] = i /\ Names(timers[Job[3]], Job[2])
    BY <1>1, <1>2, <1>4
  <2>2. /\ item' = [item EXCEPT ![timers[Job[3]]] = Stopped(timers[Job[3]], Job[4])]
        /\ Then(StopJobs(timers[Job[3]], Job[4])
                \o <<<<"splice", Job[3]>>,
                     <<"stopTimers", Job[2], Job[3] - 1, Job[4], FALSE>>>>)
        /\ hooks' = hooks /\ queue' = queue /\ finishing' = finishing
        /\ timers' = timers /\ interval' = interval
    BY <2>1, Zenon DEF StopTimers
  <2>3. QED
    BY <1>3, <2>1, <2>2, Zenon
<1>6. StopsTimer(e, k, i, g) /\ k \in 1..Len(timers)
  BY <1>1, <1>4, <1>5 DEF StopsTimer
<1>7. PICK short, loop, p, q, r, s :
        /\ short = StopJobs(i, g) /\ loop = <<<<"splice", k>>, <<"stopTimers", e, n, g, c>>>>
        /\ p = (IF item[i].queued /\ g THEN 1 ELSE 0) /\ q = (IF item[i].queued THEN 0 ELSE 1)
        /\ r = (IF item[i].queued THEN 1 ELSE 0) /\ s = (IF g THEN "resolved" ELSE "rejected")
  OBVIOUS
<1>8. Jobs(short, e, p, q)
  BY <1>1, <1>6, <1>7, StopsTimerJobs
<1>9. LoopJobs(loop)
  <2>1. <<"stopTimers", e, n, g, c>> \in JobSet /\ <<"splice", k>> \in JobSet
    BY JobTypes
  <2>2. QED
    BY <1>7, <2>1, LoopJobsTwo DEF ShortKinds
<1>10. todo' = short \o loop
  <2>1. short \o loop \in Seq(JobSet)
    BY <1>8, <1>9, ConcatProperties DEF Jobs, LoopJobs
  <2>2. QED
    BY <1>1, <1>5, <1>7, <2>1, ThenOnly
<1>11. Short(short)' /\ TimerStopped(e, k, n, p, r)
  BY <1>1, <1>2, <1>5, <1>6, <1>7, <1>9, <1>10, StopsTimerStep
<1>12. /\ StateOK' /\ Over(k)' /\ (NoDelays => NoDelays')
       /\ \A f \in Elements : T(f)' = 0 /\ D(f)' = IF f = e THEN p ELSE 0
       /\ \A f \in Elements \ {e} : R(f)' = R(f)
       /\ R(e) \in Nat /\ R(e)' \in Nat /\ R(e)' + r = R(e)
       /\ Halting(e, k) => Halting(e, n)'
  BY <1>11 DEF TimerStopped
<1>13. Stops(e, n, g)'
  <2>1. HandlersQueueNothing /\ NoDelays' /\ queue'[e] = queue[e]
    BY <1>1, <1>5, <1>12 DEF Stops
  <2>2. queue[e] = <<>> => Halting(e, n)'
    BY <1>1, <1>12 DEF Stops
  <2>3. queue[e] # <<>> => SentinelFirst(queue[e])
    BY <1>1 DEF Stops
  <2>4. queue[e] # <<>> /\ ~g => Halting(e, n)' /\ D(e)' = 0
    BY <1>1, <1>7, <1>12 DEF Stops
  <2>5. queue[e] # <<>> /\ g => R(e)' + T(e)' + D(e)' = 1
    BY <1>1, <1>7, <1>12 DEF Stops, NoShorts
  <2>6. QED
    BY <2>1, <2>2, <2>3, <2>4, <2>5 DEF Stops
<1>14. OthersOrdinary(e)'
  BY <1>1, <1>5, <1>12, LoopOthers
<1>15. StopGoesOn(short, loop, e, n, g, c)'
  <2>1. n <= Len(timers') /\ finishing' = {}
    BY <1>1, <1>2, <1>5
  <2>2. StopAt(loop, e, n, g, c)'
    <3>1. n + 1 = k
      BY <1>2
    <3>2. Over(n + 1)'
      BY <1>12, <3>1
    <3>3. loop = <<<<"splice", n + 1>>, <<"stopTimers", e, n, g, c>>>> /\ ~c
      BY <1>3, <1>7, <3>1
    <3>4. QED
      BY <3>2, <3>3 DEF StopAt
  <2>3. QED
    BY <1>3, <1>13, <1>14, <2>1, <2>2 DEF StopGoesOn
<1>16. LoopOK(short, loop)'
  BY <1>15 DEF LoopOK
<1>17. finishing' \subseteq Elements
  BY <1>1, <1>5
<1>18. QED
  BY <1>9, <1>10, <1>11, <1>12, <1>16, <1>17, LoopStep DEF LoopJobs

\* The loop of stop over the timers keeps IInv.
LEMMA StopTimersStep ==
    ASSUME IInv, StopTimers
    PROVE  IInv'
<1>1. ~Idle /\ Job[1] = "stopTimers"
  BY DEF StopTimers, Doing
<1>2. PICK X, L : \E e \in Elements, k \in Nat, g, d \in BOOLEAN : StopTimersAt(X, L, e, k, g, d)
  BY <1>1, LoopKinds DEF ShortKinds, StopHooksAt, SpliceAt, FinishTimersAt, FinishSpliceAt,
                         FinishOldAt
<1>3. PICK e \in Elements, k \in Nat, g \in BOOLEAN, d \in BOOLEAN :
        StopTimersAt(X, L, e, k, g, d)
  BY <1>2
<1>4. CASE k = 0
  BY <1>3, <1>4, StopTimersOver
<1>5. CASE k # 0 /\ Names(timers[k], e)
  BY <1>3, <1>5, StopTimersStops
<1>6. CASE k # 0 /\ ~Names(timers[k], e)
  BY <1>3, <1>6, StopTimersPasses
<1>7. QED
  BY <1>4, <1>5, <1>6

\* The next of two or three jobs.
LEMMA ThenNext ==
    ASSUME NEW a, NEW b, todo = <<a, b>>, Then(<<>>), <<b>> \in Seq(JobSet)
    PROVE  todo' = <<b>>
<1>1. Tail(todo) = <<b>>
  OBVIOUS
<1>2. QED
  BY <1>1, ConcatEmptySeq DEF Then

\* Two jobs are left when the first of three is done.
LEMMA ThenTwo ==
    ASSUME NEW a, NEW b, NEW c, todo = <<a, b, c>>, Then(<<>>), <<b, c>> \in Seq(JobSet)
    PROVE  todo' = <<b, c>>
<1>1. Tail(todo) = <<b, c>>
  OBVIOUS
<1>2. QED
  BY <1>1, ConcatEmptySeq DEF Then

\* The timer of what was stopped is removed; those before it stay.
LEMMA TimerRemoved ==
    ASSUME NEW X, NEW L, LoopAt(X, L), NEW e \in Elements, NEW k \in Nat, NEW n \in Nat,
           n = k + 1, Over(n), timers' = RemoveAt(timers, n), \A f \in Elements : U(f)' = 0,
           D(e)' = 0, T(e)' = 0,
           item' = item, queue' = queue, hooks' = hooks, interval' = interval
    PROVE  /\ StateOK' /\ AllPending /\ k <= Len(timers') /\ n <= Len(timers)
           /\ \A f \in Elements : Running(f)' = Running(f) /\ R(f)' = R(f) /\ R(f) \in Nat
           /\ Halting(e, k) => Halting(e, k)'
<1>1. StateOK /\ TimersOK /\ NoShorts /\ Len(timers) \in Nat /\ timers \in Seq(Items)
  BY DEF LoopAt, StateOK, TimersOK
<1>2. n \in 1..Len(timers) /\ Settled(timers[n])
  BY <1>1, LenProperties DEF Over
<1>3. TimersOK'
  BY <1>1, <1>2, TimersRemove
<1>4. /\ StateOK' /\ AllPending
      /\ \A f \in Elements : Running(f)' = Running(f) /\ R(f)' = R(f) /\ R(f) \in Nat
  BY <1>1, <1>3, LoopTimers
<1>5. /\ Len(timers') = Len(timers) - 1
      /\ \A m \in 1..(Len(timers) - 1) : timers'[m] = IF m < n THEN timers[m] ELSE timers[m + 1]
  BY <1>1, <1>2, RemoveAtFacts
<1>6. k <= Len(timers') /\ n <= Len(timers)
  BY <1>1, <1>2, <1>5
<1>7. ASSUME Halting(e, k)
      PROVE  Halting(e, k)'
  <2>1. ASSUME NEW i \in Running(e)'
        PROVE  \E m \in 1..k : timers'[m] = i
    <3>1. i \in Running(e)
      BY <1>4
    <3>2. PICK m \in 1..k : timers[m] = i
      BY <1>7, <3>1 DEF Halting, Below
    <3>3. m < n /\ m \in 1..(Len(timers) - 1)
      BY <1>1, <1>2, <3>2
    <3>4. timers'[m] = i
      BY <1>5, <3>2, <3>3
    <3>5. QED
      BY <3>4
  <2>2. Below(e, k)'
    BY <2>1 DEF Below
  <2>3. R(e)' <= 1 /\ T(e)' = 0
    BY <1>4, <1>7 DEF Halting
  <2>4. QED
    BY <2>2, <2>3 DEF Halting
<1>8. QED
  BY <1>4, <1>6, <1>7

\* The loop of stop removes the timer it has stopped, and keeps IInv;
LEMMA StopSplice ==
    ASSUME IInv, NEW X, NEW L, NEW e \in Elements, NEW k \in Nat, NEW g \in BOOLEAN,
           NEW d \in BOOLEAN, SpliceAt(X, L, e, k, g, d), Splice
    PROVE  IInv'
<1>1. /\ LoopAt(X, L) /\ Job = <<"splice", k + 1>> /\ ~d /\ Over(k + 1)
      /\ todo = <<<<"splice", k + 1>>, <<"stopTimers", e, k, g, d>>>>
      /\ AtLoop(X, L) /\ NoShorts /\ StateOK /\ TimersOK /\ finishing \subseteq Elements
      /\ finishing = {} /\ OthersOrdinary(e) /\ Len(timers) \in Nat
      /\ Stops(e, k, g)
  BY DEF SpliceAt, StopGoesOn, LoopAt, StateOK
<1>2. PICK n \in Nat : n = k + 1
  OBVIOUS
<1>3. Over(n) /\ n <= Len(timers)
  BY <1>1, <1>2, LenProperties DEF Over, TimersOK
<1>4. /\ timers' = RemoveAt(timers, n) /\ Then(<<>>) /\ item' = item /\ hooks' = hooks
      /\ queue' = queue /\ finishing' = finishing /\ interval' = interval
  BY <1>1, <1>2, <1>3 DEF Splice
<1>5. PICK loop : loop = <<<<"stopTimers", e, k, g, d>>>>
  OBVIOUS
<1>6. LoopJobs(loop)
  <2>1. <<"stopTimers", e, k, g, d>> \in JobSet
    BY JobTypes
  <2>2. QED
    BY <1>5, <2>1, LoopJobsOne DEF ShortKinds
<1>7. todo' = loop /\ loop \in Seq(JobSet)
  <2>1. <<<<"stopTimers", e, k, g, d>>>> \in Seq(JobSet)
    BY <1>5, <1>6 DEF LoopJobs
  <2>2. QED
    BY <1>1, <1>4, <1>5, <2>1, ThenNext
<1>8. /\ todo' = <<>> \o loop /\ Short(<<>>)'
      /\ \A f \in Elements : D(f)' = 0 /\ U(f)' = 0 /\ T(f)' = 0
  BY <1>6, <1>7, LoopOnly
<1>9. /\ StateOK' /\ k <= Len(timers')
      /\ \A f \in Elements : Running(f)' = Running(f) /\ R(f)' = R(f) /\ R(f) \in Nat
      /\ Halting(e, k) => Halting(e, k)'
  BY <1>1, <1>2, <1>3, <1>4, <1>8, TimerRemoved
<1>10. Stops(e, k, g)'
  <2>1. D(e) = 0 /\ T(e) = 0
    BY <1>1 DEF NoShorts
  <2>2. QED
    BY <1>1, <1>4, <1>8, <1>9, <2>1 DEF Stops, NoDelays
<1>11. OthersOrdinary(e)'
  BY <1>1, <1>4, <1>8, <1>9, LoopOthers
<1>12. StopGoesOn(<<>>, loop, e, k, g, d)'
  BY <1>1, <1>4, <1>5, <1>9, <1>10, <1>11 DEF StopGoesOn, StopAt
<1>13. LoopOK(<<>>, loop)'
  BY <1>12 DEF LoopOK
<1>14. finishing' \subseteq Elements
  BY <1>1, <1>4
<1>15. QED
  BY <1>7, <1>8, <1>9, <1>13, <1>14, LoopStep

\* so does the one of finish;
LEMMA FinishSplice ==
    ASSUME IInv, NEW X, NEW L, NEW e \in Elements, NEW k \in Nat,
           NEW old \in Seq(Items \cup {"inprogress"}), FinishSpliceAt(X, L, e, k, old), Splice
    PROVE  IInv'
<1>1. /\ LoopAt(X, L) /\ Job = <<"splice", k + 1>> /\ Over(k + 1)
      /\ todo = <<<<"splice", k + 1>>, <<"finishTimers", e, k>>, <<"finishOld", e, old>>>>
      /\ AtLoop(X, L) /\ NoShorts /\ StateOK /\ TimersOK /\ finishing \subseteq Elements
      /\ finishing = {e} /\ OthersOrdinary(e) /\ Len(timers) \in Nat
      /\ Finishes(e, k) /\ OldOK(e, old)
  BY DEF FinishSpliceAt, FinishGoesOn, LoopAt, StateOK
<1>2. PICK n \in Nat : n = k + 1
  OBVIOUS
<1>3. Over(n) /\ n <= Len(timers)
  BY <1>1, <1>2, LenProperties DEF Over, TimersOK
<1>4. /\ timers' = RemoveAt(timers, n) /\ Then(<<>>) /\ item' = item /\ hooks' = hooks
      /\ queue' = queue /\ finishing' = finishing /\ interval' = interval
  BY <1>1, <1>2, <1>3 DEF Splice
<1>5. PICK loop : loop = <<<<"finishTimers", e, k>>, <<"finishOld", e, old>>>>
  OBVIOUS
<1>6. LoopJobs(loop)
  <2>1. <<"finishTimers", e, k>> \in JobSet /\ <<"finishOld", e, old>> \in JobSet
    BY JobTypes
  <2>2. QED
    BY <1>5, <2>1, LoopJobsTwo DEF ShortKinds
<1>7. todo' = loop /\ loop \in Seq(JobSet)
  <2>1. <<<<"finishTimers", e, k>>, <<"finishOld", e, old>>>> \in Seq(JobSet)
    BY <1>5, <1>6 DEF LoopJobs
  <2>2. QED
    BY <1>1, <1>4, <1>5, <2>1, ThenTwo
<1>8. /\ todo' = <<>> \o loop /\ Short(<<>>)' /\ ~StartsWith(todo')
      /\ \A f \in Elements : D(f)' = 0 /\ U(f)' = 0 /\ T(f)' = 0
  BY <1>6, <1>7, LoopOnly
<1>9. /\ StateOK' /\ k <= Len(timers') /\ AllPending
      /\ \A f \in Elements : Running(f)' = Running(f) /\ R(f)' = R(f) /\ R(f) \in Nat
      /\ Halting(e, k) => Halting(e, k)'
  BY <1>1, <1>2, <1>3, <1>4, <1>8, TimerRemoved
<1>10. Finishes(e, k)'
  BY <1>1, <1>4, <1>9 DEF Finishes
<1>11. OthersOrdinary(e)'
  BY <1>1, <1>4, <1>8, <1>9, LoopOthers
<1>12. OldOK(e, old)'
  <2>1. IsQueue(old, e)'
    BY <1>1, <1>9, IsQueueKept DEF OldOK
  <2>2. QED
    BY <1>8, <2>1, StartsNext DEF OldOK
<1>13. FinishGoesOn(loop, e, k, old)'
  BY <1>1, <1>4, <1>5, <1>9, <1>10, <1>11, <1>12 DEF FinishGoesOn, FinishAt
<1>14. LoopOK(<<>>, loop)'
  <2>1. (\E f \in Elements, m \in Nat, s \in Seq(Items \cup {"inprogress"}) :
            FinishGoesOn(loop, f, m, s))'
    BY <1>13
  <2>2. QED
    BY <2>1 DEF LoopOK
<1>15. finishing' \subseteq Elements
  BY <1>1, <1>4
<1>16. QED
  BY <1>7, <1>8, <1>9, <1>14, <1>15, LoopStep

\* and so does every removal.
LEMMA SpliceStep ==
    ASSUME IInv, Splice
    PROVE  IInv'
<1>1. ~Idle /\ Job[1] = "splice"
  BY DEF Splice, Doing
<1>2. \E X, L :
        \/ \E e \in Elements, k \in Nat, g, d \in BOOLEAN : SpliceAt(X, L, e, k, g, d)
        \/ \E e \in Elements, k \in Nat, old \in Seq(Items \cup {"inprogress"}) :
            FinishSpliceAt(X, L, e, k, old)
  <2>1. /\ \A X, L, e, g : ~StopHooksAt(X, L, e, g)
        /\ \A X, L, e, k, g, d : ~StopTimersAt(X, L, e, k, g, d)
        /\ \A X, L, e, k, old : ~FinishTimersAt(X, L, e, k, old)
        /\ \A X, L, e, old : ~FinishOldAt(X, L, e, old)
    BY <1>1 DEF StopHooksAt, StopTimersAt, FinishTimersAt, FinishOldAt
  <2>2. Job[1] \notin ShortKinds /\ Job[1] \notin {"tick", "ticked"}
    BY <1>1 DEF ShortKinds
  <2>3. QED
    BY <1>1, <2>1, <2>2, LoopKinds, Zenon
<1>3. CASE \E X, L : \E e \in Elements, k \in Nat, g, d \in BOOLEAN : SpliceAt(X, L, e, k, g, d)
  BY <1>3, StopSplice
<1>4. CASE \E X, L : \E e \in Elements, k \in Nat, old \in Seq(Items \cup {"inprogress"}) :
            FinishSpliceAt(X, L, e, k, old)
  BY <1>4, FinishSplice
<1>5. QED
  BY <1>2, <1>3, <1>4

\* Jobs in front of others.
LEMMA InFront ==
    ASSUME NEW a, NEW b, NEW c
    PROVE  <<a>> \o <<b>> = <<a, b>> /\ <<a, b>> \o <<c>> = <<a, b, c>>
<1> DEFINE S == {a, b, c}
<1>1. <<a>> \in Seq(S) /\ <<b>> \in Seq(S) /\ <<c>> \in Seq(S) /\ <<a, b>> \in Seq(S)
  OBVIOUS
<1>2. <<a>> \o <<b>> = <<a, b>>
  <2>1. /\ <<a>> \o <<b>> \in Seq(S) /\ Len(<<a>> \o <<b>>) = 2
        /\ (<<a>> \o <<b>>)[1] = a /\ (<<a>> \o <<b>>)[2] = b
    BY <1>1, ConcatProperties
  <2>2. \A n \in 1..Len(<<a>> \o <<b>>) : (<<a>> \o <<b>>)[n] = <<a, b>>[n]
    BY <2>1
  <2>3. Len(<<a, b>>) = 2 /\ <<a, b>> \in Seq(S)
    OBVIOUS
  <2>4. QED
    BY <2>1, <2>2, <2>3, SeqEqual
<1>3. <<a, b>> \o <<c>> = <<a, b, c>>
  <2>1. /\ <<a, b>> \o <<c>> \in Seq(S) /\ Len(<<a, b>> \o <<c>>) = 3
        /\ (<<a, b>> \o <<c>>)[1] = a /\ (<<a, b>> \o <<c>>)[2] = b
        /\ (<<a, b>> \o <<c>>)[3] = c
    BY <1>1, ConcatProperties
  <2>2. \A n \in 1..Len(<<a, b>> \o <<c>>) : (<<a, b>> \o <<c>>)[n] = <<a, b, c>>[n]
    BY <2>1
  <2>3. Len(<<a, b, c>>) = 3 /\ <<a, b, c>> \in Seq(S)
    OBVIOUS
  <2>4. QED
    BY <2>1, <2>2, <2>3, SeqEqual
<1>4. QED
  BY <1>2, <1>3

\* What finish has emptied waits, while nothing starts.
LEMMA OldSame ==
    ASSUME NEW e \in Elements, NEW old, OldOK(e, old), AllPending, ~StartsWith(todo')
    PROVE  OldOK(e, old)'
<1>1. IsQueue(old, e)'
  BY IsQueueKept DEF OldOK
<1>2. QED
  BY <1>1, StartsNext DEF OldOK

\* The loop of finish over the timers ends, with none left.
LEMMA FinishTimersOver ==
    ASSUME IInv, NEW X, NEW L, NEW e \in Elements, NEW k,
           NEW old \in Seq(Items \cup {"inprogress"}), FinishTimersAt(X, L, e, k, old),
           FinishTimers, k = 0
    PROVE  IInv'
<1>1. /\ LoopAt(X, L) /\ Job = <<"finishTimers", e, k>>
      /\ todo = <<<<"finishTimers", e, k>>, <<"finishOld", e, old>>>>
      /\ AtLoop(X, L) /\ NoShorts /\ StateOK /\ finishing \subseteq Elements
      /\ finishing = {e} /\ OthersOrdinary(e) /\ Finishes(e, k) /\ OldOK(e, old)
  BY DEF FinishTimersAt, FinishGoesOn, LoopAt
<1>2. /\ Then(<<>>) /\ item' = item /\ hooks' = hooks /\ queue' = queue
      /\ finishing' = finishing /\ timers' = timers /\ interval' = interval
  BY <1>1 DEF FinishTimers
<1>3. PICK loop : loop = <<<<"finishOld", e, old>>>>
  OBVIOUS
<1>4. LoopJobs(loop)
  <2>1. <<"finishOld", e, old>> \in JobSet
    BY JobTypes
  <2>2. QED
    BY <1>3, <2>1, LoopJobsOne DEF ShortKinds
<1>5. todo' = loop /\ loop \in Seq(JobSet)
  <2>1. <<<<"finishOld", e, old>>>> \in Seq(JobSet)
    BY <1>3, <1>4 DEF LoopJobs
  <2>2. QED
    BY <1>1, <1>2, <1>3, <2>1, ThenNext
<1>6. /\ todo' = <<>> \o loop /\ Short(<<>>)' /\ ~StartsWith(todo')
      /\ \A f \in Elements : D(f)' = 0 /\ U(f)' = 0 /\ T(f)' = 0
  BY <1>4, <1>5, LoopOnly
<1>7. /\ StateOK' /\ AllPending
      /\ \A f \in Elements : Running(f)' = Running(f) /\ R(f)' = R(f)
  BY <1>1, <1>2, <1>6, LoopSame
<1>8. OthersOrdinary(e)'
  BY <1>1, <1>2, <1>6, <1>7, LoopOthers
<1>9. OldOK(e, old)'
  BY <1>1, <1>6, <1>7, OldSame
<1>10. FinishesOld(e)'
  <2>1. Running(e) = {} /\ R(e) = 0
    BY <1>1, NoneBelow DEF Finishes, Halting
  <2>2. Running(e)' = {} /\ R(e)' + T(e)' <= 1
    BY <1>6, <1>7, <2>1
  <2>3. HandlersQueueNothing /\ queue'[e] = <<>> /\ ~Doing("start")'
    BY <1>1, <1>2, <1>6, StartsNext DEF Finishes
  <2>4. QED
    BY <2>2, <2>3 DEF FinishesOld
<1>11. FinishEnds(loop, e, old)'
  BY <1>1, <1>2, <1>3, <1>8, <1>9, <1>10 DEF FinishEnds
<1>12. LoopOK(<<>>, loop)'
  BY <1>11 DEF LoopOK
<1>13. finishing' \subseteq Elements
  BY <1>1, <1>2
<1>14. QED
  BY <1>5, <1>6, <1>7, <1>12, <1>13, LoopStep

\* It passes a timer of another element, of what has settled, or of what was
\* not queued.
LEMMA FinishTimersPasses ==
    ASSUME IInv, NEW X, NEW L, NEW e \in Elements, NEW k \in Nat,
           NEW old \in Seq(Items \cup {"inprogress"}), FinishTimersAt(X, L, e, k, old),
           FinishTimers, k # 0, ~(Names(timers[k], e) /\ item[timers[k]].queued)
    PROVE  IInv'
<1>1. /\ LoopAt(X, L) /\ Job = <<"finishTimers", e, k>>
      /\ todo = <<<<"finishTimers", e, k>>, <<"finishOld", e, old>>>>
      /\ AtLoop(X, L) /\ NoShorts /\ StateOK /\ finishing \subseteq Elements
      /\ k <= Len(timers) /\ Len(timers) \in Nat
      /\ finishing = {e} /\ OthersOrdinary(e) /\ Finishes(e, k) /\ OldOK(e, old)
  BY DEF FinishTimersAt, FinishGoesOn, LoopAt
<1>2. PICK n \in Nat : n = k - 1
  OBVIOUS
<1>3. /\ Then(<<<<"finishTimers", e, n>>>>) /\ item' = item /\ hooks' = hooks
      /\ queue' = queue /\ finishing' = finishing /\ timers' = timers /\ interval' = interval
  <2>1. /\ Job[2] = e /\ Job[3] = k /\ ~(Job[3] > Len(timers)) /\ Job[3] # 0
        /\ Job[3] - 1 = n
        /\ ~(Names(timers[Job[3]], Job[2]) /\ item[timers[Job[3]]].queued)
    BY <1>1, <1>2
  <2>2. /\ Then(<<<<"finishTimers", Job[2], Job[3] - 1>>>>) /\ item' = item /\ hooks' = hooks
        /\ queue' = queue /\ finishing' = finishing /\ timers' = timers /\ interval' = interval
    BY <2>1, Zenon DEF FinishTimers
  <2>3. QED
    BY <2>1, <2>2, Zenon
<1>4. PICK loop : loop = <<<<"finishTimers", e, n>>, <<"finishOld", e, old>>>>
  OBVIOUS
<1>5. LoopJobs(loop)
  <2>1. <<"finishTimers", e, n>> \in JobSet /\ <<"finishOld", e, old>> \in JobSet
    BY JobTypes
  <2>2. QED
    BY <1>4, <2>1, LoopJobsTwo DEF ShortKinds
<1>6. todo' = loop /\ loop \in Seq(JobSet)
  <2>1. Tail(todo) = <<<<"finishOld", e, old>>>>
    BY <1>1
  <2>2. todo' = <<<<"finishTimers", e, n>>>> \o <<<<"finishOld", e, old>>>>
    BY <1>3, <2>1 DEF Then
  <2>3. QED
    BY <1>4, <1>5, <2>2, InFront, Zenon DEF LoopJobs
<1>7. /\ todo' = <<>> \o loop /\ Short(<<>>)' /\ ~StartsWith(todo')
      /\ \A f \in Elements : D(f)' = 0 /\ U(f)' = 0 /\ T(f)' = 0
  BY <1>5, <1>6, LoopOnly
<1>8. /\ StateOK' /\ AllPending
      /\ \A f \in Elements : Running(f)' = Running(f) /\ R(f)' = R(f)
  BY <1>1, <1>3, <1>7, LoopSame
<1>9. OthersOrdinary(e)'
  BY <1>1, <1>3, <1>7, <1>8, LoopOthers
<1>10. OldOK(e, old)'
  BY <1>1, <1>7, <1>8, OldSame
<1>11. Finishes(e, n)'
  <2>1. ASSUME NEW i \in Running(e)
        PROVE  \E m \in 1..n : timers[m] = i
    <3>1. PICK m \in 1..k : timers[m] = i
      BY <1>1, <2>1 DEF Finishes, Halting, Below
    <3>2. m # k
      BY <3>1 DEF Running, Names
    <3>3. m \in 1..n
      BY <1>2, <3>1, <3>2
    <3>4. QED
      BY <3>1, <3>3
  <2>2. Below(e, n)'
    BY <1>3, <1>8, <2>1 DEF Below
  <2>3. QED
    BY <1>1, <1>3, <1>7, <1>8, <2>2 DEF Finishes, Halting
<1>12. FinishGoesOn(loop, e, n, old)'
  <2>1. n <= Len(timers') /\ finishing' = {e} /\ FinishAt(loop, e, n, old)'
    BY <1>1, <1>2, <1>3, <1>4 DEF FinishAt
  <2>2. QED
    BY <1>9, <1>10, <1>11, <2>1 DEF FinishGoesOn
<1>13. LoopOK(<<>>, loop)'
  <2>1. (\E f \in Elements, m \in Nat, s \in Seq(Items \cup {"inprogress"}) :
            FinishGoesOn(loop, f, m, s))'
    BY <1>12
  <2>2. QED
    BY <2>1 DEF LoopOK
<1>14. finishing' \subseteq Elements
  BY <1>1, <1>3
<1>15. QED
  BY <1>6, <1>7, <1>8, <1>13, <1>14, LoopStep

\* It stops what was queued at its end.
LEMMA FinishTimersStops ==
    ASSUME IInv, NEW X, NEW L, NEW e \in Elements, NEW k \in Nat,
           NEW old \in Seq(Items \cup {"inprogress"}), FinishTimersAt(X, L, e, k, old),
           FinishTimers, k # 0, Names(timers[k], e), item[timers[k]].queued
    PROVE  IInv'
<1>1. /\ LoopAt(X, L) /\ Job = <<"finishTimers", e, k>>
      /\ todo = <<<<"finishTimers", e, k>>, <<"finishOld", e, old>>>>
      /\ AtLoop(X, L) /\ NoShorts /\ StateOK /\ finishing \subseteq Elements
      /\ k <= Len(timers) /\ Len(timers) \in Nat
      /\ finishing = {e} /\ OthersOrdinary(e) /\ Finishes(e, k) /\ OldOK(e, old)
  BY DEF FinishTimersAt, FinishGoesOn, LoopAt
<1>2. PICK n \in Nat : n = k - 1
  OBVIOUS
<1>3. PICK g \in BOOLEAN : g = TRUE
  OBVIOUS
<1>4. PICK i : i = timers[k]
  OBVIOUS
<1>5. /\ item' = [item EXCEPT ![i] = Stopped(i, g)]
      /\ Then(StopJobs(i, g) \o <<<<"splice", k>>, <<"finishTimers", e, n>>>>)
      /\ hooks' = hooks /\ queue' = queue /\ finishing' = finishing
      /\ timers' = timers /\ interval' = interval
  <2>1. /\ Job[2] = e /\ Job[3] = k /\ ~(Job[3] > Len(timers)) /\ Job[3] # 0
        /\ Job[3] - 1 = n /\ timers[Job[3]] = i
        /\ Names(timers[Job[3]], Job[2]) /\ item[timers[Job[3]]].queued
    BY <1>1, <1>2, <1>4
  <2>2. /\ item' = [item EXCEPT ![timers[Job[3]]] = Stopped(timers[Job[3]], TRUE)]
        /\ Then(StopJobs(timers[Job[3]], TRUE)
                \o <<<<"splice", Job[3]>>, <<"finishTimers", Job[2], Job[3] - 1>>>>)
        /\ hooks' = hooks /\ queue' = queue /\ finishing' = finishing
        /\ timers' = timers /\ interval' = interval
    BY <2>1, Zenon DEF FinishTimers
  <2>3. QED
    BY <1>3, <2>1, <2>2, Zenon
<1>6. StopsTimer(e, k, i, g) /\ k \in 1..Len(timers)
  BY <1>1, <1>4, <1>5 DEF StopsTimer
<1>7. PICK short, loop, p, q, r, s :
        /\ short = StopJobs(i, g)
        /\ loop = <<<<"splice", k>>, <<"finishTimers", e, n>>, <<"finishOld", e, old>>>>
        /\ p = (IF item[i].queued /\ g THEN 1 ELSE 0) /\ q = (IF item[i].queued THEN 0 ELSE 1)
        /\ r = (IF item[i].queued THEN 1 ELSE 0) /\ s = (IF g THEN "resolved" ELSE "rejected")
  OBVIOUS
<1>8. Jobs(short, e, p, q)
  BY <1>1, <1>6, <1>7, StopsTimerJobs
<1>9. <<"splice", k>> \in JobSet /\ <<"finishTimers", e, n>> \in JobSet
      /\ <<"finishOld", e, old>> \in JobSet
  BY JobTypes
<1>10. LoopJobs(loop)
  BY <1>7, <1>9, LoopJobsThree DEF ShortKinds
<1>11. todo' = short \o loop
  <2>1. PICK a, b : /\ a = <<<<"splice", k>>, <<"finishTimers", e, n>>>>
                    /\ b = <<<<"finishOld", e, old>>>>
    OBVIOUS
  <2>2. todo' = (short \o a) \o b
    <3>1. Tail(todo) = b
      BY <1>1, <2>1
    <3>2. QED
      BY <1>5, <1>7, <2>1, <3>1 DEF Then
  <2>3. a \in Seq(JobSet) /\ b \in Seq(JobSet) /\ short \in Seq(JobSet)
    BY <1>8, <1>9, <2>1 DEF Jobs
  <2>4. (short \o a) \o b = short \o (a \o b)
    BY <2>3, ConcatAssociative
  <2>5. a \o b = loop
    BY <1>7, <2>1, InFront, Zenon
  <2>6. QED
    BY <2>2, <2>4, <2>5
<1>12. Short(short)' /\ TimerStopped(e, k, n, p, r)
  BY <1>1, <1>2, <1>5, <1>6, <1>7, <1>10, <1>11, StopsTimerStep
<1>13. /\ StateOK' /\ Over(k)' /\ AllPending
       /\ \A f \in Elements : T(f)' = 0 /\ D(f)' = IF f = e THEN p ELSE 0
       /\ \A f \in Elements \ {e} : R(f)' = R(f)
       /\ Halting(e, k) => Halting(e, n)'
  BY <1>12 DEF TimerStopped
<1>14. Finishes(e, n)'
  BY <1>1, <1>5, <1>13 DEF Finishes
<1>15. OthersOrdinary(e)'
  BY <1>1, <1>5, <1>13, LoopOthers
<1>16. OldOK(e, old)'
  <2>1. ~StartsWith(todo')
    <3>1. p \in Nat /\ q \in Nat
      BY <1>7
    <3>2. QED
      BY <1>8, <1>10, <1>11, <3>1, LoopGoesOn
  <2>2. QED
    BY <1>1, <1>13, <2>1, OldSame
<1>17. FinishGoesOn(loop, e, n, old)'
  <2>1. n <= Len(timers') /\ finishing' = {e}
    BY <1>1, <1>2, <1>5
  <2>2. FinishAt(loop, e, n, old)'
    <3>1. n + 1 = k
      BY <1>2
    <3>2. Over(n + 1)'
      BY <1>13, <3>1
    <3>3. loop = <<<<"splice", n + 1>>, <<"finishTimers", e, n>>, <<"finishOld", e, old>>>>
      BY <1>7, <3>1
    <3>4. QED
      BY <3>2, <3>3 DEF FinishAt
  <2>3. QED
    BY <1>14, <1>15, <1>16, <2>1, <2>2 DEF FinishGoesOn
<1>18. LoopOK(short, loop)'
  <2>1. (\E f \in Elements, m \in Nat, t \in Seq(Items \cup {"inprogress"}) :
            FinishGoesOn(loop, f, m, t))'
    BY <1>17
  <2>2. QED
    BY <2>1 DEF LoopOK
<1>19. finishing' \subseteq Elements
  BY <1>1, <1>5
<1>20. QED
  BY <1>10, <1>11, <1>12, <1>13, <1>18, <1>19, LoopStep DEF LoopJobs

\* The loop of finish over the timers keeps IInv.
LEMMA FinishTimersStep ==
    ASSUME IInv, FinishTimers
    PROVE  IInv'
<1>1. ~Idle /\ Job[1] = "finishTimers"
  BY DEF FinishTimers, Doing
<1>2. \E X, L : \E e \in Elements, k \in Nat, old \in Seq(Items \cup {"inprogress"}) :
            FinishTimersAt(X, L, e, k, old)
  <2>1. /\ \A X, L, e, g : ~StopHooksAt(X, L, e, g)
        /\ \A X, L, e, k, g, d : ~StopTimersAt(X, L, e, k, g, d)
        /\ \A X, L, e, k, g, d : ~SpliceAt(X, L, e, k, g, d)
        /\ \A X, L, e, k, old : ~FinishSpliceAt(X, L, e, k, old)
        /\ \A X, L, e, old : ~FinishOldAt(X, L, e, old)
    BY <1>1 DEF StopHooksAt, StopTimersAt, SpliceAt, FinishSpliceAt, FinishOldAt
  <2>2. Job[1] \notin ShortKinds /\ Job[1] \notin {"tick", "ticked"}
    BY <1>1 DEF ShortKinds
  <2>3. QED
    BY <1>1, <2>1, <2>2, LoopKinds, Zenon
<1>3. PICK X, L : \E e \in Elements, k \in Nat, old \in Seq(Items \cup {"inprogress"}) :
            FinishTimersAt(X, L, e, k, old)
  BY <1>2
<1>4. PICK e \in Elements, k \in Nat, old \in Seq(Items \cup {"inprogress"}) :
            FinishTimersAt(X, L, e, k, old)
  BY <1>3
<1>5. CASE k = 0
  BY <1>4, <1>5, FinishTimersOver
<1>6. CASE k # 0 /\ ~(Names(timers[k], e) /\ item[timers[k]].queued)
  BY <1>4, <1>6, FinishTimersPasses
<1>7. CASE k # 0 /\ Names(timers[k], e) /\ item[timers[k]].queued
  BY <1>4, <1>7, FinishTimersStops
<1>8. QED
  BY <1>5, <1>6, <1>7

\* The loop over the old queue is the one of a finish.
LEMMA FinishOldIs ==
    ASSUME IInv, FinishOld
    PROVE  \E X, L : \E e \in Elements, old \in Seq(Items \cup {"inprogress"}) :
            FinishOldAt(X, L, e, old)
<1>1. ~Idle /\ Job[1] = "finishOld"
  BY DEF FinishOld, Doing
<1>2. /\ \A X, L, e, g : ~StopHooksAt(X, L, e, g)
      /\ \A X, L, e, k, g, d : ~StopTimersAt(X, L, e, k, g, d)
      /\ \A X, L, e, k, g, d : ~SpliceAt(X, L, e, k, g, d)
      /\ \A X, L, e, k, old : ~FinishSpliceAt(X, L, e, k, old)
      /\ \A X, L, e, k, old : ~FinishTimersAt(X, L, e, k, old)
  BY <1>1 DEF StopHooksAt, StopTimersAt, SpliceAt, FinishSpliceAt, FinishTimersAt
<1>3. Job[1] \notin ShortKinds /\ Job[1] \notin {"tick", "ticked"}
  BY <1>1 DEF ShortKinds
<1>4. QED
  BY <1>1, <1>2, <1>3, LoopKinds, Zenon

\* With nothing left of what was queued, the element no longer finishes, and
\* nothing of it runs.
LEMMA FinishOldOver ==
    ASSUME IInv, NEW X, NEW L, NEW e \in Elements,
           NEW old \in Seq(Items \cup {"inprogress"}), FinishOldAt(X, L, e, old),
           FinishOld, old = <<>>
    PROVE  IInv'
<1>1. /\ LoopAt(X, L) /\ Job = <<"finishOld", e, old>>
      /\ todo = <<<<"finishOld", e, old>>>> /\ ~Idle
      /\ AtLoop(X, L) /\ NoShorts /\ StateOK /\ finishing \subseteq Elements
      /\ finishing = {e} /\ OthersOrdinary(e) /\ FinishesOld(e)
  BY DEF FinishOldAt, FinishEnds, LoopAt, FinishOld, Doing
<1>2. /\ Then(<<>>) /\ finishing' = finishing \ {e} /\ item' = item /\ hooks' = hooks
      /\ queue' = queue /\ timers' = timers /\ interval' = interval
  BY <1>1 DEF FinishOld
<1>3. PICK loop : loop = <<>>
  OBVIOUS
<1>4. LoopJobs(loop) /\ todo' = loop
  <2>1. Tail(todo) = <<>>
    BY <1>1
  <2>2. QED
    BY <1>2, <1>3, <2>1, LoopJobsNone, EmptySeq, ConcatEmptySeq DEF Then
<1>5. /\ todo' = <<>> \o loop /\ Short(<<>>)' /\ loop \in Seq(JobSet) /\ ~StartsWith(todo')
      /\ \A f \in Elements : D(f)' = 0 /\ U(f)' = 0 /\ T(f)' = 0
  BY <1>4, LoopOnly
<1>6. /\ StateOK' /\ AllPending
      /\ \A f \in Elements : Running(f)' = Running(f) /\ R(f)' = R(f)
  BY <1>1, <1>2, <1>5, LoopSame
<1>7. OthersOrdinary(e)'
  BY <1>1, <1>2, <1>5, <1>6, LoopOthers
<1>8. Ordinary(e)'
  <2>1. Running(e) = {}
    BY <1>1 DEF FinishesOld
  <2>2. R(e)' = 0 /\ queue'[e] = <<>>
    BY <1>1, <1>2, <1>6, <2>1, FS_EmptySet DEF FinishesOld, R
  <2>3. QED
    BY <1>5, <2>2 DEF Ordinary
<1>9. Calm(loop)'
  <2>1. finishing' = {}
    BY <1>1, <1>2
  <2>2. AllOrdinary'
    BY <1>7, <1>8 DEF OthersOrdinary, AllOrdinary
  <2>3. CalmLoop(loop)'
    BY <1>3 DEF CalmLoop
  <2>4. QED
    BY <2>1, <2>2, <2>3 DEF Calm
<1>10. LoopOK(<<>>, loop)' /\ finishing' \subseteq Elements
  BY <1>1, <1>2, <1>9 DEF LoopOK
<1>11. QED
  BY <1>5, <1>6, <1>10, LoopStep

\* What is left of what was queued, after the first of it.
IsRest(t, old, e) ==
    /\ t = Tail(old) /\ t \in Seq(Items \cup {"inprogress"}) /\ IsQueue(t, e)
    /\ \A m \in DOMAIN t : t[m] # Head(old)

\* Without its head, what is left of the old queue is still a rest of it.
LEMMA OldRest ==
    ASSUME NEW e \in Elements, NEW old, IsQueue(old, e), old # <<>>
    PROVE  /\ IsRest(Tail(old), old, e)
           /\ Head(old) \in Items => Pending(Head(old), e)
<1>1. /\ old \in Seq(Items \cup {"inprogress"})
      /\ \A m \in DOMAIN old : old[m] = "inprogress" \/ Pending(old[m], e)
      /\ \A m, n \in DOMAIN old : old[m] = old[n] => m = n
  BY DEF IsQueue
<1>2. PICK t : t = Tail(old)
  OBVIOUS
<1>3. /\ t \in Seq(Items \cup {"inprogress"}) /\ Len(t) = Len(old) - 1 /\ Len(old) \in Nat
      /\ Len(old) > 0 /\ \A m \in 1..Len(t) : t[m] = old[m + 1]
      /\ DOMAIN t = 1..Len(t) /\ DOMAIN old = 1..Len(old) /\ Head(old) = old[1]
  BY <1>1, <1>2, HeadTailProperties, LenProperties, EmptySeq
<1>4. \A m \in DOMAIN t : m \in Nat /\ m + 1 \in DOMAIN old /\ m + 1 # 1 /\ t[m] = old[m + 1]
  BY <1>3
<1>5. 1 \in DOMAIN old
  BY <1>3
<1>6. \A m, n \in DOMAIN t : t[m] = t[n] => m = n
  <2>1. ASSUME NEW m \in DOMAIN t, NEW n \in DOMAIN t, t[m] = t[n]
        PROVE  m = n
    <3>1. m + 1 = n + 1 /\ m \in Nat /\ n \in Nat
      BY <1>1, <1>4, <2>1
    <3>2. QED
      BY <3>1
  <2>2. QED
    BY <2>1
<1>7. IsQueue(t, e)
  BY <1>1, <1>3, <1>4, <1>6 DEF IsQueue
<1>8. \A m \in DOMAIN t : t[m] # Head(old)
  BY <1>1, <1>3, <1>4, <1>5
<1>9. Head(old) \in Items => Pending(Head(old), e)
  BY <1>1, <1>3, <1>5, FxAssumption
<1>10. QED
  BY <1>2, <1>3, <1>7, <1>8, <1>9 DEF IsRest

\* The loop over what was queued passes the sentinel, or a delay.
LEMMA FinishOldPasses ==
    ASSUME IInv, NEW X, NEW L, NEW e \in Elements,
           NEW old \in Seq(Items \cup {"inprogress"}), FinishOldAt(X, L, e, old),
           FinishOld, old # <<>>, ~(Head(old) \in Items /\ item[Head(old)].kind = "anim")
    PROVE  IInv'
<1>1. /\ LoopAt(X, L) /\ Job = <<"finishOld", e, old>>
      /\ todo = <<<<"finishOld", e, old>>>>
      /\ AtLoop(X, L) /\ NoShorts /\ StateOK /\ finishing \subseteq Elements
      /\ finishing = {e} /\ OthersOrdinary(e) /\ FinishesOld(e) /\ OldOK(e, old)
  BY DEF FinishOldAt, FinishEnds, LoopAt
<1>2. PICK t : t = Tail(old) /\ IsRest(t, old, e)
  BY <1>1, OldRest DEF OldOK
<1>3. PICK loop : loop = <<<<"finishOld", e, t>>>>
  OBVIOUS
<1>4. LoopJobs(loop)
  <2>1. <<"finishOld", e, t>> \in JobSet
    BY <1>2, JobTypes DEF IsRest
  <2>2. QED
    BY <1>3, <2>1, LoopJobsOne DEF ShortKinds
<1>5. /\ todo' = loop /\ item' = item /\ hooks' = hooks
      /\ queue' = queue /\ finishing' = finishing /\ timers' = timers /\ interval' = interval
  <2>1. Job[2] = e /\ Job[3] = old /\ Tail(todo) = <<>>
    BY <1>1
  <2>2. /\ Then(<<>> \o <<<<"finishOld", Job[2], Tail(Job[3])>>>>)
        /\ item' = item /\ hooks' = hooks
        /\ queue' = queue /\ finishing' = finishing /\ timers' = timers /\ interval' = interval
    BY <2>1 DEF FinishOld
  <2>3. Then(<<>> \o loop)
    BY <1>2, <1>3, <2>1, <2>2, Zenon
  <2>4. QED
    BY <1>4, <2>1, <2>2, <2>3, ConcatEmptySeq DEF Then, LoopJobs
<1>6. /\ todo' = <<>> \o loop /\ Short(<<>>)' /\ loop \in Seq(JobSet) /\ ~StartsWith(todo')
      /\ \A f \in Elements : D(f)' = 0 /\ U(f)' = 0 /\ T(f)' = 0
  BY <1>4, <1>5, LoopOnly
<1>7. /\ StateOK' /\ AllPending
      /\ \A f \in Elements : Running(f)' = Running(f) /\ R(f)' = R(f) /\ R(f) \in Nat
  BY <1>1, <1>5, <1>6, LoopSame
<1>8. OthersOrdinary(e)'
  BY <1>1, <1>5, <1>6, <1>7, LoopOthers
<1>9. OldOK(e, t)'
  <2>1. IsQueue(t, e)'
    BY <1>2, <1>7, IsQueueKept DEF IsRest
  <2>2. QED
    BY <1>6, <2>1, StartsNext DEF OldOK
<1>10. FinishesOld(e)'
  <2>1. Running(e) = {}
    BY <1>1 DEF FinishesOld
  <2>2. R(e)' = 0 /\ Running(e)' = {}
    BY <1>7, <2>1, FS_EmptySet DEF R
  <2>3. HandlersQueueNothing /\ queue'[e] = <<>> /\ ~Doing("start")' /\ T(e)' = 0
    BY <1>1, <1>5, <1>6, StartsNext DEF FinishesOld
  <2>4. QED
    BY <2>2, <2>3 DEF FinishesOld
<1>11. FinishEnds(loop, e, t)'
  BY <1>1, <1>3, <1>5, <1>8, <1>9, <1>10 DEF FinishEnds
<1>12. LoopOK(<<>>, loop)'
  <2>1. (\E f \in Elements, s \in Seq(Items \cup {"inprogress"}) : FinishEnds(loop, f, s))'
    BY <1>2, <1>11 DEF IsRest
  <2>2. QED
    BY <2>1 DEF LoopOK
<1>13. finishing' \subseteq Elements
  BY <1>1, <1>5
<1>14. QED
  BY <1>6, <1>7, <1>12, <1>13, LoopStep

\* It starts an animation.
LEMMA FinishOldStarts ==
    ASSUME IInv, NEW X, NEW L, NEW e \in Elements,
           NEW old \in Seq(Items \cup {"inprogress"}), FinishOldAt(X, L, e, old),
           FinishOld, old # <<>>, Head(old) \in Items, item[Head(old)].kind = "anim"
    PROVE  IInv'
<1>1. /\ LoopAt(X, L) /\ Job = <<"finishOld", e, old>>
      /\ todo = <<<<"finishOld", e, old>>>>
      /\ AtLoop(X, L) /\ NoShorts /\ StateOK /\ finishing \subseteq Elements
      /\ finishing = {e} /\ OthersOrdinary(e) /\ FinishesOld(e) /\ OldOK(e, old)
  BY DEF FinishOldAt, FinishEnds, LoopAt
<1>2. PICK t : t = Tail(old) /\ IsRest(t, old, e)
  BY <1>1, OldRest DEF OldOK
<1>3. PICK i \in Items : i = Head(old) /\ Pending(i, e) /\ item[i].kind = "anim"
  BY <1>1, OldRest DEF OldOK
<1>4. PICK short, loop : short = <<<<"start", i>>>> /\ loop = <<<<"finishOld", e, t>>>>
  OBVIOUS
<1>5. LoopJobs(loop) /\ loop \in Seq(JobSet)
  <2>1. <<"finishOld", e, t>> \in JobSet
    BY <1>2, JobTypes DEF IsRest
  <2>2. LoopJobs(loop)
    BY <1>4, <2>1, LoopJobsOne DEF ShortKinds
  <2>3. QED
    BY <2>2 DEF LoopJobs
<1>6. OnlyJob(short, "start", i) /\ short \in Seq(JobSet)
  <2>1. <<"start", i>> \in JobSet
    BY JobTypes
  <2>2. OnlyJob(short, "start", i)
    BY <1>4, <2>1, CountJob
  <2>3. QED
    BY <2>2 DEF OnlyJob
<1>7. /\ todo' = short \o loop /\ item' = item /\ hooks' = hooks
      /\ queue' = queue /\ finishing' = finishing /\ timers' = timers /\ interval' = interval
  <2>1. Job[2] = e /\ Job[3] = old /\ Tail(todo) = <<>>
    BY <1>1
  <2>2. /\ Then(<<<<"start", Head(Job[3])>>>> \o <<<<"finishOld", Job[2], Tail(Job[3])>>>>)
        /\ item' = item /\ hooks' = hooks
        /\ queue' = queue /\ finishing' = finishing /\ timers' = timers /\ interval' = interval
    BY <2>1 DEF FinishOld
  <2>3. Then(short \o loop)
    BY <1>2, <1>3, <1>4, <2>1, <2>2, Zenon
  <2>4. short \o loop \in Seq(JobSet)
    BY <1>5, <1>6, ConcatProperties
  <2>5. QED
    BY <2>1, <2>2, <2>3, <2>4, ConcatEmptySeq DEF Then
<1>8. StartsWith(todo') /\ Doing("start")' /\ Job' = <<"start", i>>
  <2>1. todo' = <<<<"start", i>>, <<"finishOld", e, t>>>>
    BY <1>4, <1>7, InFront, Zenon
  <2>2. todo' # <<>> /\ Head(todo') = <<"start", i>>
    BY <2>1
  <2>3. QED
    BY <2>2 DEF StartsWith, Doing, Idle, Job
<1>9. \A f \in Elements : D(f)' = 0 /\ U(f)' = 0
  <2>1. ASSUME NEW f \in Elements
        PROVE  Count(todo', <<"dequeue", f>>) = 0 /\ Count(todo', <<"unqueued", f>>) = 0
    <3>1. /\ Count(todo', <<"dequeue", f>>) =
                Count(short, <<"dequeue", f>>) + Count(loop, <<"dequeue", f>>)
          /\ Count(todo', <<"unqueued", f>>) =
                Count(short, <<"unqueued", f>>) + Count(loop, <<"unqueued", f>>)
      BY <1>5, <1>6, <1>7, CountConcat
    <3>2. Count(loop, <<"dequeue", f>>) = 0 /\ Count(loop, <<"unqueued", f>>) = 0
      BY <1>5, LoopCount
    <3>3. Count(short, <<"dequeue", f>>) = 0 /\ Count(short, <<"unqueued", f>>) = 0
      BY <1>6 DEF OnlyJob
    <3>4. QED
      BY <3>1, <3>2, <3>3
  <2>2. QED
    BY <2>1 DEF D, U
<1>10. /\ StateOK' /\ AllPending
       /\ \A f \in Elements : Running(f)' = Running(f) /\ R(f)' = R(f) /\ R(f) \in Nat
  BY <1>1, <1>7, <1>9, LoopSame
<1>11. item[i].elem = e /\ item[i].queued /\ item[i].st = "waiting"
  BY <1>3 DEF Pending
<1>12. T(e)' = 1 /\ \A f \in Elements \ {e} : T(f)' = 0
  <2>1. item'[Job'[2]].elem = e /\ item'[Job'[2]].queued
    BY <1>7, <1>8, <1>11
  <2>2. QED
    BY <1>8, <2>1 DEF T
<1>13. OthersOrdinary(e)'
  BY <1>1, <1>7, <1>9, <1>10, <1>12, LoopOthers
<1>14. Short(short)'
  <2>1. ASSUME NEW f \in Elements, NEW m \in DOMAIN queue[f]
        PROVE  queue[f][m] # i
    <3>1. SUFFICES ASSUME queue[f][m] = i
                   PROVE  FALSE
      OBVIOUS
    <3>2. QueueOK(f)
      BY <1>1 DEF StateOK, QueuesOK
    <3>3. Pending(i, f)
      BY <3>1, <3>2, FxAssumption DEF QueueOK, IsQueue
    <3>4. f = e
      BY <1>11, <3>3 DEF Pending
    <3>5. queue[f] = <<>>
      BY <1>1, <3>4 DEF FinishesOld
    <3>6. QED
      BY <2>1, <3>5
  <2>2. StartOK(i)'
    BY <1>7, <1>11, <2>1 DEF StartOK
  <2>3. ShortOK(<<"start", i>>)'
    BY <2>2 DEF ShortOK
  <2>4. DOMAIN short = {1} /\ short[1] = <<"start", i>>
    BY <1>4
  <2>5. QED
    BY <1>6, <2>3, <2>4 DEF Short
<1>15. OldOK(e, t)'
  <2>1. IsQueue(t, e)'
    BY <1>2, <1>10, IsQueueKept DEF IsRest
  <2>2. \A m \in DOMAIN t : t[m] # Job'[2]
    BY <1>2, <1>3, <1>8 DEF IsRest
  <2>3. QED
    BY <2>1, <2>2 DEF OldOK
<1>16. FinishesOld(e)'
  <2>1. Running(e) = {}
    BY <1>1 DEF FinishesOld
  <2>2. R(e)' = 0 /\ Running(e)' = {}
    BY <1>10, <2>1, FS_EmptySet DEF R
  <2>3. HandlersQueueNothing /\ queue'[e] = <<>> /\ item'[Job'[2]].kind = "anim"
    BY <1>1, <1>3, <1>7, <1>8 DEF FinishesOld
  <2>4. R(e)' + T(e)' <= 1
    BY <1>12, <2>2
  <2>5. QED
    BY <2>2, <2>3, <2>4 DEF FinishesOld
<1>17. FinishEnds(loop, e, t)'
  BY <1>1, <1>4, <1>7, <1>13, <1>15, <1>16 DEF FinishEnds
<1>18. LoopOK(short, loop)'
  <2>1. (\E f \in Elements, s \in Seq(Items \cup {"inprogress"}) : FinishEnds(loop, f, s))'
    BY <1>2, <1>17 DEF IsRest
  <2>2. QED
    BY <2>1 DEF LoopOK
<1>19. finishing' \subseteq Elements
  BY <1>1, <1>7
<1>20. QED
  BY <1>5, <1>7, <1>10, <1>14, <1>18, <1>19, LoopStep

\* The loop of finish over the queue it found keeps IInv.
LEMMA FinishOldStep ==
    ASSUME IInv, FinishOld
    PROVE  IInv'
<1>1. PICK X, L : \E e \in Elements, old \in Seq(Items \cup {"inprogress"}) :
            FinishOldAt(X, L, e, old)
  BY FinishOldIs
<1>2. PICK e \in Elements, old \in Seq(Items \cup {"inprogress"}) : FinishOldAt(X, L, e, old)
  BY <1>1
<1>3. CASE old = <<>>
  BY <1>2, <1>3, FinishOldOver
<1>4. CASE old # <<>> /\ ~(Head(old) \in Items /\ item[Head(old)].kind = "anim")
  BY <1>2, <1>4, FinishOldPasses
<1>5. CASE old # <<>> /\ Head(old) \in Items /\ item[Head(old)].kind = "anim"
  BY <1>2, <1>5, FinishOldStarts
<1>6. QED
  BY <1>3, <1>4, <1>5

\* What becomes of the items when finish is called: the delay that runs is
\* rejected, and what still runs has its timer.
FinishesItems(e) ==
    /\ ItemsOK' /\ TimersOK' /\ HooksOK' /\ AllPending /\ NoDelayRuns(e)'
    /\ \A f \in Elements \ {e} : Running(f)' = Running(f)
    /\ Running(e)' \subseteq Running(e)

\* A finish without a delay that runs turns nothing;
LEMMA FinishNoDelay ==
    ASSUME StateOK, NoShorts, NEW e \in Elements, hooks[e].stop = None, item' = item,
           hooks' = hooks, timers' = timers, interval' = interval,
           \A f \in Elements : U(f)' = 0
    PROVE  FinishesItems(e)
<1>1. ItemsOK /\ TimersOK /\ HooksOK /\ \A f \in Elements : StopOK(f) /\ CountOK(f)
  BY DEF StateOK, HooksOK
<1>2. /\ AllPending /\ ItemsOK' /\ TimersOK'
      /\ \A f \in Elements : Running(f)' = Running(f)
  BY <1>1, SameKept, TimersSame
<1>3. HooksOK'
  <2>1. HooksAlike
    BY <1>1 DEF HooksOK, HooksAlike
  <2>2. QED
    BY <1>1, <2>1, LoopHooks
<1>4. NoDelayRuns(e)'
  <2>1. ASSUME NEW i \in Items, item[i].kind = "delay", item[i].elem = e
        PROVE  item[i].st # "running"
    BY <1>1, <2>1, FxAssumption DEF StopOK
  <2>2. QED
    BY <2>1 DEF NoDelayRuns
<1>5. QED
  BY <1>2, <1>3, <1>4 DEF FinishesItems

\* one with a delay stops that one and nothing else.
LEMMA FinishDelay ==
    ASSUME StateOK, NoShorts, NEW e \in Elements, NEW i \in Items, hooks[e].stop = i,
           item' = [item EXCEPT ![i].st = "rejected"],
           hooks' = hooks, timers' = timers, interval' = interval,
           \A f \in Elements : U(f)' = 0
    PROVE  FinishesItems(e)
<1>1. /\ ItemsOK /\ TimersOK /\ HooksOK /\ \A f \in Elements : StopOK(f) /\ CountOK(f)
      /\ hooks \in [Elements -> HookSet]
  BY DEF StateOK, HooksOK
<1>2. item[i].kind = "delay" /\ item[i].elem = e /\ Started(i) /\ item[i].queued
  <2>1. i # None
    BY FxAssumption
  <2>2. item[i].kind = "delay" /\ item[i].elem = e /\ Started(i)
    BY <1>1, <2>1 DEF StopOK
  <2>3. QED
    BY <1>1, <2>2 DEF ItemsOK, ItemOK
<1>3. PICK s \in EndStates : s = "rejected"
  BY DEF EndStates
<1>4. Turns(i, s) /\ ItemsOK'
  <2>1. item[i].kind # None
    BY <1>2, FxAssumption
  <2>2. item' = [item EXCEPT ![i].st = s] /\ s # "running"
    BY <1>3
  <2>3. QED
    BY <1>1, <2>1, <2>2, StTurns
<1>5. AllPending
  <2>1. ASSUME NEW k \in Items, NEW f \in Elements, Pending(k, f)
        PROVE  Pending(k, f)'
    <3>1. k # i
      BY <1>2, <2>1 DEF Pending, Started
    <3>2. item'[k] = item[k]
      BY <1>4, <3>1 DEF Turns
    <3>3. QED
      BY <2>1, <3>2 DEF Pending
  <2>2. QED
    BY <2>1 DEF AllPending
<1>6. TimersOK'
  BY <1>1, <1>3, <1>4, TimersTurn
<1>7. ASSUME NEW f \in Elements
      PROVE  StopOK(f)'
  BY <1>1, <1>3, <1>4, StopTurn
<1>8. ASSUME NEW f \in Elements
      PROVE  CountOK(f)'
  <2>1. PICK n \in {0, 1} : n = 0
    OBVIOUS
  <2>2. n = (IF s = "running" THEN 1 ELSE 0)
    BY <1>3, <2>1
  <2>3. U(f) = 0 /\ U(f)' = 0 /\ U(f) \in Nat /\ U(f)' \in Nat
    BY DEF NoShorts
  <2>4. hooks[f].unqueued \in Nat /\ hooks'[f].unqueued = hooks[f].unqueued
    BY <1>1 DEF HookSet
  <2>5. QED
    BY <1>1, <1>2, <1>4, <2>2, <2>3, <2>4, CountTurn
<1>9. HooksOK'
  BY <1>1, <1>7, <1>8 DEF HooksOK
<1>10. ASSUME NEW f \in Elements
       PROVE  Running(f)' = Running(f) \ {i} /\ (f # e => i \notin Running(f))
  BY <1>1, <1>2, <1>3, <1>4, TurnsSets DEF Running
<1>11. NoDelayRuns(e)'
  <2>1. ASSUME NEW j \in Items, item'[j].kind = "delay", item'[j].elem = e
        PROVE  item'[j].st # "running"
    <3>1. CASE j = i
      BY <1>3, <1>4, <3>1 DEF Turns
    <3>2. CASE j # i
      <4>1. item'[j] = item[j]
        BY <1>4, <3>2 DEF Turns
      <4>2. QED
        BY <1>1, <2>1, <3>2, <4>1 DEF StopOK
    <3>3. QED
      BY <3>1, <3>2
  <2>2. QED
    BY <2>1 DEF NoDelayRuns
<1>12. QED
  BY <1>4, <1>5, <1>6, <1>9, <1>10, <1>11 DEF FinishesItems

\* finish is called between two turns, and its first loop begins.
LEMMA FinishStep ==
    ASSUME CarefulUses, IInv, NEW e \in Elements, Finish(e)
    PROVE  IInv'
<1>1. Idle /\ HandlersQueueNothing
  <2>1. May("finish")
    BY DEF Finish
  <2>2. "finish" \in Stopping
    BY DEF Stopping
  <2>3. QED
    BY <2>1, <2>2, StoppingContext
<1>2. PICK X, L : Turn(X, L)
  BY DEF IInv
<1>3. /\ AtLoop(X, L) /\ NoShorts /\ AllOrdinary /\ finishing = {} /\ todo = <<>>
  BY <1>1, <1>2, IdleIsCalm DEF Calm, AtLoop, Idle
<1>4. /\ StateOK /\ ItemsOK /\ QueuesOK /\ TimersOK /\ NothingQueued /\ Len(timers) \in Nat
  BY LenProperties DEF IInv, StateOK, TimersOK
<1>5. PICK n \in Nat : n = Len(timers)
  BY <1>4
<1>6. PICK old : old = queue[e]
  OBVIOUS
<1>7. old \in Seq(Items \cup {"inprogress"}) /\ IsQueue(old, e)
  BY <1>4, <1>6 DEF QueuesOK, QueueOK
<1>8. PICK loop : loop = <<<<"finishTimers", e, n>>, <<"finishOld", e, old>>>>
  OBVIOUS
<1>9. LoopJobs(loop)
  <2>1. <<"finishTimers", e, n>> \in JobSet /\ <<"finishOld", e, old>> \in JobSet
    BY <1>7, JobTypes
  <2>2. QED
    BY <1>8, <2>1, LoopJobsTwo DEF ShortKinds
<1>10. /\ todo' = loop /\ finishing' = {e} /\ queue' = [queue EXCEPT ![e] = <<>>]
       /\ item' = (IF hooks[e].stop = None THEN item
                   ELSE [item EXCEPT ![hooks[e].stop].st = "rejected"])
       /\ hooks' = hooks /\ timers' = timers /\ interval' = interval
  <2>1. /\ Call(<<<<"finishTimers", e, Len(timers)>>, <<"finishOld", e, queue[e]>>>>)
        /\ finishing' = finishing \cup {e} /\ queue' = [queue EXCEPT ![e] = <<>>]
        /\ item' = (IF hooks[e].stop = None THEN item
                    ELSE [item EXCEPT ![hooks[e].stop].st = "rejected"])
        /\ hooks' = hooks /\ timers' = timers /\ interval' = interval
    BY DEF Finish
  <2>2. Call(loop)
    BY <1>5, <1>6, <1>8, <2>1, Zenon
  <2>3. QED
    BY <1>3, <1>9, <2>1, <2>2, ConcatEmptySeq DEF Call, LoopJobs
<1>11. /\ todo' = <<>> \o loop /\ Short(<<>>)' /\ loop \in Seq(JobSet) /\ ~StartsWith(todo')
       /\ \A f \in Elements : D(f)' = 0 /\ U(f)' = 0 /\ T(f)' = 0
  BY <1>9, <1>10, LoopOnly
<1>12. FinishesItems(e)
  <2>1. CASE hooks[e].stop = None
    BY <1>3, <1>4, <1>10, <1>11, <2>1, FinishNoDelay
  <2>2. CASE hooks[e].stop # None
    <3>1. PICK i : i = hooks[e].stop
      OBVIOUS
    <3>2. i \in Items
      BY <1>4, <2>2, <3>1 DEF StateOK, HooksOK, HookSet
    <3>3. item' = [item EXCEPT ![i].st = "rejected"]
      BY <1>10, <2>2, <3>1
    <3>4. QED
      BY <1>3, <1>4, <1>10, <1>11, <3>1, <3>2, <3>3, FinishDelay
  <2>3. QED
    BY <2>1, <2>2
<1>13. /\ ItemsOK' /\ TimersOK' /\ HooksOK' /\ AllPending /\ NoDelayRuns(e)'
       /\ \A f \in Elements \ {e} : Running(f)' = Running(f)
       /\ Running(e)' \subseteq Running(e)
  BY <1>12 DEF FinishesItems
<1>14. queue'[e] = <<>> /\ \A f \in Elements \ {e} : queue'[f] = queue[f]
  BY <1>4, <1>10 DEF QueuesOK
<1>15. QueuesOK'
  <2>1. ASSUME NEW f \in Elements
        PROVE  QueueOK(f)'
    <3>1. CASE f = e
      BY <1>14, <3>1, EmptyQueue
    <3>2. CASE f # e
      <4>1. QueueOK(f)
        BY <1>4 DEF QueuesOK
      <4>2. QED
        BY <1>13, <1>14, <3>2, <4>1, QueueKept
    <3>3. QED
      BY <3>1, <3>2
  <2>2. queue' \in [Elements -> Seq(Items \cup {"inprogress"})]
    BY <1>4, <1>10, EmptySeq DEF QueuesOK
  <2>3. QED
    BY <2>1, <2>2 DEF QueuesOK
<1>16. NothingQueued'
  BY <1>4, <1>14 DEF NothingQueued
<1>17. StateOK'
  BY <1>13, <1>15, <1>16 DEF StateOK
<1>18. OthersOrdinary(e)'
  <2>1. ASSUME NEW f \in Elements \ {e}
        PROVE  queue'[f] = queue[f] /\ R(f)' = R(f) /\ D(f)' = 0 /\ T(f)' = 0
    BY <1>11, <1>13, <1>14 DEF R
  <2>2. OthersOrdinary(e)
    BY <1>3 DEF AllOrdinary, OthersOrdinary
  <2>3. QED
    BY <1>3, <2>1, <2>2, LoopOthers
<1>19. R(e)' <= 1
  <2>1. R(e) \in Nat /\ D(e) = 0 /\ T(e) = 0 /\ Ordinary(e)
    BY <1>3, CardinalityTypes DEF R, NoShorts, AllOrdinary
  <2>2. R(e) <= 1
    BY <2>1 DEF Ordinary
  <2>3. R(e)' <= R(e) /\ R(e)' \in Nat
    <3>1. IsFiniteSet(Running(e)) /\ Cardinality(Running(e)') \in Nat
      BY CardinalityTypes
    <3>2. Cardinality(Running(e)') <= Cardinality(Running(e))
      BY <1>13, <3>1, FS_Subset
    <3>3. QED
      BY <3>1, <3>2 DEF R
  <2>4. QED
    BY <2>1, <2>2, <2>3
<1>20. Below(e, n)'
  <2>1. ASSUME NEW i \in Running(e)'
        PROVE  \E m \in 1..n : timers'[m] = i
    <3>1. i \in Items /\ item'[i].st = "running" /\ item'[i].elem = e
      BY <2>1 DEF Running
    <3>2. item'[i].kind = "anim"
      <4>1. /\ item' \in [Items -> ItemSet]
            /\ (item'[i].kind = None <=> item'[i].st = "new")
        BY <1>13, <3>1 DEF ItemsOK, ItemOK
      <4>2. item'[i].kind # "delay"
        BY <1>13, <3>1 DEF NoDelayRuns
      <4>3. QED
        BY <3>1, <4>1, <4>2 DEF ItemSet
    <3>3. \E m \in DOMAIN timers' : timers'[m] = i
      BY <1>13, <3>1, <3>2 DEF TimersOK
    <3>4. DOMAIN timers' = 1..n
      BY <1>4, <1>5, <1>10, LenProperties DEF TimersOK
    <3>5. QED
      BY <3>3, <3>4
  <2>2. QED
    BY <2>1 DEF Below
<1>21. Finishes(e, n)'
  BY <1>1, <1>11, <1>14, <1>19, <1>20 DEF Finishes, Halting
<1>22. OldOK(e, old)'
  <2>1. IsQueue(old, e)'
    BY <1>7, <1>13, IsQueueKept
  <2>2. QED
    BY <1>11, <2>1, StartsNext DEF OldOK
<1>23. FinishGoesOn(loop, e, n, old)'
  <2>1. n <= Len(timers') /\ FinishAt(loop, e, n, old)'
    BY <1>5, <1>8, <1>10 DEF FinishAt
  <2>2. QED
    BY <1>10, <1>18, <1>21, <1>22, <2>1 DEF FinishGoesOn
<1>24. LoopOK(<<>>, loop)'
  <2>1. (\E f \in Elements, m \in Nat, s \in Seq(Items \cup {"inprogress"}) :
            FinishGoesOn(loop, f, m, s))'
    BY <1>7, <1>23
  <2>2. QED
    BY <2>1 DEF LoopOK
<1>25. finishing' \subseteq Elements
  BY <1>10
<1>26. QED
  BY <1>11, <1>17, <1>24, <1>25, LoopStep

-----------------------------------------------------------------------------
(* The invariant, and what follows from it.                                *)

\* The invariant holds before the first call.
LEMMA InitInvariant ==
    ASSUME Init
    PROVE  IInv
<1>1. /\ item = [i \in Items |-> NoItem] /\ queue = [e \in Elements |-> <<>>]
      /\ hooks = [e \in Elements |-> NoHooks] /\ finishing = {} /\ timers = <<>>
      /\ interval = FALSE /\ todo = <<>>
  BY DEF Init
<1>2. NoItem \in ItemSet
  BY DEF NoItem, ItemSet
<1>3. \A i \in Items : item[i].kind = None /\ item[i].st = "new" /\ ~item[i].stopped
  BY <1>1 DEF NoItem
<1>4. ItemsOK
  BY <1>1, <1>2, <1>3, FxAssumption DEF ItemsOK, ItemOK
<1>5. QueuesOK
  <2>1. \A e \in Elements : queue[e] = <<>>
    BY <1>1
  <2>2. queue \in [Elements -> Seq(Items \cup {"inprogress"})]
    BY <1>1, EmptySeq
  <2>3. <<>> \in Seq(Items \cup {"inprogress"}) /\ DOMAIN <<>> = {}
    BY EmptySeq
  <2>4. QED
    BY <2>1, <2>2, <2>3 DEF QueuesOK, QueueOK, IsQueue
<1>6. TimersOK
  <2>1. timers \in Seq(Items) /\ DOMAIN timers = {}
    BY <1>1, EmptySeq
  <2>2. QED
    BY <1>1, <1>3, <2>1 DEF TimersOK
<1>7. ASSUME NEW e \in Elements
      PROVE  Running(e) = {} /\ RunningUnqueued(e) = {}
  BY <1>3 DEF Running, RunningUnqueued
<1>8. ASSUME NEW e \in Elements
      PROVE  StopOK(e) /\ CountOK(e)
  <2>1. hooks[e].stop = None /\ hooks[e].unqueued = 0
    BY <1>1 DEF NoHooks
  <2>2. StopOK(e)
    BY <1>3, <2>1 DEF StopOK
  <2>3. Cardinality(RunningUnqueued(e)) = 0 /\ Count(todo, <<"unqueued", e>>) = 0
    BY <1>1, <1>7, CountEmpty, FS_EmptySet
  <2>4. Cardinality(StartedUnqueued(e)) \in Nat
    BY CardinalityTypes
  <2>5. QED
    BY <2>1, <2>2, <2>3, <2>4 DEF CountOK
<1>9. HooksOK
  <2>1. NoHooks \in HookSet
    BY DEF NoHooks, HookSet
  <2>2. QED
    BY <1>1, <1>8, <2>1 DEF HooksOK
<1>10. StateOK
  BY <1>1, <1>4, <1>5, <1>6, <1>9 DEF StateOK, NothingQueued
<1>11. ASSUME NEW e \in Elements
       PROVE  Ordinary(e)
  <2>1. R(e) = 0
    BY <1>7, FS_EmptySet DEF R
  <2>2. T(e) = 0
    BY <1>1 DEF T, Doing, Idle
  <2>3. D(e) = 0
    BY <1>1, CountEmpty DEF D
  <2>4. queue[e] = <<>>
    BY <1>1
  <2>5. QED
    BY <2>1, <2>2, <2>3, <2>4 DEF Ordinary
<1>12. PICK X : X = <<>>
  OBVIOUS
<1>13. Turn(X, X)
  <2>1. Calm(X)
    BY <1>1, <1>11, <1>12 DEF Calm, CalmLoop, AllOrdinary
  <2>2. X \in Seq(JobSet) /\ DOMAIN X = {} /\ todo = X \o X
    BY <1>1, <1>12, EmptySeq, ConcatEmptySeq
  <2>3. QED
    BY <2>1, <2>2 DEF Turn, Short, LoopOK
<1>14. \E Y, L : Turn(Y, L)
  BY <1>13
<1>15. QED
  BY <1>1, <1>10, <1>14 DEF IInv

\* So it does where nothing happens.
LEMMA StutterInvariant ==
    ASSUME IInv, UNCHANGED vars
    PROVE  IInv'
<1>1. /\ item' = item /\ queue' = queue /\ hooks' = hooks /\ finishing' = finishing
      /\ timers' = timers /\ interval' = interval /\ todo' = todo
  BY DEF vars
<1>2. PICK X, L : Turn(X, L)
  BY DEF IInv
<1>3. /\ \A e \in Elements : Running(e)' = Running(e) /\ R(e)' = R(e)
      /\ \A e \in Elements : T(e)' = T(e) /\ D(e)' = D(e) /\ U(e)' = U(e)
  BY <1>1, SameKept DEF T, D, U, Doing, Idle, Job
<1>4. Idle' = Idle /\ Job' = Job
  BY <1>1 DEF Idle, Job
<1>5. StateOK'
  <2>1. ItemsOK /\ QueuesOK /\ TimersOK /\ HooksOK /\ NothingQueued
    BY DEF IInv, StateOK
  <2>2. ItemsOK' /\ QueuesOK' /\ TimersOK' /\ NothingQueued'
    BY <1>1, <2>1, SameKept, QueuesSame, TimersSame DEF NothingQueued
  <2>3. ASSUME NEW e \in Elements
        PROVE  StopOK(e)' /\ CountOK(e)'
    BY <1>1, <1>3, <2>1, StopSame, CountSame DEF HooksOK
  <2>4. HooksOK'
    BY <1>1, <2>1, <2>3 DEF HooksOK
  <2>5. QED
    BY <2>2, <2>4 DEF StateOK
<1>6. Short(X)'
  <2>1. ASSUME NEW j, ShortOK(j)
        PROVE  ShortOK(j)'
    BY <1>1, <2>1 DEF ShortOK, StartOK, HandlerOK, Started
  <2>2. QED
    BY <1>2, <2>1 DEF Turn, Short
<1>7. \A e \in Elements : Ordinary(e) => Ordinary(e)'
  BY <1>1, <1>3, <1>4 DEF Ordinary
<1>8. \A e \in Elements : OthersOrdinary(e) => OthersOrdinary(e)'
  BY <1>7 DEF OthersOrdinary
<1>9. \A e \in Elements, k \in Nat : Halting(e, k) => Halting(e, k)'
  BY <1>1, <1>3 DEF Halting, Below
<1>10. \A k : Over(k) => Over(k)'
  BY <1>1 DEF Over, Settled
<1>11. \A e \in Elements, k \in Nat, g \in BOOLEAN : Stops(e, k, g) => Stops(e, k, g)'
  BY <1>1, <1>3, <1>9 DEF Stops, NoDelays
<1>12. \A e \in Elements : \A old : OldOK(e, old) => OldOK(e, old)'
  <2>1. AllPending
    BY <1>1, SameKept
  <2>2. ASSUME NEW e \in Elements, NEW old, OldOK(e, old)
        PROVE  OldOK(e, old)'
    <3>1. IsQueue(old, e)'
      BY <2>1, <2>2, IsQueueKept DEF OldOK
    <3>2. Doing("start")' = Doing("start")
      BY <1>4 DEF Doing
    <3>3. QED
      BY <1>4, <2>2, <3>1, <3>2 DEF OldOK
  <2>3. QED
    BY <2>2
<1>13. ASSUME Calm(L)
       PROVE  Calm(L)'
  BY <1>1, <1>7, <1>10, <1>13 DEF Calm, CalmLoop, AllOrdinary
<1>14. ASSUME NEW e \in Elements, NEW g \in BOOLEAN, StopBegins(X, L, e, g)
       PROVE  StopBegins(X, L, e, g)'
  <2>1. PICK n \in Nat : n = Len(timers)
    BY LenProperties DEF IInv, StateOK, TimersOK
  <2>2. Stops(e, n, g)' /\ Halting(e, n)'
    BY <1>9, <1>11, <1>14, <2>1 DEF StopBegins
  <2>3. Stops(e, Len(timers), g)' /\ Halting(e, Len(timers))'
    BY <1>1, <2>1, <2>2 DEF Stops, Halting, Below
  <2>4. QED
    BY <1>1, <1>8, <1>14, <2>3 DEF StopBegins
<1>15. ASSUME NEW e \in Elements, NEW k \in Nat, NEW g \in BOOLEAN, NEW d \in BOOLEAN,
              StopGoesOn(X, L, e, k, g, d)
       PROVE  StopGoesOn(X, L, e, k, g, d)'
  BY <1>1, <1>8, <1>9, <1>10, <1>11, <1>15 DEF StopGoesOn, StopAt
<1>16. ASSUME NEW e \in Elements, NEW k \in Nat, NEW old, FinishGoesOn(L, e, k, old)
       PROVE  FinishGoesOn(L, e, k, old)'
  BY <1>1, <1>8, <1>9, <1>10, <1>12, <1>16 DEF FinishGoesOn, FinishAt, Finishes
<1>17. ASSUME NEW e \in Elements, NEW old, FinishEnds(L, e, old)
       PROVE  FinishEnds(L, e, old)'
  <2>1. FinishesOld(e)'
    BY <1>1, <1>3, <1>4, <1>17 DEF FinishEnds, FinishesOld, Doing
  <2>2. QED
    BY <1>1, <1>8, <1>12, <1>17, <2>1 DEF FinishEnds
<1>18. LoopOK(X, L)'
  BY <1>2, <1>13, <1>14, <1>15, <1>16, <1>17 DEF Turn, LoopOK
<1>19. Turn(X, L)'
  BY <1>1, <1>2, <1>6, <1>18 DEF Turn
<1>20. (\E Y, M : Turn(Y, M))'
  BY <1>19
<1>21. QED
  BY <1>1, <1>5, <1>20 DEF IInv

\* No handler throws.
LEMMA NothingThrows ==
    ASSUME CarefulUses
    PROVE  ~HandlerThrows
BY DEF HandlerThrows, InHandler, Doing, May, CarefulUses

\* It is kept by every step.
LEMMA NextInvariant ==
    ASSUME CarefulUses, IInv, Next
    PROVE  IInv'
<1>1. CASE Use
  <2>1. ASSUME NEW e \in Elements, NEW i \in Items, NEW instant \in BOOLEAN, Animate(e, i, instant)
        PROVE  IInv'
    BY <2>1, AnimateStep
  <2>2. ASSUME NEW e \in Elements, NEW i \in Items, NEW instant \in BOOLEAN,
               AnimateUnqueued(e, i, instant)
        PROVE  IInv'
    BY <2>2, UnqueuedStep
  <2>3. ASSUME NEW e \in Elements, NEW i \in Items, Delay(e, i)
        PROVE  IInv'
    BY <2>3, DelayStep
  <2>4. ASSUME NEW e \in Elements, PromiseOf(e)
        PROVE  IInv'
    BY <2>4, PromiseStep
  <2>5. ASSUME NEW e \in Elements, ClearQueue(e)
        PROVE  IInv'
    BY <2>5, ClearStep
  <2>6. ASSUME NEW e \in Elements, Finish(e)
        PROVE  IInv'
    BY <2>6, FinishStep
  <2>7. ASSUME NEW e \in Elements, NEW clear \in BOOLEAN, NEW gotoEnd \in BOOLEAN,
               Stop(e, clear, gotoEnd)
        PROVE  IInv'
    BY <2>7, StopStep
  <2>8. ASSUME NEW e \in Elements, NEW i \in Items, AnimateEmpty(e, i)
        PROVE  IInv'
    BY <2>8, EmptyStep
  <2>9. QED
    BY <1>1, <2>1, <2>2, <2>3, <2>4, <2>5, <2>6, <2>7, <2>8 DEF Use
<1>2. CASE Continue
  <2>1. CASE HandlerReturns \/ HandlerThrows
    <3>1. ~HandlerThrows
      BY NothingThrows
    <3>2. QED
      BY <2>1, <3>1, HandlerReturnsStep
  <2>2. CASE Dequeue
    BY <2>2, DequeueStep
  <2>3. CASE StartDelay
    BY <2>3, StartDelayStep
  <2>4. CASE StartAnimation
    BY <2>4, StartAnimationStep
  <2>5. CASE ForcedEnd
    BY <2>5, ForcedEndStep
  <2>6. CASE UnqueuedEnds
    BY <2>6, UnqueuedEndsStep
  <2>7. CASE TickGoesOn
    BY <2>7, TickGoesOnStep
  <2>8. CASE TickOver
    BY <2>8, TickOverStep
  <2>9. CASE TickRemoves
    BY <2>9, TickRemovesStep
  <2>10. CASE TickEnds
    BY <2>10, TickEndsStep
  <2>11. CASE StopHooks
    BY <2>11, StopHooksStep
  <2>12. CASE StopTimers
    BY <2>12, StopTimersStep
  <2>13. CASE Splice
    BY <2>13, SpliceStep
  <2>14. CASE FinishTimers
    BY <2>14, FinishTimersStep
  <2>15. CASE FinishOld
    BY <2>15, FinishOldStep
  <2>16. QED
    BY <1>2, <2>1, <2>2, <2>3, <2>4, <2>5, <2>6, <2>7, <2>8, <2>9, <2>10, <2>11, <2>12, <2>13,
       <2>14, <2>15 DEF Continue
<1>3. CASE TickBegins
  BY <1>3, TickBeginsStep
<1>4. CASE \E i \in Items : DelayEnds(i)
  BY <1>4, DelayEndsStep
<1>5. QED
  BY <1>1, <1>2, <1>3, <1>4 DEF Next

\* One of an element runs at most.
LEMMA OneRuns ==
    ASSUME IInv, NEW e \in Elements
    PROVE  Cardinality(Running(e)) <= 1
<1>1. PICK X, L : Turn(X, L)
  BY DEF IInv
<1>2. R(e) \in Nat /\ T(e) \in {0, 1} /\ D(e) \in Nat
  <2>1. todo \in Seq(JobSet)
    BY <1>1, TopJob
  <2>2. QED
    BY <2>1, CardinalityTypes, CountType DEF R, T, D
<1>3. \/ Ordinary(e)
      \/ \E k \in Nat, g \in BOOLEAN : Stops(e, k, g)
      \/ \E k \in Nat : Finishes(e, k)
      \/ FinishesOld(e)
      \/ \E g \in BOOLEAN : Stops(e, Len(timers), g)
  BY <1>1, Modes
<1>4. R(e) <= 1
  BY <1>2, <1>3 DEF Ordinary, Stops, Finishes, FinishesOld, Halting
<1>5. QED
  BY <1>4 DEF R

\* Between two turns, something runs exactly if the sentinel is there.
LEMMA IdleSentinel ==
    ASSUME IInv, Idle, NEW e \in Elements
    PROVE  SentinelFirst(queue[e]) <=> Running(e) # {}
<1>1. PICK X, L : Turn(X, L)
  BY DEF IInv
<1>2. Ordinary(e) /\ D(e) = 0 /\ T(e) = 0
  BY <1>1, IdleIsCalm DEF Calm, AllOrdinary, AtLoop, NoShorts
<1>3. R(e) \in Nat
  BY CardinalityTypes DEF R
<1>4. R(e) # 0 <=> queue[e] # <<>>
  BY <1>2, <1>3 DEF Ordinary
<1>5. queue[e] # <<>> <=> SentinelFirst(queue[e])
  BY <1>2 DEF Ordinary, SentinelFirst
<1>6. R(e) = 0 <=> Running(e) = {}
  BY NoneRuns, FS_EmptySet DEF R
<1>7. QED
  BY <1>4, <1>5, <1>6

\* The inductive invariant implies FxInv.
LEMMA InvariantImplies ==
    ASSUME IInv
    PROVE  FxInv
<1>1. /\ StateOK /\ ItemsOK /\ QueuesOK /\ TimersOK /\ HooksOK
      /\ finishing \subseteq Elements
  BY DEF IInv, StateOK
<1>2. TypeOK
  <2>1. ASSUME NEW e \in Elements
        PROVE  /\ queue[e] \in Seq(Items \cup {"inprogress"})
               /\ hooks[e].unqueued \in 0..Cardinality(Items)
               /\ hooks[e].stop \in Items \cup {None}
    <3>1. hooks[e] \in HookSet /\ CountOK(e)
      BY <1>1 DEF HooksOK
    <3>2. hooks[e].unqueued \in Nat /\ hooks[e].stop \in Items \cup {None}
      BY <3>1 DEF HookSet
    <3>3. /\ Cardinality(StartedUnqueued(e)) \in Nat
          /\ Cardinality(StartedUnqueued(e)) <= Cardinality(Items)
      BY CardinalityTypes
    <3>4. Cardinality(Items) \in Nat
      BY FS_CardinalityType, FxAssumption
    <3>5. hooks[e].unqueued \in 0..Cardinality(Items)
      BY <3>1, <3>2, <3>3, <3>4 DEF CountOK
    <3>6. QED
      BY <1>1, <3>2, <3>5 DEF QueuesOK
  <2>2. QED
    BY <1>1, <2>1 DEF TypeOK, TimersOK
<1>3. OneAtATime
  BY OneRuns DEF OneAtATime
<1>4. SentinelMeansRunning
  BY IdleSentinel DEF SentinelMeansRunning
<1>5. RunningIsDriven
  <2>1. ASSUME NEW i \in Items, item[i].kind = "anim", item[i].st = "running"
        PROVE  Cardinality({n \in DOMAIN timers : timers[n] = i}) = 1
    <3>1. PICK m \in DOMAIN timers : timers[m] = i
      BY <1>1, <2>1 DEF TimersOK
    <3>2. {n \in DOMAIN timers : timers[n] = i} = {m}
      BY <1>1, <3>1 DEF TimersOK
    <3>3. QED
      BY <3>2, FS_Singleton
  <2>2. QED
    BY <1>1, <2>1 DEF RunningIsDriven, TimersOK
<1>6. QED
  BY <1>2, <1>3, <1>4, <1>5 DEF FxInv

\* The inductive invariant holds in every state, where the uses are careful.
THEOREM Inductive ==
    ASSUME CarefulUses
    PROVE  Spec => []IInv
<1>1. Init => IInv
  BY InitInvariant
<1>2. IInv /\ [Next]_vars => IInv'
  BY NextInvariant, StutterInvariant
<1>3. QED
  BY <1>1, <1>2, PTL DEF Spec

\* "Add a progress sentinel to prevent the fx queue from being automatically
\* dequeued": what is queued for an element runs one at a time; between two
\* turns the sentinel is there exactly while it does, and what runs has its
\* timer, with the interval on.
THEOREM FxCorrect ==
    ASSUME CarefulUses
    PROVE  Spec => []FxInv
<1>1. IInv => FxInv
  BY InvariantImplies
<1>2. QED
  BY <1>1, Inductive, PTL

-----------------------------------------------------------------------------
(* Completion handlers, and the calls that go on after them.               *)

Later(s, n, j) == \E m \in DOMAIN s : m > n /\ s[m] = j
Earlier(s, n, j) == \E m \in DOMAIN s : m < n /\ s[m] = j

\* The call that goes on after the handler of i, at n in s, is after it, and for
\* a queued animation none is before it.
GoesOn(s, i, n) ==
    LET e == item[i].elem IN
    \/ /\ item[i].queued /\ Later(s, n, <<"dequeue", e>>)
       /\ ~Earlier(s, n, <<"dequeue", e>>) /\ ~Earlier(s, n, <<"unqueued", e>>)
    \/ ~item[i].queued /\ Later(s, n, <<"unqueued", e>>)

\* So it is for the handlers of s, but for elements that are being stopped; and
\* ends are forced only where finish does it.
Fit(s) ==
    /\ \A i \in Items, n \in DOMAIN s :
        s[n] = <<"handler", i>> => BeingStopped(item[i].elem) \/ GoesOn(s, i, n)
    /\ \A i \in Items, n \in DOMAIN s : s[n] = <<"force", i>> => item[i].elem \in finishing

\* The jobs come before those of todo, or those but the first.
Pushed(c, jobs) ==
    /\ Len(todo) \in Nat /\ c <= Len(todo) /\ DOMAIN todo = 1..Len(todo)
    /\ Len(jobs) \in Nat /\ DOMAIN jobs = 1..Len(jobs)
    /\ DOMAIN todo' = 1..(Len(jobs) + Len(todo) - c)
    /\ \A n \in 1..Len(jobs) : todo'[n] = jobs[n]
    /\ \A n \in (c + 1)..Len(todo) : todo'[n + Len(jobs) - c] = todo[n]

\* That is what Then does.
LEMMA ThenPushes ==
    ASSUME todo \in Seq(JobSet), ~Idle, NEW jobs \in Seq(JobSet), Then(jobs)
    PROVE  Pushed(1, jobs)
<1>1. /\ todo # <<>> /\ Tail(todo) \in Seq(JobSet) /\ Len(Tail(todo)) = Len(todo) - 1
      /\ Len(todo) \in Nat /\ Len(todo) > 0 /\ DOMAIN todo = 1..Len(todo)
      /\ \A n \in 1..Len(Tail(todo)) : Tail(todo)[n] = todo[n + 1]
  BY HeadTailProperties, LenProperties, EmptySeq DEF Idle
<1>2. PICK t : t = Tail(todo)
  OBVIOUS
<1>3. /\ Len(jobs) \in Nat /\ DOMAIN jobs = 1..Len(jobs)
  BY LenProperties
<1>4. /\ todo' = jobs \o t /\ Len(jobs \o t) = Len(jobs) + Len(t)
      /\ jobs \o t \in Seq(JobSet)
      /\ \A n \in 1..(Len(jobs) + Len(t)) : (jobs \o t)[n] =
            IF n <= Len(jobs) THEN jobs[n] ELSE t[n - Len(jobs)]
  BY <1>1, <1>2, ConcatProperties DEF Then
<1>5. DOMAIN todo' = 1..(Len(jobs) + Len(t))
  BY <1>4, LenProperties
<1>6. /\ Len(t) = Len(todo) - 1
      /\ \A n \in 1..Len(t) : t[n] = todo[n + 1]
  BY <1>1, <1>2
<1>7. \A n \in 1..Len(jobs) : todo'[n] = jobs[n]
  BY <1>1, <1>3, <1>4, <1>6
<1>8. ASSUME NEW n \in 2..Len(todo)
      PROVE  todo'[n + Len(jobs) - 1] = todo[n]
  <2>1. PICK m : m = n - 1
    OBVIOUS
  <2>2. m \in 1..Len(t) /\ n = m + 1
    BY <1>1, <1>6, <2>1
  <2>3. todo'[m + Len(jobs)] = t[m]
    BY <1>3, <1>4, <1>1, <1>6, <2>2
  <2>4. t[m] = todo[n] /\ n + Len(jobs) - 1 = m + Len(jobs)
    BY <1>3, <1>6, <2>2
  <2>5. QED
    BY <2>3, <2>4
<1>9. QED
  BY <1>1, <1>3, <1>5, <1>6, <1>7, <1>8 DEF Pushed

\* So does Call, which keeps all of todo.
LEMMA CallPushes ==
    ASSUME todo \in Seq(JobSet), NEW jobs \in Seq(JobSet), Call(jobs)
    PROVE  Pushed(0, jobs)
<1>1. /\ Len(todo) \in Nat /\ DOMAIN todo = 1..Len(todo)
      /\ Len(jobs) \in Nat /\ DOMAIN jobs = 1..Len(jobs)
  BY LenProperties
<1>2. /\ todo' = jobs \o todo /\ Len(jobs \o todo) = Len(jobs) + Len(todo)
      /\ jobs \o todo \in Seq(JobSet)
      /\ \A n \in 1..(Len(jobs) + Len(todo)) : (jobs \o todo)[n] =
            IF n <= Len(jobs) THEN jobs[n] ELSE todo[n - Len(jobs)]
  BY ConcatProperties DEF Call
<1>3. DOMAIN todo' = 1..(Len(jobs) + Len(todo))
  BY <1>2, LenProperties
<1>4. \A n \in 1..Len(jobs) : todo'[n] = jobs[n]
  BY <1>1, <1>2
<1>5. ASSUME NEW n \in 1..Len(todo)
      PROVE  todo'[n + Len(jobs)] = todo[n]
  <2>1. PICK m : m = n + Len(jobs)
    OBVIOUS
  <2>2. /\ m \in 1..(Len(jobs) + Len(todo)) /\ ~(m <= Len(jobs)) /\ m - Len(jobs) = n
    BY <1>1, <2>1
  <2>3. QED
    BY <1>2, <2>1, <2>2
<1>6. QED
  BY <1>1, <1>3, <1>4, <1>5 DEF Pushed

\* What an item is stays the same.
Alike ==
    \A i \in Items : item[i].kind # None =>
        /\ item'[i].kind = item[i].kind /\ item'[i].elem = item[i].elem
        /\ item'[i].queued = item[i].queued /\ item'[i].instant = item[i].instant

Adds(jobs, e) ==
    \E m \in DOMAIN jobs : jobs[m] = <<"dequeue", e>> \/ jobs[m] = <<"unqueued", e>>

\* What was to be done fits behind the jobs.
Undisturbed(c, jobs) ==
    \A i \in Items, n \in DOMAIN todo : n > c =>
        /\ todo[n] = <<"force", i>> => item[i].elem \in finishing'
        /\ todo[n] = <<"handler", i>> =>
            \/ BeingStopped(item[i].elem)'
            \/ /\ ~BeingStopped(item[i].elem)
               /\ item[i].queued => ~Adds(jobs, item[i].elem)

\* The handlers and forced ends among the jobs are of animations that started.
LEMMA EndsOfStarted ==
    ASSUME IInv, NEW n \in DOMAIN todo, NEW i \in Items,
           todo[n] = <<"handler", i>> \/ todo[n] = <<"force", i>>
    PROVE  HandlerOK(i) /\ item[i].kind # None /\ item[i] \in ItemSet
<1>1. PICK X, L : Turn(X, L)
  BY DEF IInv
<1>2. /\ X \in Seq(JobSet) /\ L \in Seq(JobSet) /\ todo = X \o L /\ LoopJobs(L) /\ Short(X)
  BY <1>1, TopJob, LoopIsJobs DEF Turn
<1>3. /\ Len(X) \in Nat /\ Len(L) \in Nat /\ DOMAIN X = 1..Len(X) /\ DOMAIN L = 1..Len(L)
      /\ n \in 1..(Len(X) + Len(L))
      /\ todo[n] = IF n <= Len(X) THEN X[n] ELSE L[n - Len(X)]
  BY <1>2, LenProperties, ConcatProperties
<1>4. todo[n][1] \in ShortKinds
  BY DEF ShortKinds
<1>5. n \in DOMAIN X /\ todo[n] = X[n]
  BY <1>2, <1>3, <1>4 DEF LoopJobs
<1>6. ShortOK(todo[n])
  BY <1>2, <1>5 DEF Short
<1>7. HandlerOK(i)
  <2>1. PICK j : j = todo[n]
    OBVIOUS
  <2>2. j[1] \in HandlerKinds \cup {"force"} /\ j[2] = i
    BY <2>1 DEF HandlerKinds
  <2>3. QED
    BY <1>6, <2>1, <2>2, ShortFacts
<1>8. QED
  BY <1>7, FxAssumption DEF HandlerOK, IInv, StateOK, ItemsOK

\* Jobs that fit, before jobs that fit, fit.
LEMMA PushFits ==
    ASSUME IInv, Fit(todo), NEW c \in {0, 1}, NEW jobs \in Seq(JobSet), Pushed(c, jobs),
           Alike, Fit(jobs)', Undisturbed(c, jobs)
    PROVE  Fit(todo)'
<1>1. PICK l \in Nat, t \in Nat : l = Len(jobs) /\ t = Len(todo)
  BY DEF Pushed
<1>2. /\ DOMAIN todo = 1..t /\ DOMAIN jobs = 1..l /\ c <= t
      /\ DOMAIN todo' = 1..(l + t - c)
      /\ \A n \in 1..l : todo'[n] = jobs[n]
      /\ \A n \in (c + 1)..t : todo'[n + l - c] = todo[n]
  BY <1>1 DEF Pushed
<1>3. ASSUME NEW n \in DOMAIN todo', n > l
      PROVE  \E m \in DOMAIN todo : m > c /\ n = m + l - c /\ todo'[n] = todo[m]
  <2>1. PICK m : m = n - l + c
    OBVIOUS
  <2>2. n \in 1..(l + t - c) /\ c \in Int
    BY <1>2
  <2>3. m \in (c + 1)..t /\ n = m + l - c
    BY <1>3, <2>1, <2>2
  <2>4. m \in DOMAIN todo
    BY <1>2, <2>3
  <2>5. QED
    BY <1>2, <2>3, <2>4
<1>4. ASSUME NEW i \in Items, NEW n \in DOMAIN todo', todo'[n] = <<"handler", i>>
      PROVE  BeingStopped(item[i].elem)' \/ GoesOn(todo, i, n)'
  <2>1. CASE n <= l
    <3>1. n \in DOMAIN jobs /\ jobs[n] = <<"handler", i>>
      BY <1>2, <1>4, <2>1
    <3>2. BeingStopped(item[i].elem)' \/ GoesOn(jobs, i, n)'
      BY <3>1 DEF Fit
    <3>3. ASSUME NEW j, Later(jobs, n, j)
          PROVE  Later(todo', n, j)
      BY <1>2, <3>3 DEF Later
    <3>4. ASSUME NEW j, Earlier(todo', n, j)
          PROVE  Earlier(jobs, n, j)
      BY <1>2, <2>1, <3>4 DEF Earlier
    <3>5. CASE GoesOn(jobs, i, n)'
      BY <3>3, <3>4, <3>5 DEF GoesOn
    <3>6. QED
      BY <3>2, <3>5
  <2>2. CASE n > l
    <3>1. PICK m \in DOMAIN todo : m > c /\ n = m + l - c /\ todo'[n] = todo[m]
      BY <1>3, <2>2
    <3>2. todo[m] = <<"handler", i>>
      BY <1>4, <3>1
    <3>3. item[i].kind # None
      BY <3>2, EndsOfStarted
    <3>4. item'[i].elem = item[i].elem /\ item'[i].queued = item[i].queued
      BY <3>3 DEF Alike
    <3>5. \/ BeingStopped(item[i].elem)'
          \/ /\ ~BeingStopped(item[i].elem)
             /\ item[i].queued => ~Adds(jobs, item[i].elem)
      BY <3>1, <3>2 DEF Undisturbed
    <3>6. CASE /\ ~BeingStopped(item[i].elem)
               /\ item[i].queued => ~Adds(jobs, item[i].elem)
      <4>1. GoesOn(todo, i, m)
        BY <3>2, <3>6 DEF Fit
      <4>2. ASSUME NEW j, Later(todo, m, j)
            PROVE  Later(todo', n, j)
        <5>1. PICK p \in DOMAIN todo : p > m /\ todo[p] = j
          BY <4>2 DEF Later
        <5>2. p \in (c + 1)..t
          BY <1>2, <3>1, <5>1
        <5>3. todo'[p + l - c] = j /\ p + l - c \in DOMAIN todo' /\ p + l - c > n
          BY <1>2, <3>1, <5>1, <5>2
        <5>4. QED
          BY <5>3 DEF Later
      <4>3. ASSUME NEW j, Earlier(todo', n, j)
            PROVE  Earlier(todo, m, j) \/ \E p \in DOMAIN jobs : jobs[p] = j
        <5>1. PICK p \in DOMAIN todo' : p < n /\ todo'[p] = j
          BY <4>3 DEF Earlier
        <5>2. CASE p <= l
          BY <1>2, <5>1, <5>2
        <5>3. CASE p > l
          <6>1. PICK k \in DOMAIN todo : k > c /\ p = k + l - c /\ todo'[p] = todo[k]
            BY <1>3, <5>3
          <6>2. k < m
            BY <1>2, <3>1, <5>1, <6>1
          <6>3. QED
            BY <5>1, <6>1, <6>2 DEF Earlier
        <5>4. QED
          BY <1>2, <5>1, <5>2, <5>3
      <4>4. CASE item[i].queued
        <5>1. /\ Later(todo, m, <<"dequeue", item[i].elem>>)
              /\ ~Earlier(todo, m, <<"dequeue", item[i].elem>>)
              /\ ~Earlier(todo, m, <<"unqueued", item[i].elem>>)
          BY <4>1, <4>4 DEF GoesOn
        <5>2. /\ Later(todo', n, <<"dequeue", item[i].elem>>)
              /\ ~Earlier(todo', n, <<"dequeue", item[i].elem>>)
              /\ ~Earlier(todo', n, <<"unqueued", item[i].elem>>)
          BY <3>6, <4>2, <4>3, <4>4, <5>1 DEF Adds
        <5>3. QED
          BY <3>4, <4>4, <5>2 DEF GoesOn
      <4>5. CASE ~item[i].queued
        <5>1. Later(todo', n, <<"unqueued", item[i].elem>>)
          BY <4>1, <4>2, <4>5 DEF GoesOn
        <5>2. QED
          BY <3>4, <4>5, <5>1 DEF GoesOn
      <4>6. QED
        BY <4>4, <4>5
    <3>7. CASE BeingStopped(item[i].elem)'
      BY <3>7
    <3>8. QED
      BY <3>5, <3>6, <3>7
  <2>3. QED
    BY <1>2, <2>1, <2>2
<1>5. ASSUME NEW i \in Items, NEW n \in DOMAIN todo', todo'[n] = <<"force", i>>
      PROVE  item'[i].elem \in finishing'
  <2>1. CASE n <= l
    BY <1>2, <1>5, <2>1 DEF Fit
  <2>2. CASE n > l
    <3>1. PICK m \in DOMAIN todo : m > c /\ todo'[n] = todo[m]
      BY <1>3, <2>2
    <3>2. item[i].elem \in finishing' /\ item[i].kind # None
      BY <1>5, <3>1, EndsOfStarted DEF Undisturbed
    <3>3. QED
      BY <3>2 DEF Alike
  <2>3. QED
    BY <1>2, <2>1, <2>2
<1>6. QED
  BY <1>4, <1>5 DEF Fit

\* Whoever is being stopped still is, unless it was the loop of stop that did the
\* step.
LEMMA StoppedKept ==
    ASSUME todo \in Seq(JobSet), NEW c \in {0, 1}, NEW jobs, Pushed(c, jobs),
           finishing' = finishing,
           c = 1 => Job[1] \notin {"stopHooks", "stopTimers"},
           NEW e, BeingStopped(e)
    PROVE  BeingStopped(e)'
<1>1. CASE e \in finishing
  BY <1>1 DEF BeingStopped
<1>2. CASE e \notin finishing
  <2>1. PICK n \in DOMAIN todo : todo[n][1] \in {"stopHooks", "stopTimers"} /\ todo[n][2] = e
    BY <1>2 DEF BeingStopped
  <2>2. n > c
    <3>1. CASE n = 1 /\ c = 1
      <4>1. Job = todo[1]
        BY <2>1, <3>1 DEF Job
      <4>2. QED
        BY <2>1, <3>1, <4>1
    <3>2. CASE ~(n = 1 /\ c = 1)
      <4>1. n \in Int /\ n >= 1
        BY <2>1 DEF Pushed
      <4>2. QED
        BY <3>2, <4>1
    <3>3. QED
      BY <3>1, <3>2
  <2>3. PICK l \in Nat, t \in Nat : l = Len(jobs) /\ t = Len(todo)
    BY DEF Pushed
  <2>4. /\ n \in 1..t /\ c \in Int /\ c <= t /\ DOMAIN todo' = 1..(l + t - c)
        /\ \A m \in (c + 1)..t : todo'[m + l - c] = todo[m]
    BY <2>1, <2>3 DEF Pushed
  <2>5. n + l - c \in DOMAIN todo' /\ todo'[n + l - c] = todo[n]
    <3>1. n \in (c + 1)..t /\ n + l - c \in 1..(l + t - c)
      BY <2>2, <2>3, <2>4
    <3>2. QED
      BY <2>4, <3>1
  <2>6. QED
    BY <2>1, <2>5 DEF BeingStopped
<1>3. QED
  BY <1>1, <1>2

\* Jobs that go on with no queue of a handler that is still to be done disturb
\* nothing.
LEMMA ShortUndisturbed ==
    ASSUME IInv, Fit(todo), NEW c \in {0, 1}, NEW jobs, Pushed(c, jobs), todo \in Seq(JobSet),
           Alike, finishing' = finishing,
           c = 1 => Job[1] \notin {"stopHooks", "stopTimers"},
           \A e \in Elements : Adds(jobs, e) =>
                \/ BeingStopped(e)
                \/ \A i \in Items, n \in DOMAIN todo :
                    todo[n] = <<"handler", i>> /\ item[i].elem = e => ~item[i].queued
    PROVE  Undisturbed(c, jobs)
<1>1. ASSUME NEW i \in Items, NEW n \in DOMAIN todo, n > c, todo[n] = <<"force", i>>
      PROVE  item[i].elem \in finishing'
  BY <1>1 DEF Fit
<1>2. ASSUME NEW i \in Items, NEW n \in DOMAIN todo, n > c, todo[n] = <<"handler", i>>
      PROVE  \/ BeingStopped(item[i].elem)'
             \/ /\ ~BeingStopped(item[i].elem)
                /\ item[i].queued => ~Adds(jobs, item[i].elem)
  <2>1. CASE BeingStopped(item[i].elem)
    <3>1. PICK e : e = item[i].elem
      OBVIOUS
    <3>2. BeingStopped(e)'
      BY <2>1, <3>1, StoppedKept
    <3>3. QED
      <4>1. item'[i].elem = e
        BY <1>2, <3>1, EndsOfStarted DEF Alike
      <4>2. QED
        BY <3>2, <4>1
  <2>2. CASE ~BeingStopped(item[i].elem)
    <3>1. item[i].elem \in Elements
      BY <1>2, EndsOfStarted DEF IInv, StateOK, ItemsOK, ItemOK
    <3>2. QED
      BY <1>2, <2>2, <3>1
  <2>3. QED
    BY <2>1, <2>2
<1>3. QED
  BY <1>1, <1>2 DEF Undisturbed

\* Where there are no short jobs there is nothing to disturb,
LEMMA LoopFits ==
    ASSUME NEW X, NEW L, AtLoop(X, L)
    PROVE  /\ todo \in Seq(JobSet) /\ LoopJobs(todo)
           /\ \A i, n : n \in DOMAIN todo => todo[n] # <<"handler", i>> /\ todo[n] # <<"force", i>>
           /\ \A c, jobs : Undisturbed(c, jobs)
<1>1. todo \in Seq(JobSet) /\ LoopJobs(todo)
  BY DEF AtLoop
<1>2. ASSUME NEW i, NEW n \in DOMAIN todo
      PROVE  todo[n] # <<"handler", i>> /\ todo[n] # <<"force", i>>
  <2>1. todo[n][1] \notin ShortKinds
    BY <1>1 DEF LoopJobs
  <2>2. QED
    BY <2>1 DEF ShortKinds
<1>3. QED
  BY <1>1, <1>2 DEF Undisturbed

\* and jobs without a handler or a forced end fit.
LEMMA NoneFits ==
    ASSUME NEW s,
           \A i, n : n \in DOMAIN s => s[n] # <<"handler", i>> /\ s[n] # <<"force", i>>
    PROVE  Fit(s) /\ Fit(s)'
BY DEF Fit

\* What an animation that settles leads to fits, if it is brought to its end or
\* its element is being stopped.
LEMMA SettleFits ==
    ASSUME NEW i \in Items, NEW o, NEW e, e = item[i].elem, item'[i].elem = e,
           item[i].queued \in BOOLEAN, item'[i].queued = item[i].queued,
           o = "resolved" \/ BeingStopped(e)',
           NEW s \in Seq(JobSet), s = SettleJobs(i, o),
           NEW t \in Seq(JobSet), Fit(t)',
           \A k, n : n \in DOMAIN t => t[n] # <<"handler", k>>,
           NEW jobs, jobs = s \o t
    PROVE  Fit(jobs)'
<1>1. PICK a \in Nat, b \in Nat : a = Len(s) /\ b = Len(t)
  BY LenProperties
<1>2. /\ DOMAIN s = 1..a /\ DOMAIN t = 1..b /\ DOMAIN jobs = 1..(a + b)
      /\ \A n \in 1..(a + b) : jobs[n] = IF n <= a THEN s[n] ELSE t[n - a]
  BY <1>1, LenProperties, ConcatProperties
<1>3. \/ s = <<>> /\ a = 0
      \/ /\ item[i].queued /\ o = "resolved" /\ a = 3
         /\ s[1] = <<"handler", i>> /\ s[2] = <<"dequeue", e>> /\ s[3] = <<"always", i>>
      \/ /\ ~item[i].queued /\ a = 2
         /\ s[1] = <<"handler", i>> /\ s[2] = <<"unqueued", e>>
      \/ /\ a = 1 /\ s[1] = <<"handler", i>> /\ BeingStopped(e)'
  BY <1>1 DEF SettleJobs, AfterHandlers
<1>4. ASSUME NEW k \in Items, NEW n \in DOMAIN jobs, jobs[n] = <<"handler", k>>
      PROVE  BeingStopped(item[k].elem)' \/ GoesOn(jobs, k, n)'
  <2>1. n <= a
    <3>1. SUFFICES ASSUME n > a PROVE FALSE
      BY <1>1, <1>2
    <3>2. n - a \in DOMAIN t /\ t[n - a] = <<"handler", k>>
      BY <1>2, <1>4, <3>1
    <3>3. QED
      BY <3>2
  <2>2. n \in 1..a /\ s[n] = <<"handler", k>>
    BY <1>2, <1>4, <2>1
  <2>3. n = 1 /\ k = i /\ a # 0
    BY <1>3, <2>2
  <2>4. 1 \in DOMAIN jobs /\ \A m \in DOMAIN jobs : ~(m < 1)
    BY <1>2, <2>3
  <2>5. ASSUME NEW j
        PROVE  ~Earlier(jobs, 1, j)
    BY <2>4 DEF Earlier
  <2>6. CASE item[i].queued /\ o = "resolved" /\ a = 3 /\ s[2] = <<"dequeue", e>>
    <3>1. 2 \in DOMAIN jobs /\ jobs[2] = <<"dequeue", e>>
      BY <1>2, <2>6
    <3>2. Later(jobs, 1, <<"dequeue", e>>)
      <4>1. \E m \in DOMAIN jobs : m > 1 /\ jobs[m] = <<"dequeue", e>>
        <5>1. 2 > 1
          OBVIOUS
        <5>2. QED
          BY <3>1, <5>1
      <4>2. QED
        BY <4>1 DEF Later
    <3>3. QED
      BY <2>3, <2>5, <2>6, <3>2 DEF GoesOn
  <2>7. CASE ~item[i].queued /\ a = 2 /\ s[2] = <<"unqueued", e>>
    <3>1. 2 \in DOMAIN jobs /\ jobs[2] = <<"unqueued", e>>
      BY <1>2, <2>7
    <3>2. Later(jobs, 1, <<"unqueued", e>>)
      <4>1. \E m \in DOMAIN jobs : m > 1 /\ jobs[m] = <<"unqueued", e>>
        <5>1. 2 > 1
          OBVIOUS
        <5>2. QED
          BY <3>1, <5>1
      <4>2. QED
        BY <4>1 DEF Later
    <3>3. QED
      BY <2>3, <2>5, <2>7, <3>2 DEF GoesOn
  <2>8. CASE BeingStopped(e)'
    BY <2>3, <2>8
  <2>9. QED
    BY <1>3, <2>3, <2>6, <2>7, <2>8
<1>5. ASSUME NEW k \in Items, NEW n \in DOMAIN jobs, jobs[n] = <<"force", k>>
      PROVE  item'[k].elem \in finishing'
  <2>1. CASE n <= a
    <3>1. n \in 1..a /\ s[n] = <<"force", k>>
      BY <1>2, <1>5, <2>1
    <3>2. QED
      BY <1>3, <3>1
  <2>2. CASE n > a
    <3>1. n - a \in DOMAIN t /\ t[n - a] = <<"force", k>>
      BY <1>2, <1>5, <2>2
    <3>2. QED
      BY <3>1 DEF Fit
  <2>3. QED
    BY <1>1, <1>2, <2>1, <2>2
<1>6. QED
  BY <1>4, <1>5 DEF Fit

\* Instant animations are queued, or called with no properties, and such calls
\* are not used with handlers that dequeue themselves.
OrderlyUses ==
    /\ "instant unqueued" \notin PageUses \cup HandlerUses
    /\ "empty" \in PageUses \cup HandlerUses => HandlerUses \cap Dequeueing = {}

\* No animation calls the end of an unqueued one at once, and where handlers
\* dequeue, all are unqueued.
Kinds ==
    \A i \in Items : item[i].kind # None =>
        /\ item[i].instant => item[i].queued
        /\ HandlerUses \cap Dequeueing # {} => ~item[i].queued

EndsInv == Fit(todo) /\ Kinds

\* Only one item changes, and not what it is.
Changes(i) ==
    /\ \A k \in Items : k # i => item'[k] = item[k]
    /\ item'[i].kind = item[i].kind /\ item'[i].elem = item[i].elem
    /\ item'[i].queued = item[i].queued /\ item'[i].instant = item[i].instant

\* Items that stay what they are keep their kinds right.
LEMMA ChangesAlike ==
    ASSUME NEW i \in Items, Changes(i)
    PROVE  Alike /\ (Kinds => Kinds')
<1>1. ASSUME NEW k \in Items
      PROVE  /\ item'[k].kind = item[k].kind /\ item'[k].elem = item[k].elem
             /\ item'[k].queued = item[k].queued /\ item'[k].instant = item[k].instant
  <2>1. CASE k = i
    BY <2>1 DEF Changes
  <2>2. CASE k # i
    BY <2>2 DEF Changes
  <2>3. QED
    BY <2>1, <2>2
<1>2. Alike
  BY <1>1 DEF Alike
<1>3. Kinds => Kinds'
  BY <1>1 DEF Kinds
<1>4. QED
  BY <1>2, <1>3

\* So do items that stay as they are.
LEMMA SameAlike ==
    ASSUME item' = item
    PROVE  Alike /\ (Kinds => Kinds')
BY DEF Alike, Kinds

\* An item that goes on, settles or is stopped stays what it is.
LEMMA ItemChanges ==
    ASSUME ItemsOK, NEW i \in Items
    PROVE  /\ \A s : item' = [item EXCEPT ![i].st = s] => Changes(i)
           /\ item' = [item EXCEPT ![i].ticks = @ + 1] => Changes(i)
           /\ \A g : item' = [item EXCEPT ![i] = Stopped(i, g)] => Changes(i)
<1>1. item \in [Items -> ItemSet] /\ item[i] \in ItemSet
  BY DEF ItemsOK
<1>2. ASSUME NEW s, item' = [item EXCEPT ![i].st = s]
      PROVE  Changes(i)
  <2>1. item'[i] = [item[i] EXCEPT !.st = s] /\ \A k \in Items : k # i => item'[k] = item[k]
    BY <1>1, <1>2
  <2>2. QED
    BY <1>1, <2>1 DEF Changes, ItemSet
<1>3. ASSUME item' = [item EXCEPT ![i].ticks = @ + 1]
      PROVE  Changes(i)
  <2>1. /\ item'[i] = [item[i] EXCEPT !.ticks = @ + 1]
        /\ \A k \in Items : k # i => item'[k] = item[k]
    BY <1>1, <1>3
  <2>2. QED
    BY <1>1, <2>1 DEF Changes, ItemSet
<1>4. ASSUME NEW g, item' = [item EXCEPT ![i] = Stopped(i, g)]
      PROVE  Changes(i)
  <2>1. item'[i] = Stopped(i, g) /\ \A k \in Items : k # i => item'[k] = item[k]
    BY <1>1, <1>4
  <2>2. QED
    BY <1>1, <2>1 DEF Changes, ItemSet, Stopped
<1>5. QED
  BY <1>2, <1>3, <1>4

\* A new item does not change the others.
LEMMA NewKinds ==
    ASSUME NEW i \in Items, item[i].kind = None, \A k \in Items : k # i => item'[k] = item[k],
           item'[i].instant => item'[i].queued,
           HandlerUses \cap Dequeueing # {} => ~item'[i].queued
    PROVE  Alike /\ (Kinds => Kinds')
<1>1. Alike
  BY DEF Alike
<1>2. ASSUME Kinds, NEW k \in Items, item'[k].kind # None
      PROVE  /\ item'[k].instant => item'[k].queued
             /\ HandlerUses \cap Dequeueing # {} => ~item'[k].queued
  BY <1>2 DEF Kinds
<1>3. QED
  BY <1>1, <1>2 DEF Kinds

\* Whatever is not being stopped is ordinary.
LEMMA NotStopped ==
    ASSUME NEW X, NEW L, Turn(X, L), NEW e \in Elements, ~BeingStopped(e)
    PROVE  Ordinary(e)
<1>1. /\ X \in Seq(JobSet) /\ L \in Seq(JobSet) /\ todo = X \o L /\ LoopOK(X, L)
  BY TopJob DEF Turn
<1>2. ASSUME NEW m \in DOMAIN L
      PROVE  \E n \in DOMAIN todo : todo[n] = L[m]
  <2>1. PICK a \in Nat, b \in Nat : a = Len(X) /\ b = Len(L)
    BY <1>1, LenProperties
  <2>2. /\ DOMAIN X = 1..a /\ DOMAIN L = 1..b /\ DOMAIN todo = 1..(a + b)
        /\ \A n \in 1..(a + b) : todo[n] = IF n <= a THEN X[n] ELSE L[n - a]
    BY <1>1, <2>1, LenProperties, ConcatProperties
  <2>3. PICK n : n = m + a
    OBVIOUS
  <2>4. n \in 1..(a + b) /\ ~(n <= a) /\ n - a = m
    BY <2>1, <2>2, <2>3
  <2>5. QED
    BY <2>2, <2>4
<1>3. ASSUME NEW m \in DOMAIN L, L[m][1] \in {"stopHooks", "stopTimers"}
      PROVE  L[m][2] # e
  BY <1>2, <1>3 DEF BeingStopped
<1>4. CASE Calm(L)
  BY <1>4 DEF Calm, AllOrdinary
<1>5. CASE \E f \in Elements, g \in BOOLEAN : StopBegins(X, L, f, g)
  <2>1. PICK f \in Elements, g \in BOOLEAN : StopBegins(X, L, f, g)
    BY <1>5
  <2>2. f # e
    BY <1>3, <2>1 DEF StopBegins
  <2>3. QED
    BY <2>1, <2>2 DEF StopBegins, OthersOrdinary
<1>6. CASE \E f \in Elements, k \in Nat, g, d \in BOOLEAN : StopGoesOn(X, L, f, k, g, d)
  <2>1. PICK f \in Elements, k \in Nat, g \in BOOLEAN, d \in BOOLEAN :
            StopGoesOn(X, L, f, k, g, d)
    BY <1>6
  <2>2. f # e
    BY <1>3, <2>1 DEF StopGoesOn, StopAt
  <2>3. QED
    BY <2>1, <2>2 DEF StopGoesOn, OthersOrdinary
<1>7. CASE \E f \in Elements, k \in Nat, old \in Seq(Items \cup {"inprogress"}) :
            FinishGoesOn(L, f, k, old)
  BY <1>7 DEF FinishGoesOn, OthersOrdinary, BeingStopped
<1>8. CASE \E f \in Elements, old \in Seq(Items \cup {"inprogress"}) : FinishEnds(L, f, old)
  BY <1>8 DEF FinishEnds, OthersOrdinary, BeingStopped
<1>9. QED
  BY <1>1, <1>4, <1>5, <1>6, <1>7, <1>8 DEF LoopOK

\* What is in a sequence is counted.
LEMMA Counted ==
    ASSUME NEW S, NEW s \in Seq(S), NEW n \in DOMAIN s
    PROVE  Count(s, s[n]) \in Nat /\ Count(s, s[n]) > 0
<1> DEFINE A == {m \in DOMAIN s : s[m] = s[n]}
<1>1. IsFiniteSet(A) /\ Count(s, s[n]) \in Nat
  BY CountType
<1>2. n \in A
  OBVIOUS
<1>3. Count(s, s[n]) # 0
  BY <1>1, <1>2, FS_EmptySet DEF Count
<1>4. QED
  BY <1>1, <1>3

\* No handler of a queued animation of e is still to be done.
NoneQueued(e) ==
    \A i \in Items, n \in DOMAIN todo :
        todo[n] = <<"handler", i>> /\ item[i].elem = e => ~item[i].queued

\* It would go with a call of dequeue.
LEMMA NoCallNoHandler ==
    ASSUME Fit(todo), todo \in Seq(JobSet), NEW e, ~BeingStopped(e), D(e) = 0
    PROVE  NoneQueued(e)
<1>1. SUFFICES ASSUME NEW i \in Items, NEW n \in DOMAIN todo, todo[n] = <<"handler", i>>,
                      item[i].elem = e, item[i].queued
               PROVE  FALSE
  BY DEF NoneQueued
<1>2. Later(todo, n, <<"dequeue", e>>)
  BY <1>1 DEF Fit, GoesOn
<1>3. PICK m \in DOMAIN todo : todo[m] = <<"dequeue", e>>
  BY <1>2 DEF Later
<1>4. QED
  BY <1>3, Counted DEF D

\* A short job that is done leaves what fits, if the jobs it leads to fit.
LEMMA ShortFits ==
    ASSUME IInv, Fit(todo), NEW X, NEW L, Turn(X, L), ~Idle, Job[1] \in ShortKinds,
           NEW jobs \in Seq(JobSet), Then(jobs), Alike, finishing' = finishing, Fit(jobs)',
           \A e \in Elements : Adds(jobs, e) => BeingStopped(e) \/ NoneQueued(e)
    PROVE  Fit(todo)'
<1>1. PICK c : c = 1
  OBVIOUS
<1>2. todo \in Seq(JobSet) /\ c \in {0, 1}
  BY <1>1, TopJob
<1>3. Pushed(c, jobs)
  BY <1>1, <1>2, ThenPushes
<1>4. Job[1] \notin {"stopHooks", "stopTimers"}
  BY DEF ShortKinds
<1>5. \A e \in Elements : Adds(jobs, e) =>
        \/ BeingStopped(e)
        \/ \A i \in Items, n \in DOMAIN todo :
            todo[n] = <<"handler", i>> /\ item[i].elem = e => ~item[i].queued
  BY DEF NoneQueued
<1>6. Undisturbed(c, jobs)
  BY <1>2, <1>3, <1>4, <1>5, ShortUndisturbed
<1>7. QED
  BY <1>2, <1>3, <1>6, PushFits

\* So does a call,
LEMMA CallFits ==
    ASSUME IInv, Fit(todo), todo \in Seq(JobSet),
           NEW jobs \in Seq(JobSet), Call(jobs), Alike, finishing' = finishing, Fit(jobs)',
           \A e \in Elements : Adds(jobs, e) => BeingStopped(e) \/ NoneQueued(e)
    PROVE  Fit(todo)'
<1>1. PICK c : c = 0
  OBVIOUS
<1>2. Pushed(c, jobs) /\ c \in {0, 1}
  BY <1>1, CallPushes
<1>3. c # 1
  BY <1>1
<1>4. \A e \in Elements : Adds(jobs, e) =>
        \/ BeingStopped(e)
        \/ \A i \in Items, n \in DOMAIN todo :
            todo[n] = <<"handler", i>> /\ item[i].elem = e => ~item[i].queued
  BY DEF NoneQueued
<1>5. Undisturbed(c, jobs)
  BY <1>2, <1>3, <1>4, ShortUndisturbed
<1>6. QED
  BY <1>2, <1>5, PushFits

\* and a job of a loop.
LEMMA LoopThenFits ==
    ASSUME IInv, Fit(todo), NEW X, NEW L, AtLoop(X, L), ~Idle,
           NEW jobs \in Seq(JobSet), Then(jobs), Alike, Fit(jobs)'
    PROVE  Fit(todo)'
<1>1. PICK c : c = 1
  OBVIOUS
<1>2. todo \in Seq(JobSet) /\ c \in {0, 1} /\ Undisturbed(c, jobs)
  BY <1>1, LoopFits
<1>3. Pushed(c, jobs)
  BY <1>1, <1>2, ThenPushes
<1>4. QED
  BY <1>2, <1>3, PushFits

\* A call outside of all jobs.
LEMMA IdleCallFits ==
    ASSUME IInv, Fit(todo), Idle, NEW jobs \in Seq(JobSet), Call(jobs), Alike, Fit(jobs)'
    PROVE  Fit(todo)'
<1>1. PICK c : c = 0
  OBVIOUS
<1>2. PICK X, L : Turn(X, L)
  BY DEF IInv
<1>3. AtLoop(X, L)
  BY <1>2, IdleIsCalm
<1>4. todo \in Seq(JobSet) /\ c \in {0, 1} /\ Undisturbed(c, jobs)
  BY <1>1, <1>3, LoopFits
<1>5. Pushed(c, jobs)
  BY <1>1, <1>4, CallPushes
<1>6. QED
  BY <1>4, <1>5, PushFits

\* None of the jobs is a handler, a forced end, or a call that goes on.
NoEnds(jobs) ==
    /\ jobs \in Seq(JobSet)
    /\ \A n \in DOMAIN jobs : jobs[n][1] \notin {"handler", "force", "dequeue", "unqueued"}

\* Such jobs fit and add no call.
LEMMA NoEndsFit ==
    ASSUME NEW jobs, NoEnds(jobs)
    PROVE  jobs \in Seq(JobSet) /\ Fit(jobs)' /\ \A e : ~Adds(jobs, e)
<1>1. \A i, n : n \in DOMAIN jobs => jobs[n] # <<"handler", i>> /\ jobs[n] # <<"force", i>>
  BY DEF NoEnds
<1>2. Fit(jobs)'
  BY <1>1, NoneFits
<1>3. QED
  BY <1>2 DEF NoEnds, Adds

\* No jobs, one that is neither, and those of a loop are such.
LEMMA NoEndsKinds ==
    /\ NoEnds(<<>>)
    /\ \A j \in JobSet : j[1] \notin {"handler", "force", "dequeue", "unqueued"} => NoEnds(<<j>>)
    /\ \A s : LoopJobs(s) => NoEnds(s)
<1>1. NoEnds(<<>>)
  BY EmptySeq DEF NoEnds
<1>2. ASSUME NEW j \in JobSet, j[1] \notin {"handler", "force", "dequeue", "unqueued"}
      PROVE  NoEnds(<<j>>)
  BY <1>2 DEF NoEnds
<1>3. ASSUME NEW s, LoopJobs(s)
      PROVE  NoEnds(s)
  BY <1>3 DEF NoEnds, LoopJobs, ShortKinds
<1>4. QED
  BY <1>1, <1>2, <1>3

\* The short jobs that only end, or start something.
LEMMA QuietFits ==
    ASSUME IInv, EndsInv, ~Idle, Job[1] \in ShortKinds, NEW jobs, NoEnds(jobs), Then(jobs),
           Alike, Kinds => Kinds', finishing' = finishing
    PROVE  EndsInv'
<1>1. PICK X, L : Turn(X, L)
  BY DEF IInv
<1>2. jobs \in Seq(JobSet) /\ Fit(jobs)' /\ \A e : ~Adds(jobs, e)
  BY NoEndsFit
<1>3. Fit(todo)'
  BY <1>1, <1>2, ShortFits DEF EndsInv
<1>4. QED
  BY <1>3 DEF EndsInv

\* A handler that returns, and the end of an unqueued animation.
LEMMA EndFits ==
    ASSUME IInv, EndsInv, HandlerReturns \/ UnqueuedEnds
    PROVE  EndsInv'
<1>1. ~Idle /\ Job[1] \in ShortKinds /\ Then(<<>>) /\ item' = item /\ finishing' = finishing
  BY DEF HandlerReturns, UnqueuedEnds, InHandler, Doing, ShortKinds
<1>2. QED
  BY <1>1, SameAlike, NoEndsKinds, QuietFits

\* A delay that starts.
LEMMA DelayFits ==
    ASSUME IInv, EndsInv, StartDelay
    PROVE  EndsInv'
<1>1. PICK X, L : Turn(X, L)
  BY DEF IInv
<1>2. ~Idle /\ Job[1] = "start" /\ Then(<<>>) /\ finishing' = finishing
  BY DEF StartDelay, Doing
<1>3. PICK i \in Items : Job = <<"start", i>>
  BY <1>1, <1>2, StartFacts
<1>4. item' = [item EXCEPT ![i].st = "running"]
  BY <1>3 DEF StartDelay
<1>5. Changes(i)
  BY <1>4, ItemChanges DEF IInv, StateOK
<1>6. QED
  BY <1>2, <1>5, ChangesAlike, NoEndsKinds, QuietFits DEF ShortKinds

\* A call of dequeue: what it starts is next.
LEMMA DequeueFits ==
    ASSUME IInv, EndsInv, Dequeue
    PROVE  EndsInv'
<1>1. PICK X, L : Turn(X, L)
  BY DEF IInv
<1>2. ~Idle /\ Job[1] = "dequeue" /\ item' = item /\ finishing' = finishing
  BY DEF Dequeue, Doing
<1>3. PICK e \in Elements : Job = <<"dequeue", e>>
  BY <1>1, <1>2, TopIsShort, ShortFacts DEF ShortKinds
<1>4. \/ Then(<<>>)
      \/ NextOf(e) # <<>> /\ Then(<<<<"start", Head(NextOf(e))>>>>)
  BY <1>3 DEF Dequeue, NextOf
<1>5. CASE Then(<<>>)
  BY <1>2, <1>5, SameAlike, NoEndsKinds, QuietFits DEF ShortKinds
<1>6. CASE NextOf(e) # <<>> /\ Then(<<<<"start", Head(NextOf(e))>>>>)
  <2>1. Head(NextOf(e)) \in Items
    <3>1. QueueOK(e)
      BY DEF IInv, StateOK, QueuesOK
    <3>2. PICK q : q = NextOf(e)
      OBVIOUS
    <3>3. Waiting(q, e) /\ q # <<>>
      BY <1>6, <3>1, <3>2, QueueNext
    <3>4. q \in Seq(Items \cup {"inprogress"}) /\ 1 \in DOMAIN q /\ Head(q) = q[1]
      BY <3>3 DEF Waiting, IsQueue
    <3>5. Pending(q[1], e)
      BY <3>3, <3>4 DEF Waiting, IsQueue
    <3>6. QED
      BY <3>2, <3>4, <3>5 DEF Pending
  <2>2. <<"start", Head(NextOf(e))>> \in JobSet
    BY <2>1, JobTypes
  <2>3. PICK jobs : jobs = <<<<"start", Head(NextOf(e))>>>>
    OBVIOUS
  <2>4. NoEnds(jobs)
    BY <2>2, <2>3, NoEndsKinds
  <2>5. QED
    BY <1>2, <1>6, <2>3, <2>4, SameAlike, QuietFits DEF ShortKinds
<1>7. QED
  BY <1>4, <1>5, <1>6

\* Calls that go on after a handler: none, or of one element.
AddsNone(jobs) == \A f : ~Adds(jobs, f)
AddsOnly(jobs, e) == \A f : Adds(jobs, f) => f = e
NoHandler(s) == s \in Seq(JobSet) /\ \A k, n : n \in DOMAIN s => s[n] # <<"handler", k>>

\* What two sequences add, one after the other, is what one of them does.
LEMMA AddsConcat ==
    ASSUME NEW S, NEW s \in Seq(S), NEW t \in Seq(S), NEW e, AddsOnly(s, e), AddsOnly(t, e)
    PROVE  s \o t \in Seq(S) /\ AddsOnly(s \o t, e)
<1>1. PICK a \in Nat, b \in Nat : a = Len(s) /\ b = Len(t)
  BY LenProperties
<1>2. PICK jobs : jobs = s \o t
  OBVIOUS
<1>3. /\ jobs \in Seq(S) /\ DOMAIN s = 1..a /\ DOMAIN t = 1..b /\ DOMAIN jobs = 1..(a + b)
      /\ \A n \in 1..(a + b) : jobs[n] = IF n <= a THEN s[n] ELSE t[n - a]
  BY <1>1, <1>2, LenProperties, ConcatProperties
<1>4. ASSUME NEW f, Adds(jobs, f)
      PROVE  f = e
  <2>1. PICK m \in DOMAIN jobs : jobs[m] = <<"dequeue", f>> \/ jobs[m] = <<"unqueued", f>>
    BY <1>4 DEF Adds
  <2>2. CASE m <= a
    <3>1. m \in DOMAIN s /\ jobs[m] = s[m]
      BY <1>3, <2>1, <2>2
    <3>2. Adds(s, f)
      BY <2>1, <3>1 DEF Adds
    <3>3. QED
      BY <3>2 DEF AddsOnly
  <2>3. CASE ~(m <= a)
    <3>1. m - a \in DOMAIN t /\ jobs[m] = t[m - a]
      BY <1>1, <1>3, <2>1, <2>3
    <3>2. Adds(t, f)
      BY <2>1, <3>1 DEF Adds
    <3>3. QED
      BY <3>2 DEF AddsOnly
  <2>4. QED
    BY <2>2, <2>3
<1>5. QED
  BY <1>2, <1>3, <1>4 DEF AddsOnly

\* What an animation that settles leads to goes on with its element.
LEMMA SettleAdds ==
    ASSUME ItemsOK, NEW i \in Items, item[i].kind # None, NEW e, e = item[i].elem, NEW o
    PROVE  SettleJobs(i, o) \in Seq(JobSet) /\ AddsOnly(SettleJobs(i, o), e)
<1>1. e \in Elements
  BY DEF ItemsOK, ItemOK
<1>2. /\ <<"handler", i>> \in JobSet /\ <<"unqueued", e>> \in JobSet
      /\ <<"dequeue", e>> \in JobSet
  BY <1>1, JobTypes
<1>3. AddsOnly(<<>>, e) /\ AddsOnly(<<<<"dequeue", e>>>>, e) /\ AddsOnly(<<<<"unqueued", e>>>>, e)
  BY DEF AddsOnly, Adds
<1>4. AddsOnly(<<<<"handler", i>>>>, e)
  BY DEF AddsOnly, Adds
<1>5. AfterHandlers(i, o) \in Seq(JobSet) /\ AddsOnly(AfterHandlers(i, o), e)
  <2>1. PICK s : s = <<<<"dequeue", e>>, <<"always", i>>>>
    OBVIOUS
  <2>2. <<"always", i>> \in JobSet
    BY JobTypes
  <2>3. s \in Seq(JobSet)
    BY <1>2, <2>1, <2>2
  <2>4. AddsOnly(s, e)
    BY <2>1 DEF AddsOnly, Adds
  <2>5. QED
    BY <1>2, <1>3, <2>1, <2>3, <2>4, EmptySeq DEF AfterHandlers
<1>6. <<<<"handler", i>>>> \in Seq(JobSet)
  BY <1>2
<1>7. <<<<"handler", i>>>> \o AfterHandlers(i, o) \in Seq(JobSet)
      /\ AddsOnly(<<<<"handler", i>>>> \o AfterHandlers(i, o), e)
  BY <1>4, <1>5, <1>6, AddsConcat
<1>8. QED
  BY <1>3, <1>7, EmptySeq DEF SettleJobs

\* It fits before jobs that do.
LEMMA SettledFits ==
    ASSUME ItemsOK, NEW i \in Items, item[i].kind # None, Changes(i), NEW e, e = item[i].elem,
           NEW o, o = "resolved" \/ BeingStopped(e)',
           NEW t, NoHandler(t), Fit(t)', AddsNone(t),
           NEW jobs, jobs = SettleJobs(i, o) \o t
    PROVE  jobs \in Seq(JobSet) /\ Fit(jobs)' /\ AddsOnly(jobs, e)
<1>1. item[i] \in ItemSet /\ item[i].queued \in BOOLEAN
  BY DEF ItemsOK, ItemSet
<1>2. PICK s : s = SettleJobs(i, o)
  OBVIOUS
<1>3. s \in Seq(JobSet) /\ AddsOnly(s, e)
  BY <1>2, SettleAdds
<1>4. t \in Seq(JobSet) /\ \A k, n : n \in DOMAIN t => t[n] # <<"handler", k>>
  BY DEF NoHandler
<1>5. item'[i].elem = e /\ item'[i].queued = item[i].queued
  BY DEF Changes
<1>6. jobs = s \o t
  BY <1>2
<1>7. Fit(jobs)'
  BY <1>1, <1>2, <1>3, <1>4, <1>5, <1>6, SettleFits
<1>8. AddsOnly(t, e)
  BY DEF AddsNone, AddsOnly
<1>9. jobs \in Seq(JobSet) /\ AddsOnly(jobs, e)
  BY <1>3, <1>4, <1>6, <1>8, AddsConcat
<1>10. QED
  BY <1>7, <1>9

\* Before none.
LEMMA SettledOnly ==
    ASSUME ItemsOK, NEW i \in Items, item[i].kind # None, Changes(i), NEW e, e = item[i].elem,
           NEW o, o = "resolved" \/ BeingStopped(e)', NEW jobs, jobs = SettleJobs(i, o)
    PROVE  jobs \in Seq(JobSet) /\ Fit(jobs)' /\ AddsOnly(jobs, e)
<1>1. PICK t : t = <<>>
  OBVIOUS
<1>2. t \in Seq(JobSet) /\ DOMAIN t = {} /\ NoEnds(t)
  BY <1>1, NoEndsKinds, EmptySeq
<1>3. NoHandler(t) /\ Fit(t)' /\ AddsNone(t)
  BY <1>2, NoEndsFit DEF NoHandler, AddsNone
<1>4. jobs \in Seq(JobSet)
  BY SettleAdds
<1>5. jobs = SettleJobs(i, o) \o t
  BY <1>1, <1>4, ConcatEmptySeq
<1>6. QED
  BY <1>3, <1>5, SettledFits

\* An animation that has been stopped has nothing more to settle.
LEMMA StopSettles ==
    ASSUME ItemsOK, NEW i \in Items, NEW g
    PROVE  StopJobs(i, g) = SettleJobs(i, IF g THEN "resolved" ELSE "rejected")
<1>1. item[i].stopped => item[i].st \in {"resolved", "rejected"}
  BY DEF ItemsOK, ItemOK, Settled
<1>2. QED
  BY <1>1 DEF StopJobs, SettleJobs

\* An end that is forced: the element is finishing.
LEMMA ForcedFits ==
    ASSUME IInv, EndsInv, ForcedEnd
    PROVE  EndsInv'
<1>1. PICK X, L : Turn(X, L)
  BY DEF IInv
<1>2. ~Idle /\ Job[1] = "force" /\ finishing' = finishing
  BY DEF ForcedEnd, Doing
<1>3. PICK i \in Items : Job = <<"force", i>> /\ item[i].kind # None
  BY <1>1, <1>2, StartFacts
<1>4. PICK e : e = item[i].elem
  OBVIOUS
<1>5. ItemsOK
  BY DEF IInv, StateOK
<1>6. e \in finishing
  <2>1. todo \in Seq(JobSet) /\ todo # <<>>
    BY <1>1, <1>2, TopJob DEF Idle
  <2>2. 1 \in DOMAIN todo /\ todo[1] = <<"force", i>>
    BY <1>3, <2>1 DEF Job
  <2>3. QED
    BY <1>4, <2>2 DEF EndsInv, Fit
<1>7. item' = [item EXCEPT ![i] = Stopped(i, TRUE)] /\ Then(StopJobs(i, TRUE))
  BY <1>3 DEF ForcedEnd
<1>8. Changes(i)
  BY <1>5, <1>7, ItemChanges
<1>9. PICK jobs : jobs = SettleJobs(i, "resolved")
  OBVIOUS
<1>10. Then(jobs)
  BY <1>5, <1>7, <1>9, StopSettles
<1>11. jobs \in Seq(JobSet) /\ Fit(jobs)' /\ AddsOnly(jobs, e)
  BY <1>3, <1>4, <1>5, <1>8, <1>9, SettledOnly
<1>12. BeingStopped(e)
  BY <1>6 DEF BeingStopped
<1>13. Alike /\ Kinds'
  BY <1>8, ChangesAlike DEF EndsInv
<1>14. Fit(todo)'
  BY <1>1, <1>2, <1>10, <1>11, <1>12, <1>13, ShortFits DEF EndsInv, ShortKinds, AddsOnly
<1>15. QED
  BY <1>13, <1>14 DEF EndsInv

\* An animation that starts: only it has the right to go on with its queue.
LEMMA AnimationFits ==
    ASSUME IInv, EndsInv, StartAnimation
    PROVE  EndsInv'
<1>1. PICK X, L : Turn(X, L)
  BY DEF IInv
<1>2. ~Idle /\ Job[1] = "start" /\ finishing' = finishing
  BY DEF StartAnimation, Doing
<1>3. PICK i \in Items, e \in Elements :
            Job = <<"start", i>> /\ item[i].elem = e /\ item[i].kind # None /\ StartOK(i)
  BY <1>1, <1>2, StartFacts
<1>4. ItemsOK /\ todo \in Seq(JobSet)
  BY <1>1, TopJob DEF IInv, StateOK
<1>5. PICK force : force = IF e \in finishing THEN <<<<"force", i>>>> ELSE <<>>
  OBVIOUS
<1>6. IF item[i].instant
      THEN /\ item' = [item EXCEPT ![i].st = "resolved"]
           /\ Then((IF item[i].queued THEN SettleJobs(i, "resolved")
                    ELSE AfterHandlers(i, "resolved") \o <<<<"handler", i>>>>) \o force)
      ELSE item' = [item EXCEPT ![i].st = "running"] /\ Then(force)
  BY <1>3, <1>5 DEF StartAnimation
<1>7. Changes(i)
  BY <1>4, <1>6, ItemChanges
<1>8. Alike /\ Kinds'
  BY <1>7, ChangesAlike DEF EndsInv
<1>9. NoHandler(force)
  <2>1. <<"force", i>> \in JobSet
    BY JobTypes
  <2>2. QED
    BY <1>5, <2>1, EmptySeq DEF NoHandler
<1>10. Fit(force)'
  <2>1. ASSUME NEW k \in Items, NEW n \in DOMAIN force, force[n] = <<"force", k>>
        PROVE  item'[k].elem \in finishing'
    <3>1. e \in finishing /\ k = i
      BY <1>5, <2>1
    <3>2. QED
      BY <1>2, <1>3, <1>7, <3>1 DEF Changes
  <2>2. QED
    BY <1>9, <2>1 DEF Fit, NoHandler
<1>11. AddsNone(force)
  BY <1>5 DEF Adds, AddsNone
<1>12. CASE ~item[i].instant
  <2>1. Then(force)
    BY <1>6, <1>12
  <2>2. Fit(todo)'
    BY <1>1, <1>2, <1>8, <1>9, <1>10, <1>11, <2>1, ShortFits
       DEF EndsInv, ShortKinds, AddsNone, NoHandler
  <2>3. QED
    BY <1>8, <2>2 DEF EndsInv
<1>13. CASE item[i].instant
  <2>1. item[i].queued
    BY <1>3, <1>13 DEF EndsInv, Kinds
  <2>2. PICK jobs : jobs = SettleJobs(i, "resolved") \o force
    OBVIOUS
  <2>3. Then(jobs)
    BY <1>6, <1>13, <2>1, <2>2
  <2>4. jobs \in Seq(JobSet) /\ Fit(jobs)' /\ AddsOnly(jobs, e)
    BY <1>3, <1>4, <1>7, <1>9, <1>10, <1>11, <2>2, SettledFits
  <2>5. ASSUME ~BeingStopped(e)
        PROVE  NoneQueued(e)
    <3>1. Ordinary(e)
      BY <1>1, <2>5, NotStopped
    <3>2. T(e) = 1
      BY <1>2, <1>3, <2>1 DEF T, Doing
    <3>3. R(e) \in Nat /\ D(e) \in Nat
      BY <1>4, CardinalityTypes, CountType DEF R, D
    <3>4. D(e) = 0
      BY <3>1, <3>2, <3>3 DEF Ordinary
    <3>5. QED
      BY <1>4, <2>5, <3>4, NoCallNoHandler DEF EndsInv
  <2>6. Fit(todo)'
    BY <1>1, <1>2, <1>8, <2>3, <2>4, <2>5, ShortFits DEF EndsInv, ShortKinds, AddsOnly
  <2>7. QED
    BY <1>8, <2>6 DEF EndsInv
<1>14. QED
  BY <1>12, <1>13

\* What is queued calls dequeue where the sentinel is not there; then no handler
\* of something queued is still to be done.
LEMMA EnqueueFits ==
    ASSUME CarefulUses, IInv, EndsInv, NEW use \in Queueing, May(use), NEW e \in Elements,
           NEW i \in Items, NEW x, x.queued, Enqueue(e, i, x)
    PROVE  EndsInv'
<1>1. PICK X, L : Turn(X, L)
  BY DEF IInv
<1>2. /\ Unused /\ New(i) /\ item' = [item EXCEPT ![i] = x] /\ finishing' = finishing
      /\ Call(IF SentinelFirst(queue[e]) THEN <<>> ELSE <<<<"dequeue", e>>>>)
  BY DEF Enqueue
<1>3. /\ HandlerUses \cap Dequeueing = {}
      /\ \A f \in Elements : queue[f] = <<>> => D(f) = 0
  BY <1>1, QueueingContext DEF MayDequeue
<1>4. item[i].kind = None
  BY <1>2 DEF Unused, New
<1>5. item'[i] = x /\ \A k \in Items : k # i => item'[k] = item[k]
  BY <1>2 DEF IInv, StateOK, ItemsOK
<1>6. Alike /\ Kinds'
  BY <1>3, <1>4, <1>5, NewKinds DEF EndsInv
<1>7. PICK jobs : jobs = IF SentinelFirst(queue[e]) THEN <<>> ELSE <<<<"dequeue", e>>>>
  OBVIOUS
<1>8. jobs \in Seq(JobSet) /\ Fit(jobs)'
  <2>1. <<"dequeue", e>> \in JobSet
    BY JobTypes
  <2>2. jobs \in Seq(JobSet)
    BY <1>7, <2>1, EmptySeq
  <2>3. \A k, n : n \in DOMAIN jobs => jobs[n] # <<"handler", k>> /\ jobs[n] # <<"force", k>>
    BY <1>7
  <2>4. QED
    BY <2>2, <2>3, NoneFits
<1>9. ASSUME NEW f \in Elements, Adds(jobs, f), ~BeingStopped(f)
      PROVE  NoneQueued(f)
  <2>1. f = e /\ ~SentinelFirst(queue[e])
    BY <1>7, <1>9 DEF Adds
  <2>2. Ordinary(e)
    BY <1>1, <1>9, <2>1, NotStopped
  <2>3. Idle \/ Job[1] # "dequeue"
    BY DEF May, InHandler, Doing
  <2>4. queue[e] = <<>>
    BY <2>1, <2>2, <2>3 DEF Ordinary
  <2>5. D(e) = 0
    BY <1>3, <2>4
  <2>6. todo \in Seq(JobSet)
    BY <1>1, TopJob
  <2>7. QED
    BY <1>9, <2>1, <2>5, <2>6, NoCallNoHandler DEF EndsInv
<1>10. todo \in Seq(JobSet) /\ Call(jobs)
  BY <1>1, <1>2, <1>7, TopJob
<1>11. Fit(todo)'
  BY <1>2, <1>6, <1>8, <1>9, <1>10, CallFits DEF EndsInv
<1>12. QED
  BY <1>6, <1>11 DEF EndsInv

\* animate and delay.
LEMMA QueueingFits ==
    ASSUME CarefulUses, IInv, EndsInv, NEW e \in Elements, NEW i \in Items, NEW instant,
           Animate(e, i, instant) \/ Delay(e, i)
    PROVE  EndsInv'
<1>1. CASE Animate(e, i, instant)
  <2>1. PICK x : x = [NoItem EXCEPT !.kind = "anim", !.elem = e, !.instant = instant,
                                    !.st = "waiting"]
    OBVIOUS
  <2>2. x.queued
    BY <2>1 DEF NoItem
  <2>3. PICK use \in Queueing : use = "animate"
    BY DEF Queueing
  <2>4. May(use) /\ Enqueue(e, i, x)
    BY <1>1, <2>1, <2>3 DEF Animate
  <2>5. QED
    BY <2>2, <2>4, EnqueueFits
<1>2. CASE Delay(e, i)
  <2>1. PICK x : x = [NoItem EXCEPT !.kind = "delay", !.elem = e, !.st = "waiting"]
    OBVIOUS
  <2>2. x.queued
    BY <2>1 DEF NoItem
  <2>3. PICK use \in Queueing : use = "delay"
    BY DEF Queueing
  <2>4. May(use) /\ Enqueue(e, i, x)
    BY <1>2, <2>1, <2>3 DEF Delay
  <2>5. QED
    BY <2>2, <2>4, EnqueueFits
<1>3. QED
  BY <1>1, <1>2

\* stop and finish are called between two turns, and so is what the interval and
\* the timeouts do.
LEMMA BetweenTurnsFits ==
    ASSUME IInv, EndsInv, Idle, NEW jobs \in Seq(JobSet), Call(jobs), Alike, Kinds',
           \A i, n : n \in DOMAIN jobs => jobs[n] # <<"handler", i>> /\ jobs[n] # <<"force", i>>
    PROVE  EndsInv'
<1>1. Fit(jobs)'
  BY NoneFits
<1>2. Fit(todo)'
  BY <1>1, IdleCallFits DEF EndsInv
<1>3. QED
  BY <1>2 DEF EndsInv

\* clearQueue: nothing is queued where handlers use it.
LEMMA ClearFits ==
    ASSUME IInv, EndsInv, NEW e \in Elements, ClearQueue(e)
    PROVE  EndsInv'
<1>1. PICK X, L : Turn(X, L)
  BY DEF IInv
<1>2. /\ May("clear") /\ Call(<<<<"dequeue", e>>>>) /\ item' = item /\ finishing' = finishing
  BY DEF ClearQueue
<1>3. PICK jobs : jobs = <<<<"dequeue", e>>>>
  OBVIOUS
<1>4. jobs \in Seq(JobSet) /\ Call(jobs)
  <2>1. <<"dequeue", e>> \in JobSet
    BY JobTypes
  <2>2. QED
    BY <1>2, <1>3, <2>1
<1>5. \A k, n : n \in DOMAIN jobs => jobs[n] # <<"handler", k>> /\ jobs[n] # <<"force", k>>
  BY <1>3
<1>6. Alike /\ Kinds'
  BY <1>2, SameAlike DEF EndsInv
<1>7. CASE Idle
  BY <1>4, <1>5, <1>6, <1>7, BetweenTurnsFits
<1>8. CASE ~Idle
  <2>1. HandlerUses \cap Dequeueing # {}
    BY <1>2, <1>8 DEF May, Dequeueing
  <2>2. ASSUME NEW i \in Items, NEW n \in DOMAIN todo, todo[n] = <<"handler", i>>
        PROVE  ~item[i].queued
    <3>1. item[i].kind # None
      BY <2>2, EndsOfStarted
    <3>2. QED
      BY <2>1, <3>1 DEF EndsInv, Kinds
  <2>3. \A f : NoneQueued(f)
    BY <2>2 DEF NoneQueued
  <2>4. Fit(jobs)' /\ todo \in Seq(JobSet)
    BY <1>1, <1>5, NoneFits, TopJob
  <2>5. Fit(todo)'
    BY <1>2, <1>4, <1>6, <2>3, <2>4, CallFits DEF EndsInv
  <2>6. QED
    BY <1>6, <2>5 DEF EndsInv
<1>9. QED
  BY <1>7, <1>8

\* animate with no properties, between two turns: the call that dequeues comes
\* after its handler.
LEMMA EmptyFits ==
    ASSUME OrderlyUses, IInv, EndsInv, NEW e \in Elements, NEW i \in Items, AnimateEmpty(e, i)
    PROVE  EndsInv'
<1>1. HandlerUses \cap Dequeueing = {} /\ Idle
  <2>1. "empty" \in (IF Idle THEN PageUses ELSE HandlerUses)
    BY DEF AnimateEmpty, May
  <2>2. HandlerUses \cap Dequeueing = {}
    BY <2>1 DEF OrderlyUses
  <2>3. QED
    BY <2>1, <2>2 DEF Dequeueing
<1>2. PICK jobs : jobs = <<<<"handler", i>>, <<"dequeue", e>>, <<"always", i>>>>
  OBVIOUS
<1>3. PICK x : x = [NoItem EXCEPT !.kind = "anim", !.elem = e, !.instant = TRUE,
                                  !.st = "resolved", !.stopped = TRUE]
  OBVIOUS
<1>4. Unused /\ New(i) /\ item' = [item EXCEPT ![i] = x] /\ Call(jobs)
  BY <1>2, <1>3 DEF AnimateEmpty
<1>5. x.queued /\ x.elem = e
  BY <1>3 DEF NoItem
<1>6. item[i].kind = None
  BY <1>4 DEF Unused, New
<1>7. item'[i] = x /\ \A k \in Items : k # i => item'[k] = item[k]
  BY <1>4 DEF IInv, StateOK, ItemsOK
<1>8. Alike /\ Kinds'
  BY <1>1, <1>5, <1>6, <1>7, NewKinds DEF EndsInv
<1>9. jobs \in Seq(JobSet)
  <2>1. <<"handler", i>> \in JobSet /\ <<"dequeue", e>> \in JobSet /\ <<"always", i>> \in JobSet
    BY JobTypes
  <2>2. QED
    BY <1>2, <2>1
<1>10. DOMAIN jobs = 1..3 /\ jobs[1] = <<"handler", i>> /\ jobs[2] = <<"dequeue", e>>
       /\ jobs[3] = <<"always", i>>
  BY <1>2
<1>11. GoesOn(jobs, i, 1)'
  <2>1. Later(jobs, 1, <<"dequeue", e>>)
    <3>1. 2 \in DOMAIN jobs /\ 2 > 1
      BY <1>10
    <3>2. QED
      BY <1>10, <3>1 DEF Later
  <2>2. \A j : ~Earlier(jobs, 1, j)
    BY <1>10 DEF Earlier
  <2>3. item'[i].queued /\ item'[i].elem = e
    BY <1>5, <1>7
  <2>4. QED
    BY <2>1, <2>2, <2>3 DEF GoesOn
<1>12. ASSUME NEW k \in Items, NEW n \in DOMAIN jobs, jobs[n] = <<"handler", k>>
       PROVE  n = 1 /\ k = i
  BY <1>10, <1>12
<1>13. \A k, n : n \in DOMAIN jobs => jobs[n] # <<"force", k>>
  BY <1>10
<1>14. Fit(jobs)'
  BY <1>11, <1>12, <1>13 DEF Fit
<1>15. Fit(todo)'
  BY <1>1, <1>4, <1>8, <1>9, <1>14, IdleCallFits DEF EndsInv
<1>16. QED
  BY <1>8, <1>15 DEF EndsInv

\* animate with queue: false, of something that takes time.
LEMMA UnqueuedFits ==
    ASSUME OrderlyUses, IInv, EndsInv, NEW e \in Elements, NEW i \in Items, NEW instant \in BOOLEAN,
           AnimateUnqueued(e, i, instant)
    PROVE  EndsInv'
<1>1. PICK X, L : Turn(X, L)
  BY DEF IInv
<1>2. ~instant
  BY DEF AnimateUnqueued, May, OrderlyUses
<1>3. PICK x : x = [NoItem EXCEPT !.kind = "anim", !.elem = e, !.queued = FALSE,
                                  !.instant = instant, !.st = "waiting"]
  OBVIOUS
<1>4. /\ Unused /\ New(i) /\ item' = [item EXCEPT ![i] = x] /\ finishing' = finishing
      /\ Call(<<<<"start", i>>>>)
  BY <1>3 DEF AnimateUnqueued
<1>5. ~x.queued /\ ~x.instant
  BY <1>2, <1>3 DEF NoItem
<1>6. item[i].kind = None
  BY <1>4 DEF Unused, New
<1>7. item'[i] = x /\ \A k \in Items : k # i => item'[k] = item[k]
  BY <1>4 DEF IInv, StateOK, ItemsOK
<1>8. Alike /\ Kinds'
  BY <1>5, <1>6, <1>7, NewKinds DEF EndsInv
<1>9. PICK jobs : jobs = <<<<"start", i>>>>
  OBVIOUS
<1>10. NoEnds(jobs)
  <2>1. <<"start", i>> \in JobSet
    BY JobTypes
  <2>2. QED
    BY <1>9, <2>1, NoEndsKinds
<1>11. jobs \in Seq(JobSet) /\ Fit(jobs)' /\ \A f : ~Adds(jobs, f)
  BY <1>10, NoEndsFit
<1>12. todo \in Seq(JobSet) /\ Call(jobs)
  BY <1>1, <1>4, <1>9, TopJob
<1>13. Fit(todo)'
  BY <1>4, <1>8, <1>11, <1>12, CallFits DEF EndsInv
<1>14. QED
  BY <1>8, <1>13 DEF EndsInv

\* promise calls nothing.
LEMMA PromiseFits ==
    ASSUME IInv, EndsInv, NEW e \in Elements, PromiseOf(e)
    PROVE  EndsInv'
<1>1. todo' = todo /\ item' = item /\ finishing' = finishing
  BY DEF PromiseOf
<1>2. Fit(todo)'
  BY <1>1 DEF EndsInv, Fit, GoesOn, Later, Earlier, BeingStopped
<1>3. QED
  BY <1>1, <1>2, SameAlike DEF EndsInv

\* stop.
LEMMA StopFits ==
    ASSUME CarefulUses, IInv, EndsInv, NEW e \in Elements, NEW clear \in BOOLEAN,
           NEW gotoEnd \in BOOLEAN, Stop(e, clear, gotoEnd)
    PROVE  EndsInv'
<1>1. Idle
  <2>1. May(IF clear THEN "stop and clear" ELSE "stop")
    BY DEF Stop
  <2>2. (IF clear THEN "stop and clear" ELSE "stop") \notin HandlerUses
    BY DEF CarefulUses, Stopping
  <2>3. QED
    BY <2>1, <2>2 DEF May
<1>2. item' = item
  BY DEF Stop
<1>3. PICK jobs : /\ jobs = (IF clear THEN <<<<"dequeue", e>>>> ELSE <<>>)
                              \o <<<<"stopHooks", e, gotoEnd>>>>
                  /\ Call(jobs)
  BY DEF Stop
<1>4. PICK a, b : /\ a = (IF clear THEN <<<<"dequeue", e>>>> ELSE <<>>)
                  /\ b = <<<<"stopHooks", e, gotoEnd>>>> /\ jobs = a \o b
  BY <1>3
<1>5. a \in Seq(JobSet) /\ b \in Seq(JobSet)
  <2>1. <<"dequeue", e>> \in JobSet /\ <<"stopHooks", e, gotoEnd>> \in JobSet
    BY JobTypes
  <2>2. QED
    BY <1>4, <2>1, EmptySeq
<1>6. /\ \A n \in DOMAIN a : a[n][1] = "dequeue"
      /\ \A n \in DOMAIN b : b[n][1] = "stopHooks"
  BY <1>4
<1>7. jobs \in Seq(JobSet) /\ \A n \in DOMAIN jobs : jobs[n][1] \in {"dequeue", "stopHooks"}
  <2>1. PICK k \in Nat, m \in Nat : k = Len(a) /\ m = Len(b)
    BY <1>5, LenProperties
  <2>2. /\ DOMAIN a = 1..k /\ DOMAIN b = 1..m /\ DOMAIN jobs = 1..(k + m)
        /\ jobs \in Seq(JobSet)
        /\ \A n \in 1..(k + m) : jobs[n] = IF n <= k THEN a[n] ELSE b[n - k]
    <3>1. jobs = a \o b
      BY <1>4
    <3>2. QED
      BY <1>5, <2>1, <3>1, LenProperties, ConcatProperties
  <2>3. ASSUME NEW n \in DOMAIN jobs
        PROVE  jobs[n][1] \in {"dequeue", "stopHooks"}
    <3>1. CASE n <= k
      BY <1>6, <2>2, <3>1
    <3>2. CASE ~(n <= k)
      <4>1. n - k \in DOMAIN b /\ jobs[n] = b[n - k]
        BY <2>1, <2>2, <3>2
      <4>2. QED
        BY <1>6, <4>1
    <3>3. QED
      BY <3>1, <3>2
  <2>4. QED
    BY <2>2, <2>3
<1>8. \A i, n : n \in DOMAIN jobs => jobs[n] # <<"handler", i>> /\ jobs[n] # <<"force", i>>
  BY <1>7
<1>9. Alike /\ Kinds'
  BY <1>2, SameAlike DEF EndsInv
<1>10. QED
  BY <1>1, <1>3, <1>7, <1>8, <1>9, BetweenTurnsFits

\* finish.
LEMMA FinishFits ==
    ASSUME CarefulUses, IInv, EndsInv, NEW e \in Elements, Finish(e)
    PROVE  EndsInv'
<1>1. Idle
  BY DEF Finish, May, CarefulUses, Stopping
<1>2. PICK jobs : /\ jobs = <<<<"finishTimers", e, Len(timers)>>, <<"finishOld", e, queue[e]>>>>
                  /\ Call(jobs)
  BY DEF Finish
<1>3. jobs \in Seq(JobSet)
  <2>1. Len(timers) \in Nat /\ queue[e] \in Seq(Items \cup {"inprogress"})
    BY LenProperties DEF IInv, StateOK, TimersOK, QueuesOK
  <2>2. /\ <<"finishTimers", e, Len(timers)>> \in JobSet
        /\ <<"finishOld", e, queue[e]>> \in JobSet
    BY <2>1, JobTypes
  <2>3. QED
    BY <1>2, <2>2
<1>4. \A i, n : n \in DOMAIN jobs => jobs[n] # <<"handler", i>> /\ jobs[n] # <<"force", i>>
  BY <1>2
<1>5. Alike /\ Kinds'
  <2>1. CASE hooks[e].stop = None
    BY <2>1, SameAlike DEF Finish, EndsInv
  <2>2. CASE hooks[e].stop # None
    <3>1. PICK i : i = hooks[e].stop
      OBVIOUS
    <3>2. i \in Items /\ ItemsOK
      BY <2>2, <3>1 DEF IInv, StateOK, HooksOK, HookSet
    <3>3. item' = [item EXCEPT ![i].st = "rejected"]
      BY <2>2, <3>1 DEF Finish
    <3>4. Changes(i)
      BY <3>2, <3>3, ItemChanges
    <3>5. QED
      BY <3>2, <3>4, ChangesAlike DEF EndsInv
  <2>3. QED
    BY <2>1, <2>2
<1>6. QED
  BY <1>1, <1>2, <1>3, <1>4, <1>5, BetweenTurnsFits

\* The interval and the timeouts of delays.
LEMMA TimeoutFits ==
    ASSUME IInv, EndsInv, TickBegins \/ \E i \in Items : DelayEnds(i)
    PROVE  EndsInv'
<1>1. Idle
  BY DEF TickBegins, DelayEnds
<1>2. CASE TickBegins
  <2>1. PICK jobs : jobs = <<<<"tick", 0>>>>
    OBVIOUS
  <2>2. jobs \in Seq(JobSet)
    <3>1. <<"tick", 0>> \in JobSet
      BY JobTypes
    <3>2. QED
      BY <2>1, <3>1
  <2>3. Call(jobs)
    BY <1>1, <1>2, <2>1, <2>2, ConcatEmptySeq DEF TickBegins, Call, Idle
  <2>4. \A i, n : n \in DOMAIN jobs => jobs[n] # <<"handler", i>> /\ jobs[n] # <<"force", i>>
    BY <2>1
  <2>5. Alike /\ Kinds'
    BY <1>2, SameAlike DEF TickBegins, EndsInv
  <2>6. QED
    BY <1>1, <2>2, <2>3, <2>4, <2>5, BetweenTurnsFits
<1>3. CASE \E i \in Items : DelayEnds(i)
  <2>1. PICK i \in Items : DelayEnds(i)
    BY <1>3
  <2>2. ItemsOK /\ item[i].kind # None
    BY <2>1, FxAssumption DEF IInv, StateOK, DelayEnds
  <2>3. item[i].elem \in Elements
    BY <2>2 DEF ItemsOK, ItemOK
  <2>4. PICK jobs : jobs = <<<<"dequeue", item[i].elem>>>>
    OBVIOUS
  <2>5. jobs \in Seq(JobSet)
    <3>1. <<"dequeue", item[i].elem>> \in JobSet
      BY <2>3, JobTypes
    <3>2. QED
      BY <2>4, <3>1
  <2>6. Call(jobs)
    BY <1>1, <2>1, <2>4, <2>5, ConcatEmptySeq DEF DelayEnds, Call, Idle
  <2>7. \A k, n : n \in DOMAIN jobs => jobs[n] # <<"handler", k>> /\ jobs[n] # <<"force", k>>
    BY <2>4
  <2>8. Changes(i)
    BY <2>1, <2>2, ItemChanges DEF DelayEnds
  <2>9. Alike /\ Kinds'
    BY <2>8, ChangesAlike DEF EndsInv
  <2>10. QED
    BY <1>1, <2>5, <2>6, <2>7, <2>9, BetweenTurnsFits
<1>4. QED
  BY <1>2, <1>3

\* A job of a loop that leads to no end.
LEMMA LoopQuietFits ==
    ASSUME IInv, EndsInv, ~Idle, Job[1] \notin ShortKinds, NEW jobs, NoEnds(jobs), Then(jobs),
           Alike, Kinds => Kinds'
    PROVE  EndsInv'
<1>1. PICK X, L : LoopAt(X, L)
  BY LoopIs
<1>2. jobs \in Seq(JobSet) /\ Fit(jobs)'
  BY NoEndsFit
<1>3. AtLoop(X, L)
  BY <1>1 DEF LoopAt
<1>4. Fit(todo)'
  BY <1>2, <1>3, LoopThenFits DEF EndsInv
<1>5. QED
  BY <1>4 DEF EndsInv

\* The loop of the tick, where nothing ends.
LEMMA TickFits ==
    ASSUME IInv, EndsInv, TickGoesOn \/ TickRemoves \/ TickEnds
    PROVE  EndsInv'
<1>1. CASE TickGoesOn
  <2>1. PICK X, L, k : TickAt(X, L, k) /\ Job = <<"tick", k>>
    BY <1>1, TickLoop DEF TickGoesOn
  <2>2. PICK i : i = timers[k + 1]
    OBVIOUS
  <2>3. /\ k < Len(timers) /\ item' = [item EXCEPT ![i].ticks = @ + 1]
        /\ Then(<<<<"tick", k + 1>>>>)
    BY <1>1, <2>1, <2>2 DEF TickGoesOn, Current
  <2>4. k \in Nat /\ StateOK /\ ItemsOK /\ ~Idle /\ Len(timers) \in Nat
    BY <2>1 DEF TickAt, StateOK
  <2>5. i \in Items
    <3>1. k + 1 \in 1..Len(timers)
      BY <2>3, <2>4
    <3>2. QED
      BY <2>2, <2>4, <3>1, TimerStarted
  <2>6. Changes(i)
    BY <2>3, <2>4, <2>5, ItemChanges
  <2>7. NoEnds(<<<<"tick", k + 1>>>>)
    <3>1. k + 1 \in Nat
      BY <2>4
    <3>2. <<"tick", k + 1>> \in JobSet
      BY <3>1, JobTypes
    <3>3. QED
      BY <3>2, NoEndsKinds
  <2>8. Job[1] \notin ShortKinds
    BY <2>1 DEF ShortKinds
  <2>9. QED
    BY <2>3, <2>4, <2>5, <2>6, <2>7, <2>8, ChangesAlike, LoopQuietFits
<1>2. CASE TickRemoves
  <2>1. PICK X, L, k : \E i \in Items : TickAt(X, L, k) /\ Job = <<"ticked", k, i>>
    BY <1>2, TickedLoop DEF TickRemoves
  <2>2. k \in Nat /\ ~Idle /\ Job[1] = "ticked" /\ Job[2] = k
    BY <2>1 DEF TickAt
  <2>3. Then(<<<<"tick", k>>>>) \/ Then(<<<<"tick", k + 1>>>>)
    BY <1>2, <2>2 DEF TickRemoves
  <2>4. k + 1 \in Nat
    BY <2>2
  <2>5. PICK n \in Nat : Then(<<<<"tick", n>>>>)
    BY <2>2, <2>3, <2>4
  <2>6. NoEnds(<<<<"tick", n>>>>)
    <3>1. <<"tick", n>> \in JobSet
      BY JobTypes
    <3>2. QED
      BY <3>1, NoEndsKinds
  <2>7. item' = item
    BY <1>2 DEF TickRemoves
  <2>8. QED
    BY <2>2, <2>5, <2>6, <2>7, SameAlike, LoopQuietFits DEF ShortKinds
<1>3. CASE TickEnds
  <2>1. ~Idle /\ Job[1] = "tick" /\ Then(<<>>) /\ item' = item
    BY <1>3 DEF TickEnds, Doing
  <2>2. QED
    BY <2>1, SameAlike, NoEndsKinds, LoopQuietFits DEF ShortKinds
<1>4. QED
  BY <1>1, <1>2, <1>3

\* What settles in a loop, before the rest of the loop.
LEMMA LoopSettleFits ==
    ASSUME IInv, EndsInv, ~Idle, Job[1] \notin ShortKinds, NEW i \in Items, Changes(i),
           item[i].kind # None, NEW e, e = item[i].elem, NEW o, o = "resolved" \/ BeingStopped(e)',
           NEW t, LoopJobs(t), Then(SettleJobs(i, o) \o t)
    PROVE  EndsInv'
<1>1. PICK X, L : LoopAt(X, L)
  BY LoopIs
<1>2. AtLoop(X, L) /\ ItemsOK
  BY <1>1 DEF LoopAt, StateOK
<1>3. NoHandler(t) /\ Fit(t)' /\ AddsNone(t)
  <2>1. NoEnds(t)
    BY NoEndsKinds
  <2>2. QED
    BY <2>1, NoEndsFit DEF NoEnds, NoHandler, AddsNone
<1>4. PICK jobs : jobs = SettleJobs(i, o) \o t
  OBVIOUS
<1>5. jobs \in Seq(JobSet) /\ Fit(jobs)'
  BY <1>2, <1>3, <1>4, SettledFits
<1>6. Alike /\ Kinds'
  BY ChangesAlike DEF EndsInv
<1>7. Fit(todo)'
  BY <1>2, <1>4, <1>5, <1>6, LoopThenFits DEF EndsInv
<1>8. QED
  BY <1>6, <1>7 DEF EndsInv

\* An animation that is over in the tick.
LEMMA TickOverFits ==
    ASSUME IInv, EndsInv, TickOver
    PROVE  EndsInv'
<1>1. PICK X, L, k : TickAt(X, L, k) /\ Job = <<"tick", k>>
  BY TickLoop DEF TickOver
<1>2. PICK i : i = timers[k + 1]
  OBVIOUS
<1>3. PICK s : s = IF item[i].st = "running" THEN "resolved" ELSE item[i].st
  OBVIOUS
<1>4. PICK t : t = <<<<"ticked", k, i>>>>
  OBVIOUS
<1>5. /\ k < Len(timers) /\ item' = [item EXCEPT ![i].st = s]
      /\ Then(SettleJobs(i, "resolved") \o t)
  BY <1>1, <1>2, <1>3, <1>4 DEF TickOver, Current
<1>6. k \in Nat /\ StateOK /\ ItemsOK /\ ~Idle /\ Len(timers) \in Nat
  BY <1>1 DEF TickAt, StateOK
<1>7. i \in Items /\ item[i].kind # None
  <2>1. k + 1 \in 1..Len(timers)
    BY <1>5, <1>6
  <2>2. QED
    BY <1>2, <1>6, <2>1, TimerStarted
<1>8. Changes(i)
  BY <1>5, <1>6, <1>7, ItemChanges
<1>9. LoopJobs(t)
  <2>1. <<"ticked", k, i>> \in JobSet
    BY <1>6, <1>7, JobTypes
  <2>2. QED
    BY <1>4, <2>1, LoopJobsOne DEF ShortKinds
<1>10. PICK e, o : e = item[i].elem /\ o = "resolved"
  OBVIOUS
<1>11. Then(SettleJobs(i, o) \o t)
  BY <1>5, <1>10
<1>12. Job[1] \notin ShortKinds
  BY <1>1 DEF ShortKinds
<1>13. QED
  BY <1>6, <1>7, <1>8, <1>9, <1>10, <1>11, <1>12, LoopSettleFits

\* stop goes over to its loop over the timers, and a timer is removed.
LEMMA StopHooksFits ==
    ASSUME IInv, EndsInv, StopHooks \/ Splice
    PROVE  EndsInv'
<1>1. CASE Splice
  <2>1. ~Idle /\ Job[1] = "splice" /\ Then(<<>>) /\ item' = item
    BY <1>1 DEF Splice, Doing
  <2>2. QED
    BY <2>1, SameAlike, NoEndsKinds, LoopQuietFits DEF ShortKinds
<1>2. CASE StopHooks
  <2>1. ~Idle /\ Job[1] = "stopHooks"
    BY <1>2 DEF StopHooks, Doing
  <2>2. PICK X, L : \E e \in Elements, g \in BOOLEAN : StopHooksAt(X, L, e, g)
    BY <2>1, LoopKinds DEF ShortKinds, StopTimersAt, SpliceAt, FinishTimersAt, FinishSpliceAt,
                           FinishOldAt
  <2>3. PICK e \in Elements, g \in BOOLEAN : StopHooksAt(X, L, e, g)
    BY <2>2
  <2>4. Job = <<"stopHooks", e, g>> /\ StateOK /\ Len(timers) \in Nat
    BY <2>3 DEF StopHooksAt, LoopAt
  <2>5. PICK k \in Nat, d \in BOOLEAN : k = Len(timers) /\ d = TRUE
    BY <2>4
  <2>6. PICK jobs : jobs = <<<<"stopTimers", e, k, g, d>>>>
    OBVIOUS
  <2>7. Then(jobs)
    BY <1>2, <2>4, <2>5, <2>6 DEF StopHooks
  <2>8. NoEnds(jobs)
    <3>1. <<"stopTimers", e, k, g, d>> \in JobSet
      BY JobTypes
    <3>2. QED
      BY <2>6, <3>1, NoEndsKinds
  <2>9. Alike /\ (Kinds => Kinds')
    <3>1. CASE hooks[e].stop = None
      <4>1. item' = item
        BY <1>2, <2>4, <3>1 DEF StopHooks
      <4>2. QED
        BY <4>1, SameAlike
    <3>2. CASE hooks[e].stop # None
      <4>1. PICK i : i = hooks[e].stop
        OBVIOUS
      <4>2. i \in Items /\ ItemsOK
        BY <2>4, <3>2, <4>1 DEF StateOK, HooksOK, HookSet
      <4>3. item' = [item EXCEPT ![i].st = "rejected"]
        BY <1>2, <2>4, <3>2, <4>1 DEF StopHooks
      <4>4. Changes(i)
        BY <4>2, <4>3, ItemChanges
      <4>5. QED
        BY <4>2, <4>4, ChangesAlike
    <3>3. QED
      BY <3>1, <3>2
  <2>10. QED
    BY <2>1, <2>7, <2>8, <2>9, LoopQuietFits DEF ShortKinds
<1>3. QED
  BY <1>1, <1>2

\* What is done instead of the only job is the last of what is to be done.
LEMMA LoopLeft ==
    ASSUME NEW j, todo = <<j>>, NEW s \in Seq(JobSet), NEW t \in Seq(JobSet), Then(s \o t),
           NEW m \in DOMAIN t
    PROVE  \E n \in DOMAIN todo' : todo'[n] = t[m]
<1>1. PICK a \in Nat, b \in Nat : a = Len(s) /\ b = Len(t)
  BY LenProperties
<1>2. PICK jobs : jobs = s \o t
  OBVIOUS
<1>3. /\ DOMAIN s = 1..a /\ DOMAIN t = 1..b /\ DOMAIN jobs = 1..(a + b)
      /\ \A n \in 1..(a + b) : jobs[n] = IF n <= a THEN s[n] ELSE t[n - a]
      /\ jobs \in Seq(JobSet)
  BY <1>1, <1>2, LenProperties, ConcatProperties
<1>4. todo' = jobs
  BY <1>2, <1>3, ThenOnly
<1>5. PICK n : n = m + a
  OBVIOUS
<1>6. n \in 1..(a + b) /\ ~(n <= a) /\ n - a = m
  BY <1>1, <1>3, <1>5
<1>7. QED
  BY <1>3, <1>4, <1>6

\* The loop of stop: what it rejects is of the element it stops.
LEMMA StopTimersFits ==
    ASSUME IInv, EndsInv, StopTimers
    PROVE  EndsInv'
<1>1. ~Idle /\ Job[1] = "stopTimers" /\ Job[1] \notin ShortKinds
  BY DEF StopTimers, Doing, ShortKinds
<1>2. PICK X, L : \E e \in Elements, k \in Nat, g, d \in BOOLEAN : StopTimersAt(X, L, e, k, g, d)
  BY <1>1, LoopKinds DEF StopHooksAt, SpliceAt, FinishTimersAt, FinishSpliceAt, FinishOldAt
<1>3. PICK e \in Elements, k \in Nat, g \in BOOLEAN, d \in BOOLEAN :
        StopTimersAt(X, L, e, k, g, d)
  BY <1>2
<1>4. /\ Job = <<"stopTimers", e, k, g, d>> /\ todo = <<<<"stopTimers", e, k, g, d>>>>
      /\ StateOK /\ ItemsOK /\ k <= Len(timers) /\ Len(timers) \in Nat
  BY <1>3 DEF StopTimersAt, StopGoesOn, LoopAt, StateOK
<1>5. /\ Job[2] = e /\ Job[3] = k /\ Job[4] = g /\ Job[5] = d /\ ~(k > Len(timers))
  BY <1>4
<1>6. CASE k = 0
  <2>1. Then(AfterStop(e, d, g)) /\ item' = item
    BY <1>5, <1>6 DEF StopTimers
  <2>2. PICK X1, L1 : LoopAt(X1, L1)
    BY <1>1, LoopIs
  <2>3. PICK jobs : jobs = AfterStop(e, d, g)
    OBVIOUS
  <2>4. jobs \in Seq(JobSet)
    <3>1. <<"dequeue", e>> \in JobSet
      BY JobTypes
    <3>2. QED
      BY <2>3, <3>1, EmptySeq DEF AfterStop
  <2>5. Fit(jobs)'
    <3>1. \A i, n : n \in DOMAIN jobs => jobs[n] # <<"handler", i>> /\ jobs[n] # <<"force", i>>
      BY <2>3 DEF AfterStop
    <3>2. QED
      BY <3>1, NoneFits
  <2>6. Alike /\ Kinds'
    BY <2>1, SameAlike DEF EndsInv
  <2>7. Fit(todo)'
    BY <1>1, <2>1, <2>2, <2>3, <2>4, <2>5, <2>6, LoopThenFits DEF EndsInv, LoopAt
  <2>8. QED
    BY <2>6, <2>7 DEF EndsInv
<1>7. CASE k # 0 /\ ~Names(timers[k], e)
  <2>1. PICK n \in Nat : n = k - 1
    BY <1>7
  <2>2. PICK jobs : jobs = <<<<"stopTimers", e, n, g, d>>>>
    OBVIOUS
  <2>3. Then(jobs) /\ item' = item
    BY <1>5, <1>7, <2>1, <2>2 DEF StopTimers
  <2>4. NoEnds(jobs)
    <3>1. <<"stopTimers", e, n, g, d>> \in JobSet
      BY JobTypes
    <3>2. QED
      BY <2>2, <3>1, NoEndsKinds
  <2>5. QED
    BY <1>1, <2>3, <2>4, SameAlike, LoopQuietFits
<1>8. CASE k # 0 /\ Names(timers[k], e)
  <2>1. PICK n \in Nat : n = k - 1
    BY <1>8
  <2>2. PICK i : i = timers[k]
    OBVIOUS
  <2>3. PICK t : t = <<<<"splice", k>>, <<"stopTimers", e, n, g, FALSE>>>>
    OBVIOUS
  <2>4. item' = [item EXCEPT ![i] = Stopped(i, g)] /\ Then(StopJobs(i, g) \o t)
    BY <1>5, <1>8, <2>1, <2>2, <2>3 DEF StopTimers
  <2>5. i \in Items /\ item[i].kind # None /\ item[i].elem = e
    <3>1. k \in 1..Len(timers)
      BY <1>4, <1>8
    <3>2. QED
      BY <1>4, <1>8, <2>2, <3>1, TimerStarted DEF Names
  <2>6. Changes(i)
    BY <1>4, <2>4, <2>5, ItemChanges
  <2>7. PICK o : o = IF g THEN "resolved" ELSE "rejected"
    OBVIOUS
  <2>8. Then(SettleJobs(i, o) \o t)
    BY <1>4, <2>4, <2>5, <2>7, StopSettles
  <2>9. LoopJobs(t)
    <3>1. <<"splice", k>> \in JobSet /\ <<"stopTimers", e, n, g, FALSE>> \in JobSet
      BY JobTypes
    <3>2. QED
      BY <2>3, <3>1, LoopJobsTwo DEF ShortKinds
  <2>10. BeingStopped(e)'
    <3>1. SettleJobs(i, o) \in Seq(JobSet)
      BY <1>4, <2>5, SettleAdds
    <3>2. t \in Seq(JobSet)
      BY <2>9 DEF LoopJobs
    <3>3. PICK j : j = <<"splice", k>>
      OBVIOUS
    <3>4. PICK l : l = <<"stopTimers", e, n, g, FALSE>>
      OBVIOUS
    <3>5. t = <<j, l>>
      BY <2>3, <3>3, <3>4
    <3>6. t[2] = l /\ 2 \in DOMAIN t
      BY <3>5
    <3>7. t[2] = <<"stopTimers", e, n, g, FALSE>> /\ 2 \in DOMAIN t
      BY <3>4, <3>6
    <3>8. 2 \in DOMAIN t /\ t[2] = <<"stopTimers", e, n, g, FALSE>> /\ t \in Seq(JobSet)
      BY <3>7, <3>2
    <3>9. PICK p \in DOMAIN todo' : todo'[p] = t[2]
      BY <1>4, <2>8, <3>1, <3>8, LoopLeft
    <3>10. QED
      BY <3>8, <3>9 DEF BeingStopped
  <2>11. QED
    BY <1>1, <2>5, <2>6, <2>8, <2>9, <2>10, LoopSettleFits
<1>9. QED
  BY <1>6, <1>7, <1>8

\* The loop of finish over the timers: all are brought to their end.
LEMMA FinishTimersFits ==
    ASSUME IInv, EndsInv, FinishTimers
    PROVE  EndsInv'
<1>1. ~Idle /\ Job[1] = "finishTimers" /\ Job[1] \notin ShortKinds
  BY DEF FinishTimers, Doing, ShortKinds
<1>2. \E X, L : \E e \in Elements, k \in Nat, old \in Seq(Items \cup {"inprogress"}) :
            FinishTimersAt(X, L, e, k, old)
  <2>1. /\ \A X, L, e, g : ~StopHooksAt(X, L, e, g)
        /\ \A X, L, e, k, g, d : ~StopTimersAt(X, L, e, k, g, d)
        /\ \A X, L, e, k, g, d : ~SpliceAt(X, L, e, k, g, d)
        /\ \A X, L, e, k, old : ~FinishSpliceAt(X, L, e, k, old)
        /\ \A X, L, e, old : ~FinishOldAt(X, L, e, old)
    BY <1>1 DEF StopHooksAt, StopTimersAt, SpliceAt, FinishSpliceAt, FinishOldAt
  <2>2. Job[1] \notin {"tick", "ticked"}
    BY <1>1
  <2>3. QED
    BY <1>1, <2>1, <2>2, LoopKinds, Zenon
<1>3. PICK X, L : \E e \in Elements, k \in Nat, old \in Seq(Items \cup {"inprogress"}) :
            FinishTimersAt(X, L, e, k, old)
  BY <1>2
<1>4. PICK e \in Elements, k \in Nat, old \in Seq(Items \cup {"inprogress"}) :
            FinishTimersAt(X, L, e, k, old)
  BY <1>3
<1>5. /\ Job = <<"finishTimers", e, k>> /\ StateOK /\ ItemsOK
      /\ k <= Len(timers) /\ Len(timers) \in Nat
  BY <1>4 DEF FinishTimersAt, FinishGoesOn, LoopAt, StateOK
<1>6. Job[2] = e /\ Job[3] = k /\ ~(k > Len(timers))
  BY <1>5
<1>7. CASE k = 0
  <2>1. Then(<<>>) /\ item' = item
    BY <1>6, <1>7 DEF FinishTimers
  <2>2. QED
    BY <1>1, <2>1, SameAlike, NoEndsKinds, LoopQuietFits
<1>8. CASE k # 0 /\ ~(Names(timers[k], e) /\ item[timers[k]].queued)
  <2>1. PICK n \in Nat : n = k - 1
    BY <1>8
  <2>2. PICK jobs : jobs = <<<<"finishTimers", e, n>>>>
    OBVIOUS
  <2>3. Then(jobs) /\ item' = item
    BY <1>6, <1>8, <2>1, <2>2 DEF FinishTimers
  <2>4. NoEnds(jobs)
    <3>1. <<"finishTimers", e, n>> \in JobSet
      BY JobTypes
    <3>2. QED
      BY <2>2, <3>1, NoEndsKinds
  <2>5. QED
    BY <1>1, <2>3, <2>4, SameAlike, LoopQuietFits
<1>9. CASE k # 0 /\ Names(timers[k], e) /\ item[timers[k]].queued
  <2>1. PICK n \in Nat : n = k - 1
    BY <1>9
  <2>2. PICK i : i = timers[k]
    OBVIOUS
  <2>3. PICK t : t = <<<<"splice", k>>, <<"finishTimers", e, n>>>>
    OBVIOUS
  <2>4. item' = [item EXCEPT ![i] = Stopped(i, TRUE)] /\ Then(StopJobs(i, TRUE) \o t)
    BY <1>6, <1>9, <2>1, <2>2, <2>3 DEF FinishTimers
  <2>5. i \in Items /\ item[i].kind # None
    <3>1. k \in 1..Len(timers)
      BY <1>5, <1>9
    <3>2. QED
      BY <1>5, <2>2, <3>1, TimerStarted
  <2>6. Changes(i)
    BY <1>5, <2>4, <2>5, ItemChanges
  <2>7. PICK o, f : o = "resolved" /\ f = item[i].elem
    OBVIOUS
  <2>8. Then(SettleJobs(i, o) \o t)
    BY <1>5, <2>4, <2>5, <2>7, StopSettles
  <2>9. LoopJobs(t)
    <3>1. <<"splice", k>> \in JobSet /\ <<"finishTimers", e, n>> \in JobSet
      BY JobTypes
    <3>2. QED
      BY <2>3, <3>1, LoopJobsTwo DEF ShortKinds
  <2>10. QED
    BY <1>1, <2>5, <2>6, <2>7, <2>8, <2>9, LoopSettleFits
<1>10. QED
  BY <1>7, <1>8, <1>9

\* The loop of finish over what was queued: it only starts something.
LEMMA FinishOldFits ==
    ASSUME IInv, EndsInv, FinishOld
    PROVE  EndsInv'
<1>1. ~Idle /\ Job[1] = "finishOld" /\ Job[1] \notin ShortKinds /\ item' = item
  BY DEF FinishOld, Doing, ShortKinds
<1>2. PICK X, L : \E e \in Elements, old \in Seq(Items \cup {"inprogress"}) :
            FinishOldAt(X, L, e, old)
  BY FinishOldIs
<1>3. PICK e \in Elements, old \in Seq(Items \cup {"inprogress"}) : FinishOldAt(X, L, e, old)
  BY <1>2
<1>4. Job[2] = e /\ Job[3] = old
  BY <1>3 DEF FinishOldAt
<1>5. CASE old = <<>>
  <2>1. Then(<<>>)
    BY <1>4, <1>5 DEF FinishOld
  <2>2. QED
    BY <1>1, <2>1, SameAlike, NoEndsKinds, LoopQuietFits
<1>6. CASE old # <<>>
  <2>1. Tail(old) \in Seq(Items \cup {"inprogress"})
    BY <1>6, HeadTailProperties
  <2>2. PICK b : b = <<<<"finishOld", e, Tail(old)>>>>
    OBVIOUS
  <2>3. PICK a : a = IF Head(old) \in Items /\ item[Head(old)].kind = "anim"
                     THEN <<<<"start", Head(old)>>>> ELSE <<>>
    OBVIOUS
  <2>4. PICK jobs : jobs = a \o b
    OBVIOUS
  <2>5. Then(jobs)
    BY <1>4, <1>6, <2>2, <2>3, <2>4 DEF FinishOld
  <2>6. /\ b \in Seq(JobSet) /\ DOMAIN b = {1} /\ b[1][1] = "finishOld"
    <3>1. <<"finishOld", e, Tail(old)>> \in JobSet
      BY <2>1, JobTypes
    <3>2. QED
      BY <2>2, <3>1
  <2>7. a \in Seq(JobSet) /\ \A m \in DOMAIN a : a[m][1] = "start"
    <3>1. CASE Head(old) \in Items /\ item[Head(old)].kind = "anim"
      <4>1. <<"start", Head(old)>> \in JobSet
        BY <3>1, JobTypes
      <4>2. QED
        BY <2>3, <3>1, <4>1
    <3>2. CASE ~(Head(old) \in Items /\ item[Head(old)].kind = "anim")
      BY <2>3, <3>2, EmptySeq
    <3>3. QED
      BY <3>1, <3>2
  <2>8. jobs \in Seq(JobSet) /\ \A n \in DOMAIN jobs : jobs[n][1] \in {"start", "finishOld"}
    <3>1. PICK k \in Nat, m \in Nat : k = Len(a) /\ m = Len(b)
      BY <2>6, <2>7, LenProperties
    <3>2. /\ DOMAIN a = 1..k /\ DOMAIN b = 1..m /\ DOMAIN jobs = 1..(k + m)
          /\ jobs \in Seq(JobSet)
          /\ \A n \in 1..(k + m) : jobs[n] = IF n <= k THEN a[n] ELSE b[n - k]
      BY <2>4, <2>6, <2>7, <3>1, LenProperties, ConcatProperties
    <3>3. ASSUME NEW n \in DOMAIN jobs
          PROVE  jobs[n][1] \in {"start", "finishOld"}
      <4>1. CASE n <= k
        BY <2>7, <3>2, <4>1
      <4>2. CASE ~(n <= k)
        <5>1. n - k \in DOMAIN b /\ jobs[n] = b[n - k]
          BY <3>1, <3>2, <4>2
        <5>2. QED
          BY <2>6, <5>1
      <4>3. QED
        BY <4>1, <4>2
    <3>4. QED
      BY <3>2, <3>3
  <2>9. NoEnds(jobs)
    BY <2>8 DEF NoEnds
  <2>10. QED
    BY <1>1, <2>5, <2>9, SameAlike, LoopQuietFits
<1>7. QED
  BY <1>5, <1>6

-----------------------------------------------------------------------------
(* The empty callbacks.                                                    *)

\* At first there are no jobs, and no items.
LEMMA EndsInit ==
    ASSUME Init
    PROVE  EndsInv
<1>1. \A i \in Items : item[i].kind = None
  BY DEF Init, NoItem
<1>2. Kinds
  BY <1>1 DEF Kinds
<1>3. todo = <<>>
  BY DEF Init
<1>4. QED
  BY <1>2, <1>3 DEF EndsInv, Fit

\* A step that changes nothing.
LEMMA EndsStutter ==
    ASSUME EndsInv, UNCHANGED vars
    PROVE  EndsInv'
<1>1. todo' = todo /\ item' = item /\ finishing' = finishing
  BY DEF vars
<1>2. Fit(todo)'
  BY <1>1 DEF EndsInv, Fit, GoesOn, Later, Earlier, BeingStopped
<1>3. QED
  BY <1>1, <1>2, SameAlike DEF EndsInv

\* Every step leaves jobs that fit.
LEMMA EndsNext ==
    ASSUME CarefulUses, OrderlyUses, IInv, EndsInv, Next
    PROVE  EndsInv'
<1>1. CASE Use
  <2>1. ASSUME NEW e \in Elements, NEW i \in Items, NEW instant \in BOOLEAN,
               AnimateUnqueued(e, i, instant)
        PROVE  EndsInv'
    BY <2>1, UnqueuedFits
  <2>2. ASSUME NEW e \in Elements, NEW i \in Items, NEW instant \in BOOLEAN,
               Animate(e, i, instant)
        PROVE  EndsInv'
    BY <2>2, QueueingFits
  <2>3. ASSUME NEW e \in Elements, NEW i \in Items, Delay(e, i)
        PROVE  EndsInv'
    BY <2>3, QueueingFits
  <2>4. ASSUME NEW e \in Elements, PromiseOf(e)
        PROVE  EndsInv'
    BY <2>4, PromiseFits
  <2>5. ASSUME NEW e \in Elements, ClearQueue(e)
        PROVE  EndsInv'
    BY <2>5, ClearFits
  <2>6. ASSUME NEW e \in Elements, Finish(e)
        PROVE  EndsInv'
    BY <2>6, FinishFits
  <2>7. ASSUME NEW e \in Elements, NEW clear \in BOOLEAN, NEW gotoEnd \in BOOLEAN,
               Stop(e, clear, gotoEnd)
        PROVE  EndsInv'
    BY <2>7, StopFits
  <2>8. ASSUME NEW e \in Elements, NEW i \in Items, AnimateEmpty(e, i)
        PROVE  EndsInv'
    BY <2>8, EmptyFits
  <2>9. QED
    BY <1>1, <2>1, <2>2, <2>3, <2>4, <2>5, <2>6, <2>7, <2>8 DEF Use
<1>2. CASE Continue
  <2>1. CASE HandlerReturns \/ UnqueuedEnds
    BY <2>1, EndFits
  <2>2. CASE Dequeue
    BY <2>2, DequeueFits
  <2>3. CASE StartDelay
    BY <2>3, DelayFits
  <2>4. CASE StartAnimation
    BY <2>4, AnimationFits
  <2>5. CASE ForcedEnd
    BY <2>5, ForcedFits
  <2>6. CASE TickGoesOn \/ TickRemoves \/ TickEnds
    BY <2>6, TickFits
  <2>7. CASE TickOver
    BY <2>7, TickOverFits
  <2>8. CASE StopHooks \/ Splice
    BY <2>8, StopHooksFits
  <2>9. CASE StopTimers
    BY <2>9, StopTimersFits
  <2>10. CASE FinishTimers
    BY <2>10, FinishTimersFits
  <2>11. CASE FinishOld
    BY <2>11, FinishOldFits
  <2>12. ~HandlerThrows
    BY NothingThrows
  <2>13. QED
    BY <1>2, <2>1, <2>2, <2>3, <2>4, <2>5, <2>6, <2>7, <2>8, <2>9, <2>10, <2>11, <2>12
       DEF Continue
<1>3. CASE TickBegins \/ \E i \in Items : DelayEnds(i)
  BY <1>3, TimeoutFits
<1>4. QED
  BY <1>1, <1>2, <1>3 DEF Next

\* The hooks of e are removed, and its empty callbacks fire.
Fires(e) == hooks[e].present /\ ~hooks'[e].present

\* No animation of e runs, and no handler of one is still to be called.
AllDone(e) ==
    /\ \A i \in Items : item[i].elem = e /\ item[i].kind = "anim" => item'[i].st # "running"
    /\ \A n \in DOMAIN todo' : todo'[n][1] = "handler" => item[todo'[n][2]].elem # e

\* What is left of the jobs when one is done.
LEMMA JobsLeft ==
    ASSUME todo \in Seq(JobSet), ~Idle, Then(<<>>)
    PROVE  /\ todo' \in Seq(JobSet) /\ DOMAIN todo \subseteq Nat /\ 1 \in DOMAIN todo
           /\ Job = todo[1]
           /\ \A n \in DOMAIN todo' : n \in Nat /\ n + 1 \in DOMAIN todo /\ todo'[n] = todo[n + 1]
           /\ \A n \in DOMAIN todo : n > 1 => n - 1 \in DOMAIN todo' /\ todo'[n - 1] = todo[n]
<1>1. PICK jobs : jobs = <<>>
  OBVIOUS
<1>2. jobs \in Seq(JobSet) /\ Then(jobs) /\ Len(jobs) = 0
  BY <1>1, EmptySeq
<1>3. Pushed(1, jobs)
  BY <1>2, ThenPushes
<1>4. /\ Len(todo) \in Nat /\ 1 <= Len(todo) /\ DOMAIN todo = 1..Len(todo)
      /\ DOMAIN todo' = 1..(Len(todo) - 1)
      /\ \A n \in 2..Len(todo) : todo'[n - 1] = todo[n]
  BY <1>2, <1>3 DEF Pushed
<1>5. todo' \in Seq(JobSet)
  <2>1. PICK t : t = Tail(todo)
    OBVIOUS
  <2>2. t \in Seq(JobSet)
    BY <2>1, HeadTailProperties DEF Idle
  <2>3. todo' = jobs \o t
    BY <1>2, <2>1 DEF Then
  <2>4. QED
    BY <1>2, <2>2, <2>3, ConcatProperties
<1>6. Job = todo[1]
  BY HeadTailProperties DEF Job, Idle
<1>7. \A n \in 2..Len(todo) : n - 1 \in DOMAIN todo' /\ todo'[n - 1] = todo[n]
  BY <1>4
<1>8. ASSUME NEW n \in DOMAIN todo'
      PROVE  n \in Nat /\ n + 1 \in DOMAIN todo /\ todo'[n] = todo[n + 1]
  <2>1. PICK m : m = n + 1
    OBVIOUS
  <2>2. n \in Nat /\ m \in 2..Len(todo) /\ m - 1 = n /\ m \in DOMAIN todo
    BY <1>4, <2>1
  <2>3. QED
    BY <1>7, <2>1, <2>2
<1>9. QED
  BY <1>4, <1>5, <1>6, <1>7, <1>8

\* A job of the kind of a handler is one of an item.
LEMMA HandlerJob ==
    ASSUME NEW j \in JobSet, j[1] = "handler"
    PROVE  j[2] \in Items /\ j = <<"handler", j[2]>>
BY DEF JobSet

\* When a call of dequeue or the last callback of an unqueued animation is done,
\* nothing of the element runs, and no such callback is left, all are done: the
\* handlers of what was queued would have come before that call.
LEMMA LastCall ==
    ASSUME IInv, EndsInv, NEW e \in Elements, ~BeingStopped(e), ~Idle,
           Job = <<"dequeue", e>> \/ Job = <<"unqueued", e>>, Then(<<>>), item' = item,
           Running(e) = {}, RunningUnqueued(e) = {}, U(e)' = 0
    PROVE  AllDone(e)
<1>1. PICK X, L : Turn(X, L)
  BY DEF IInv
<1>2. todo \in Seq(JobSet) /\ ItemsOK
  BY <1>1, TopJob DEF IInv, StateOK
<1>3. /\ todo' \in Seq(JobSet) /\ DOMAIN todo \subseteq Nat /\ 1 \in DOMAIN todo /\ Job = todo[1]
      /\ \A n \in DOMAIN todo' : n \in Nat /\ n + 1 \in DOMAIN todo /\ todo'[n] = todo[n + 1]
      /\ \A n \in DOMAIN todo : n > 1 => n - 1 \in DOMAIN todo' /\ todo'[n - 1] = todo[n]
  BY <1>2, JobsLeft
<1>4. ASSUME NEW i \in Items, item[i].elem = e
      PROVE  item'[i].st # "running"
  <2>1. item[i].queued \in BOOLEAN
    BY <1>2 DEF ItemsOK, ItemSet
  <2>2. QED
    BY <1>4, <2>1 DEF Running, RunningUnqueued
<1>5. ASSUME NEW n \in DOMAIN todo', todo'[n][1] = "handler", item[todo'[n][2]].elem = e
      PROVE  FALSE
  <2>1. todo'[n] \in JobSet
    BY <1>3
  <2>2. PICK i \in Items : todo'[n] = <<"handler", i>> /\ item[i].elem = e
    BY <1>5, <2>1, HandlerJob
  <2>3. PICK k \in DOMAIN todo : k = n + 1 /\ k > 1 /\ todo[k] = <<"handler", i>>
    <3>1. n \in Nat /\ n + 1 \in DOMAIN todo /\ todo[n + 1] = <<"handler", i>> /\ n # 0
      <4>1. n \in DOMAIN todo' /\ DOMAIN todo' = 1..Len(todo') /\ Len(todo') \in Nat
        BY <1>3, LenProperties
      <4>2. QED
        BY <1>3, <2>2, <4>1
    <3>2. QED
      BY <3>1
  <2>4. GoesOn(todo, i, k)
    BY <2>2, <2>3 DEF EndsInv, Fit
  <2>5. CASE item[i].queued
    <3>1. ~Earlier(todo, k, <<"dequeue", e>>) /\ ~Earlier(todo, k, <<"unqueued", e>>)
      BY <2>2, <2>4, <2>5 DEF GoesOn
    <3>2. 1 < k /\ 1 \in DOMAIN todo
      BY <1>3, <2>3
    <3>3. QED
      BY <1>3, <3>1, <3>2 DEF Earlier
  <2>6. CASE ~item[i].queued
    <3>1. PICK m \in DOMAIN todo : m > k /\ todo[m] = <<"unqueued", e>>
      BY <2>2, <2>4, <2>6 DEF GoesOn, Later
    <3>2. m > 1
      BY <1>3, <2>3, <3>1
    <3>3. PICK p \in DOMAIN todo' : todo'[p] = <<"unqueued", e>>
      BY <1>3, <3>1, <3>2
    <3>4. PICK s : s = todo'
      OBVIOUS
    <3>5. Count(s, s[p]) > 0 /\ s[p] = <<"unqueued", e>> /\ Count(s, s[p]) \in Nat
      BY <1>3, <3>3, <3>4, Counted
    <3>6. Count(todo', <<"unqueued", e>>) = 0
      BY DEF U
    <3>7. QED
      BY <3>4, <3>5, <3>6
  <2>7. QED
    BY <2>5, <2>6
<1>6. QED
  BY <1>4, <1>5 DEF AllDone

\* What the counts say of e when all of it ends.
LEMMA NoneLeft ==
    ASSUME IInv, NEW e \in Elements, R(e) = 0, hooks[e].unqueued - U(e) <= 0
    PROVE  /\ Running(e) = {} /\ RunningUnqueued(e) = {}
           /\ U(e) \in Nat /\ hooks[e].unqueued \in Nat
<1>1. PICK X, L : Turn(X, L)
  BY DEF IInv
<1>2. todo \in Seq(JobSet)
  BY <1>1, TopJob
<1>3. U(e) \in Nat
  BY <1>2, CountType DEF U
<1>4. CountOK(e) /\ hooks[e].unqueued \in Nat
  BY DEF IInv, StateOK, HooksOK, HookSet
<1>5. Cardinality(RunningUnqueued(e)) \in Nat /\ IsFiniteSet(RunningUnqueued(e))
  BY CardinalityTypes
<1>6. Cardinality(RunningUnqueued(e)) = 0
  BY <1>3, <1>4, <1>5 DEF CountOK, U
<1>7. RunningUnqueued(e) = {}
  BY <1>5, <1>6, FS_EmptySet
<1>8. QED
  BY <1>3, <1>4, <1>7, NoneRuns

\* A call of dequeue that removes the hooks: nobody else has the right to go on,
\* so nothing runs.
LEMMA DequeueFires ==
    ASSUME IInv, EndsInv, Dequeue, NEW f \in Elements, Fires(f), ~BeingStopped(f)
    PROVE  AllDone(f)
<1>1. PICK X, L : Turn(X, L)
  BY DEF IInv
<1>2. ~Idle /\ Job[1] = "dequeue" /\ item' = item
  BY DEF Dequeue, Doing
<1>3. PICK e \in Elements : Job = <<"dequeue", e>>
  BY <1>1, <1>2, TopIsShort, ShortFacts DEF ShortKinds
<1>4. hooks \in [Elements -> HookSet]
  BY DEF IInv, StateOK, HooksOK
<1>5. \/ NextOf(e) = <<>> /\ EmptyFires(e) /\ Then(<<>>)
      \/ hooks' = [hooks EXCEPT ![e].present = TRUE, ![e].stop = None]
  BY <1>3 DEF Dequeue, NextOf
<1>6. CASE hooks' = [hooks EXCEPT ![e].present = TRUE, ![e].stop = None]
  <2>1. hooks'[f].present = IF f = e THEN TRUE ELSE hooks[f].present
    BY <1>4, <1>6 DEF HookSet
  <2>2. QED
    BY <2>1 DEF Fires
<1>7. CASE NextOf(e) = <<>> /\ EmptyFires(e) /\ Then(<<>>)
  <2>1. f = e /\ ~(hooks[e].unqueued > 0)
    <3>1. hooks' = IF hooks[e].unqueued > 0 THEN hooks ELSE [hooks EXCEPT ![e] = NoHooks]
      BY <1>7 DEF EmptyFires
    <3>2. QED
      BY <1>4, <3>1 DEF Fires
  <2>2. PICK Y : Follows(X, L, <<>>, Y)
    BY <1>1, <1>2, <1>7, ThenFollows, EmptySeq DEF ShortKinds
  <2>3. /\ U(e) \in Nat /\ U(e)' = U(e)
    <3>1. Job # <<"unqueued", e>>
      BY <1>3
    <3>2. QED
      BY <1>1, <2>2, <3>1, EndNumbers
  <2>4. hooks[e].unqueued \in Nat
    BY <1>4 DEF HookSet
  <2>5. R(e) = 0
    <3>1. Ordinary(e)
      BY <1>1, <2>1, NotStopped
    <3>2. D(e) \in Nat /\ D(e) > 0
      BY <1>1, <1>2, <1>3, TopJob, TopCounted DEF D
    <3>3. R(e) \in Nat /\ T(e) \in {0, 1}
      BY <1>1, <2>2, TopJob, FollowsCount, Numbers DEF NumbersOK
    <3>4. QED
      BY <3>1, <3>2, <3>3 DEF Ordinary
  <2>6. hooks[e].unqueued = 0 /\ hooks[e].unqueued - U(e) <= 0
    BY <2>1, <2>3, <2>4
  <2>7. Running(e) = {} /\ RunningUnqueued(e) = {}
    BY <2>5, <2>6, NoneLeft
  <2>8. U(e) = 0
    <3>1. CountOK(e) /\ Cardinality(RunningUnqueued(e)) \in Nat
      BY CardinalityTypes DEF IInv, StateOK, HooksOK
    <3>2. QED
      BY <2>3, <2>6, <3>1 DEF CountOK, U
  <2>9. QED
    BY <1>2, <1>3, <1>7, <2>1, <2>3, <2>7, <2>8, LastCall
<1>8. QED
  BY <1>5, <1>6, <1>7

\* The last unqueued animation, that finds the queue empty.
LEMMA UnqueuedFires ==
    ASSUME IInv, EndsInv, UnqueuedEnds, NEW f \in Elements, Fires(f), ~BeingStopped(f)
    PROVE  AllDone(f)
<1>1. PICK X, L : Turn(X, L)
  BY DEF IInv
<1>2. ~Idle /\ Job[1] = "unqueued" /\ item' = item /\ Then(<<>>)
  BY DEF UnqueuedEnds, Doing
<1>3. PICK e \in Elements : Job = <<"unqueued", e>>
  BY <1>1, <1>2, TopIsShort, ShortFacts DEF ShortKinds
<1>4. hooks \in [Elements -> HookSet]
  BY DEF IInv, StateOK, HooksOK
<1>5. PICK left : left = hooks[e].unqueued - 1
  OBVIOUS
<1>6. \/ queue[e] = <<>> /\ left = 0 /\ hooks' = [hooks EXCEPT ![e] = NoHooks]
      \/ hooks' = [hooks EXCEPT ![e].unqueued = left]
  BY <1>3, <1>5 DEF UnqueuedEnds
<1>7. CASE hooks' = [hooks EXCEPT ![e].unqueued = left]
  <2>1. hooks'[f].present = hooks[f].present
    BY <1>4, <1>7 DEF HookSet
  <2>2. QED
    BY <2>1 DEF Fires
<1>8. CASE queue[e] = <<>> /\ left = 0 /\ hooks' = [hooks EXCEPT ![e] = NoHooks]
  <2>1. f = e
    BY <1>4, <1>8 DEF Fires
  <2>2. PICK Y : Follows(X, L, <<>>, Y)
    BY <1>1, <1>2, ThenFollows, EmptySeq DEF ShortKinds
  <2>3. U(e) \in Nat /\ U(e)' = U(e) - 1
    BY <1>1, <1>3, <2>2, EndNumbers
  <2>4. U(e) > 0
    BY <1>1, <1>2, <1>3, TopJob, TopCounted DEF U
  <2>5. R(e) = 0
    BY <1>1, <1>8, <2>1, NotStopped DEF Ordinary
  <2>6. hooks[e].unqueued \in Nat
    BY <1>4 DEF HookSet
  <2>7. hooks[e].unqueued = 1 /\ hooks[e].unqueued - U(e) <= 0
    BY <1>5, <1>8, <2>3, <2>4, <2>6
  <2>8. Running(e) = {} /\ RunningUnqueued(e) = {}
    BY <2>5, <2>7, NoneLeft
  <2>9. U(e) <= hooks[e].unqueued
    <3>1. CountOK(e) /\ Cardinality(RunningUnqueued(e)) \in Nat
      BY CardinalityTypes DEF IInv, StateOK, HooksOK
    <3>2. QED
      BY <2>3, <2>6, <3>1 DEF CountOK, U
  <2>10. U(e)' = 0
    BY <2>3, <2>4, <2>7, <2>9
  <2>11. QED
    BY <1>2, <1>3, <2>1, <2>8, <2>10, LastCall
<1>9. QED
  BY <1>6, <1>7, <1>8

\* Nothing else removes hooks.
LEMMA OthersKeepHooks ==
    ASSUME CarefulUses, IInv, Next, NEW f \in Elements, Fires(f)
    PROVE  Dequeue \/ UnqueuedEnds
<1>1. hooks \in [Elements -> HookSet]
  BY DEF IInv, StateOK, HooksOK
<1>2. hooks[f].present = TRUE /\ hooks'[f].present # TRUE /\ hooks' # hooks
  BY DEF Fires
<1>3. ASSUME NEW e \in Elements, hooks' = [hooks EXCEPT ![e].present = TRUE]
      PROVE  FALSE
  BY <1>1, <1>2, <1>3 DEF HookSet
<1>4. ASSUME Use
      PROVE  FALSE
  <2>1. ASSUME NEW e \in Elements, NEW i \in Items, NEW x, Enqueue(e, i, x)
        PROVE  FALSE
    BY <1>3, <2>1 DEF Enqueue
  <2>2. ASSUME NEW e \in Elements, NEW i \in Items, NEW instant \in BOOLEAN,
               AnimateUnqueued(e, i, instant)
        PROVE  FALSE
    BY <1>2, <2>2 DEF AnimateUnqueued
  <2>3. ASSUME NEW e \in Elements, PromiseOf(e)
        PROVE  FALSE
    <3>1. hooks' = [hooks EXCEPT ![e].waiting = TRUE]
      BY <2>3 DEF PromiseOf
    <3>2. hooks'[f].present = hooks[f].present
      BY <1>1, <3>1 DEF HookSet
    <3>3. QED
      BY <1>2, <3>2
  <2>4. ASSUME NEW e \in Elements, ClearQueue(e)
        PROVE  FALSE
    BY <1>3, <2>4 DEF ClearQueue
  <2>5. ASSUME NEW e \in Elements, Finish(e)
        PROVE  FALSE
    BY <1>2, <2>5 DEF Finish
  <2>6. ASSUME NEW e \in Elements, NEW clear \in BOOLEAN, NEW gotoEnd \in BOOLEAN,
               Stop(e, clear, gotoEnd)
        PROVE  FALSE
    <3>1. hooks' = [hooks EXCEPT ![e].present = @ \/ clear]
      BY <2>6 DEF Stop
    <3>2. hooks'[f].present = IF f = e THEN hooks[f].present \/ clear ELSE hooks[f].present
      BY <1>1, <3>1 DEF HookSet
    <3>3. QED
      BY <1>2, <3>2
  <2>7. ASSUME NEW e \in Elements, NEW i \in Items, AnimateEmpty(e, i)
        PROVE  FALSE
    BY <1>2, <2>7 DEF AnimateEmpty
  <2>8. QED
    BY <1>4, <2>1, <2>2, <2>3, <2>4, <2>5, <2>6, <2>7 DEF Use, Animate, Delay
<1>5. ASSUME StartDelay
      PROVE  FALSE
  <2>1. PICK e, i : hooks' = [hooks EXCEPT ![e].stop = i]
    BY <1>5 DEF StartDelay
  <2>2. hooks'[f].present = hooks[f].present
    BY <1>1, <2>1 DEF HookSet
  <2>3. QED
    BY <1>2, <2>2
<1>6. ASSUME StartAnimation
      PROVE  FALSE
  <2>1. PICK e : hooks' = [hooks EXCEPT ![e].present = TRUE, ![e].unqueued = @ + 1]
    BY <1>2, <1>6 DEF StartAnimation
  <2>2. hooks'[f].present = IF f = e THEN TRUE ELSE hooks[f].present
    BY <1>1, <2>1 DEF HookSet
  <2>3. QED
    BY <1>2, <2>2
<1>7. ASSUME StopHooks
      PROVE  FALSE
  <2>1. PICK e : hooks' = [hooks EXCEPT ![e].stop = None]
    BY <1>7 DEF StopHooks
  <2>2. hooks'[f].present = hooks[f].present
    BY <1>1, <2>1 DEF HookSet
  <2>3. QED
    BY <1>2, <2>2
<1>8. /\ HandlerReturns \/ ForcedEnd \/ TickGoesOn \/ TickOver \/ TickRemoves => hooks' = hooks
      /\ TickEnds \/ StopTimers \/ Splice \/ FinishTimers \/ FinishOld => hooks' = hooks
      /\ TickBegins \/ (\E i \in Items : DelayEnds(i)) => hooks' = hooks
  <2>1. HandlerReturns \/ ForcedEnd \/ TickGoesOn \/ TickOver \/ TickRemoves => hooks' = hooks
    BY DEF HandlerReturns, ForcedEnd, TickGoesOn, TickOver, TickRemoves
  <2>2. TickEnds \/ StopTimers \/ Splice \/ FinishTimers \/ FinishOld => hooks' = hooks
    BY DEF TickEnds, StopTimers, Splice, FinishTimers, FinishOld
  <2>3. TickBegins \/ (\E i \in Items : DelayEnds(i)) => hooks' = hooks
    BY DEF TickBegins, DelayEnds
  <2>4. QED
    BY <2>1, <2>2, <2>3
<1>9. ~HandlerThrows
  BY NothingThrows
<1>10. QED
  BY <1>2, <1>4, <1>5, <1>6, <1>7, <1>8, <1>9 DEF Next, Continue

\* What ends in every state of the invariants is complete.
LEMMA FiresComplete ==
    ASSUME CarefulUses, IInv, EndsInv, Next, NEW f \in Elements, Fires(f), ~BeingStopped(f)
    PROVE  AllDone(f)
BY OthersKeepHooks, DequeueFires, UnqueuedFires

\* Handlers come first: where unqueued animations take time, and animate with no
\* properties is not used with handlers that dequeue, the empty callbacks of an
\* element that nobody stops fire when no animation of it runs and no completion
\* handler of one is still to be called.
THEOREM HandlersComeFirst ==
    ASSUME CarefulUses, OrderlyUses
    PROVE  Spec => EmptyMeansComplete
<1> DEFINE Complete == \A e \in Elements \ lost :
        hooks[e].present /\ ~hooks'[e].present /\ ~BeingStopped(e) =>
            /\ \A i \in Items : item[i].elem = e /\ item[i].kind = "anim" => item'[i].st # "running"
            /\ \A n \in DOMAIN todo' :
                todo'[n][1] = "handler" => item[todo'[n][2]].elem # e
<1>1. Init => EndsInv
  BY EndsInit
<1>2. IInv /\ EndsInv /\ [Next]_vars => EndsInv'
  BY EndsNext, EndsStutter
<1>3. IInv /\ EndsInv /\ [Next]_vars => [Complete]_vars
  BY FiresComplete DEF Fires, AllDone
<1>4. Spec => []IInv
  BY Inductive
<1>5. Spec => [][Complete]_vars
  <2> HIDE DEF Complete
  <2>1. QED
    BY <1>1, <1>2, <1>3, <1>4, PTL DEF Spec
<1>6. QED
  BY <1>5 DEF EmptyMeansComplete

=============================================================================
