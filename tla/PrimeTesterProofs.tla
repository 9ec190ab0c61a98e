------------------------- MODULE PrimeTesterProofs -------------------------
(***************************************************************************)
(* What holds of PrimeTester for all sets of numbers, routees and streams, *)
(* and however many tasks, faults and restarts there are; and, until the   *)
(* first restart, that tasks move forward and streams see them do so, so   *)
(* that PrimeTester implements TaskLedger.  At the end, that the           *)
(* calculation of a Worker, TrialDivision, is right for every number:      *)
(* PrimeTester takes its Verdict to be.                                    *)
(***************************************************************************)
EXTENDS PrimeTester, TrialDivision, SequenceTheorems, WellFoundedInduction, TLAPS

-----------------------------------------------------------------------------
(* Messages and channels.                                                  *)

\* The fields of an assignment.
LEMMA AssignmentFields ==
    ASSUME NEW a \in Assignments
    PROVE  a.taskId \in TaskIds /\ a.number \in Numbers
BY DEF Assignments, TaskIdAssigned

\* The fields of the two kinds of event.
LEMMA EventFields ==
    ASSUME NEW e \in Events
    PROVE  /\ e.taskId \in TaskIds
           /\ e.class \in {"CalculationStarted", "CalculationFinished"}
           /\ e.class = "CalculationFinished" =>
                /\ e \in FinishEvents
                /\ e.number \in Numbers
                /\ e.verdict = Verdict(Value[e.number])
BY DEF Events, StartEvents, FinishEvents, CalculationStarted, CalculationFinished

\* What a worker publishes are events of the task it was assigned.
LEMMA PublishedEvents ==
    ASSUME NEW t \in TaskIds, NEW s \in Numbers
    PROVE  /\ CalculationStarted(t) \in Events
           /\ CalculationStarted(t).class = "CalculationStarted"
           /\ CalculationStarted(t).taskId = t
           /\ CalculationFinished(t, s) \in Events
           /\ CalculationFinished(t, s).class = "CalculationFinished"
           /\ CalculationFinished(t, s).taskId = t
           /\ CalculationFinished(t, s).number = s
BY DEF Events, StartEvents, FinishEvents, CalculationStarted, CalculationFinished

\* Taking the head of a channel.
LEMMA TailOfChannel ==
    ASSUME NEW S, NEW c \in Seq(S), c # <<>>
    PROVE  /\ Head(c) \in S
           /\ Head(c) = c[1]
           /\ 1 \in DOMAIN c
           /\ Tail(c) \in Seq(S)
           /\ \A i \in DOMAIN Tail(c) : i + 1 \in DOMAIN c /\ Tail(c)[i] = c[i + 1]
           /\ \A i \in DOMAIN c : i # 1 => i - 1 \in DOMAIN Tail(c) /\ Tail(c)[i - 1] = c[i]
BY HeadTailProperties

\* Adding to the end of a channel.
LEMMA AppendToChannel ==
    ASSUME NEW S, NEW c \in Seq(S), NEW e \in S
    PROVE  /\ Append(c, e) \in Seq(S)
           /\ Len(c) + 1 \in DOMAIN Append(c, e)
           /\ Append(c, e)[Len(c) + 1] = e
           /\ \A i \in DOMAIN c : i \in DOMAIN Append(c, e) /\ Append(c, e)[i] = c[i]
           /\ \A i \in DOMAIN Append(c, e) : i \in DOMAIN c \/ i = Len(c) + 1
           /\ \A i \in DOMAIN c : i < Len(c) + 1
BY AppendProperties

-----------------------------------------------------------------------------
(* Type correctness.                                                       *)

LEMMA TypeInit == Init => TypeOK
BY ConstantsAssumption
DEF Init, TypeOK, ChannelInit, TaskStorageInit, ResultStorageInit,
    StatusTopicInit, WorkerPoolInit, ChannelTypeOK, TaskStorageTypeOK,
    ResultStorageTypeOK, StatusTopicTypeOK, WorkerPoolTypeOK, NoEntry

\* Publishing keeps mailboxes and history well typed.
LEMMA PublishType ==
    ASSUME TypeOK, NEW w \in Workers, NEW e \in Events, Publish(w, e)
    PROVE  /\ mail' \in [Storages -> [Workers -> Seq(Events)]]
           /\ lost' \in [Storages -> SUBSET TaskIds]
           /\ faults' \in Nat
<1> USE DEF TypeOK, ChannelTypeOK
<1>1. e.taskId \in TaskIds
  BY EventFields
<1>2. \A s \in Storages : Append(mail[s][w], e) \in Seq(Events)
  BY AppendProperties
<1>3. \A reached \in SUBSET Storages : Deliver(w, e, reached) =>
        /\ mail' \in [Storages -> [Workers -> Seq(Events)]]
        /\ lost' \in [Storages -> SUBSET TaskIds]
  BY <1>1, <1>2 DEF Deliver
<1>4. faults' \in Nat
  BY DEF Publish, Fault
<1>5. QED
  BY <1>3, <1>4 DEF Publish, StatusTopicTypeOK

\* The tasks of a channel are tasks.
LEMMA AssignedType ==
    ASSUME NEW c \in Seq(Assignments)
    PROVE  Assigned(c) \subseteq TaskIds
BY AssignmentFields, ElementOfSeq DEF Assigned

\* So does dropping tasks.
LEMMA DropType ==
    ASSUME TypeOK, NEW T \in SUBSET TaskIds, Drop(T)
    PROVE  lost' \in [Storages -> SUBSET TaskIds]
BY DEF Drop, TypeOK, ChannelTypeOK

LEMMA CreateTaskType ==
    ASSUME TypeOK, NEW s \in Numbers, CreateTask(s)
    PROVE  TypeOK'
<1> USE DEF TypeOK, CreateTask, QueueNewMessage, streamVars, poolVars
<1>1. id' \in 0..MaxTasks /\ id + 1 \in TaskIds
  BY ConstantsAssumption DEF TaskStorageTypeOK, TaskIds
<1>2. TaskIdAssigned(id + 1, s) \in Assignments
  BY <1>1 DEF Assignments
<1>3. ChannelTypeOK'
  BY <1>1, <1>2, AppendProperties DEF ChannelTypeOK
<1>4. TaskStorageTypeOK'
  BY <1>1 DEF TaskStorageTypeOK, Statuses
<1>5. QED
  BY <1>3, <1>4 DEF ResultStorageTypeOK, StatusTopicTypeOK, WorkerPoolTypeOK

LEMMA WatchType ==
    ASSUME TypeOK, NEW t \in TaskIds, NEW b \in Streams, Watch(t, b)
    PROVE  TypeOK'
<1> USE DEF TypeOK, Watch, RegisterNewSSESubscription
<1>1. TaskStorageTypeOK'
  <2>1. CASE RegisterKnown(t, b)
    <3>1. events' \in [Streams -> Seq(Statuses)]
      BY <2>1, AppendProperties DEF RegisterKnown, Broadcast, TaskStorageTypeOK
    <3>2. QED
      BY <2>1, <3>1 DEF RegisterKnown, TaskStorageTypeOK
  <2>2. CASE RegisterUnknown(t)
    BY <2>2, ConstantsAssumption
    DEF RegisterUnknown, NewInstance, NoEntry, TaskStorageTypeOK
  <2>3. QED
    BY <2>1, <2>2
<1>2. QED
  BY <1>1 DEF channelVars, poolVars, ChannelTypeOK, ResultStorageTypeOK,
              StatusTopicTypeOK, WorkerPoolTypeOK

\* Receive takes the head of a channel and leaves the others alone.
LEMMA ReceiveType ==
    ASSUME TypeOK, NEW s \in Storages, NEW w \in Workers, Receive(s, w)
    PROVE  /\ mail' \in [Storages -> [Workers -> Seq(Events)]]
           /\ Head(mail[s][w]) \in Events
BY TailOfChannel DEF TypeOK, ChannelTypeOK, Receive

LEMMA TaskStorageReceivesType ==
    ASSUME TypeOK, NEW w \in Workers, TaskStorageReceives(w)
    PROVE  TypeOK'
<1> USE DEF TypeOK, TaskStorageReceives, ReceiveStateChange, poolVars
<1> DEFINE m == Head(mail["taskStorage"][w])
<1>1. mail' \in [Storages -> [Workers -> Seq(Events)]] /\ m.taskId \in TaskIds
  BY ReceiveType, EventFields DEF Storages
<1>2. StatusOf(m) \in Statuses
  BY DEF StatusOf, Statuses
<1>3. events' \in [Streams -> Seq(Statuses)]
  <2> HIDE DEF m
  <2>1. Broadcast(subscriptions[m.taskId], StatusOf(m))
    BY DEF m, RecordStateChange
  <2>2. QED
    BY <2>1, <1>1, <1>2, AppendProperties DEF Broadcast, TaskStorageTypeOK
<1>4. TaskStorageTypeOK'
  BY <1>1, <1>2, <1>3 DEF RecordStateChange, TaskStorageTypeOK
<1>5. QED
  BY <1>1, <1>4 DEF ChannelTypeOK, ResultStorageTypeOK, StatusTopicTypeOK, WorkerPoolTypeOK

LEMMA ResultStorageReceivesType ==
    ASSUME TypeOK, NEW w \in Workers, ResultStorageReceives(w)
    PROVE  TypeOK'
<1> USE DEF TypeOK, ResultStorageReceives, ReceiveResult, poolVars, taskStorageVars
<1> DEFINE m == Head(mail["resultStorage"][w])
<1>1. mail' \in [Storages -> [Workers -> Seq(Events)]] /\ m \in Events
  BY ReceiveType DEF Storages
<1>2. ResultStorageTypeOK'
  BY <1>1, EventFields DEF StoreResult, ResultStorageTypeOK
<1>3. QED
  BY <1>1, <1>2 DEF ChannelTypeOK, TaskStorageTypeOK, StatusTopicTypeOK, WorkerPoolTypeOK

LEMMA PoolChangesType ==
    ASSUME TypeOK, NEW w \in Workers, PoolChanges(w)
    PROVE  TypeOK'
<1> USE DEF TypeOK, taskStorageVars, channelVars
<1>1. Assigned(toWorker[w]) \subseteq TaskIds
  BY AssignedType DEF ChannelTypeOK
<1>2. [toWorker EXCEPT ![w] = <<>>] \in [Workers -> Seq(Assignments)]
  BY EmptySeq DEF ChannelTypeOK
<1>3. /\ TaskStorageTypeOK' /\ ResultStorageTypeOK' /\ StatusTopicTypeOK'
  <2>1. UNCHANGED <<taskStorageVars, results, subscribers>>
    BY DEF PoolChanges
  <2>2. QED
    BY <2>1 DEF TaskStorageTypeOK, ResultStorageTypeOK, StatusTopicTypeOK
<1>4. ChannelTypeOK' /\ WorkerPoolTypeOK'
  <2>1. CASE AddRoutee(w)
    BY <2>1 DEF AddRoutee, ChannelTypeOK, WorkerPoolTypeOK
  <2>2. CASE RemoveRoutee(w)
    BY <2>2 DEF RemoveRoutee, ChannelTypeOK, WorkerPoolTypeOK
  <2>3. CASE StopRoutee(w)
    <3>1. lost' \in [Storages -> SUBSET TaskIds]
      BY <2>3, <1>1, DropType DEF StopRoutee
    <3>2. QED
      BY <2>3, <1>2, <3>1 DEF StopRoutee, ChannelTypeOK, WorkerPoolTypeOK
  <2>4. CASE CrashWorker(w)
    <3>1. running[w] # Null => running[w].taskId \in TaskIds
      BY AssignmentFields DEF WorkerPoolTypeOK
    <3>2. lost' \in [Storages -> SUBSET TaskIds]
      BY <2>4, <1>1, <3>1, DropType DEF CrashWorker
    <3>3. faults' \in Nat
      BY <2>4 DEF CrashWorker, Fault, ChannelTypeOK
    <3>4. QED
      BY <2>4, <1>2, <3>2, <3>3 DEF CrashWorker, ChannelTypeOK, WorkerPoolTypeOK
  <2>5. QED
    BY <2>1, <2>2, <2>3, <2>4 DEF PoolChanges
<1>5. QED
  BY <1>3, <1>4

LEMMA ProxyForwardsType ==
    ASSUME TypeOK, ProxyForwards
    PROVE  TypeOK'
<1> USE DEF TypeOK, taskStorageVars, poolVars
<1>1. /\ Head(toProxy) \in Assignments /\ Tail(toProxy) \in Seq(Assignments)
      /\ Head(toProxy).taskId \in TaskIds
  <2>1. toProxy # <<>>
    BY DEF ProxyForwards, Forward, ForwardToDeadLetters, ForwardLost
  <2>2. QED
    BY <2>1, TailOfChannel, AssignmentFields DEF ChannelTypeOK
<1>2. TaskStorageTypeOK' /\ ResultStorageTypeOK' /\ StatusTopicTypeOK'
  BY DEF ProxyForwards, TaskStorageTypeOK, ResultStorageTypeOK, StatusTopicTypeOK
<1>3. WorkerPoolTypeOK'
  BY DEF ProxyForwards, Forward, ForwardToDeadLetters, ForwardLost, WorkerPoolTypeOK
<1>4. ChannelTypeOK'
  <2>1. ASSUME NEW w \in Workers, Forward(w)
        PROVE  ChannelTypeOK'
    BY <2>1, <1>1, AppendProperties DEF Forward, ChannelTypeOK
  <2>2. CASE ForwardToDeadLetters
    <3>1. lost' \in [Storages -> SUBSET TaskIds]
      BY <2>2, <1>1, DropType DEF ForwardToDeadLetters
    <3>2. QED
      BY <2>2, <1>1, <3>1 DEF ForwardToDeadLetters, ChannelTypeOK
  <2>3. CASE ForwardLost
    <3>1. lost' \in [Storages -> SUBSET TaskIds]
      BY <2>3, <1>1, DropType DEF ForwardLost
    <3>2. QED
      BY <2>3, <1>1, <3>1 DEF ForwardLost, Fault, ChannelTypeOK
  <2>4. QED
    BY <2>1, <2>2, <2>3 DEF ProxyForwards
<1>5. QED
  BY <1>2, <1>3, <1>4

LEMMA WorkerBeginsType ==
    ASSUME TypeOK, NEW w \in Workers, WorkerBegins(w)
    PROVE  TypeOK'
<1> USE DEF TypeOK, taskStorageVars, WorkerBegins, BeginCalculation
<1>1. /\ Head(toWorker[w]) \in Assignments /\ Tail(toWorker[w]) \in Seq(Assignments)
      /\ Head(toWorker[w]).taskId \in TaskIds
  BY TailOfChannel, AssignmentFields DEF ChannelTypeOK
<1>2. CalculationStarted(Head(toWorker[w]).taskId) \in Events
  BY <1>1 DEF Events, StartEvents
<1>3. /\ mail' \in [Storages -> [Workers -> Seq(Events)]]
      /\ lost' \in [Storages -> SUBSET TaskIds]
      /\ faults' \in Nat
  BY <1>2, PublishType
<1>4. ChannelTypeOK'
  BY <1>1, <1>3 DEF ChannelTypeOK
<1>5. WorkerPoolTypeOK'
  BY <1>1 DEF WorkerPoolTypeOK
<1>6. QED
  BY <1>4, <1>5 DEF TaskStorageTypeOK, ResultStorageTypeOK, StatusTopicTypeOK

LEMMA WorkerEndsType ==
    ASSUME TypeOK, NEW w \in Workers, WorkerEnds(w)
    PROVE  TypeOK'
<1> USE DEF TypeOK, taskStorageVars, WorkerEnds, EndCalculation
<1>1. running[w].taskId \in TaskIds /\ running[w].number \in Numbers
  BY AssignmentFields DEF WorkerPoolTypeOK
<1>2. CalculationFinished(running[w].taskId, running[w].number) \in Events
  BY <1>1 DEF Events, FinishEvents
<1>3. /\ mail' \in [Storages -> [Workers -> Seq(Events)]]
      /\ lost' \in [Storages -> SUBSET TaskIds]
      /\ faults' \in Nat
  BY <1>2, PublishType
<1>4. ChannelTypeOK' /\ WorkerPoolTypeOK'
  BY <1>3 DEF ChannelTypeOK, WorkerPoolTypeOK
<1>5. QED
  BY <1>4 DEF TaskStorageTypeOK, ResultStorageTypeOK, StatusTopicTypeOK

LEMMA FrontendRestartType ==
    ASSUME TypeOK, FrontendRestart
    PROVE  TypeOK'
<1> USE DEF TypeOK, FrontendRestart, streamVars
<1>1. ChannelTypeOK'
  BY EmptySeq DEF ChannelTypeOK
<1>2. TaskStorageTypeOK'
  BY ConstantsAssumption DEF NewInstance, NoEntry, TaskStorageTypeOK
<1>3. QED
  BY <1>1, <1>2 DEF ResultStorageTypeOK, StatusTopicTypeOK, WorkerPoolTypeOK

LEMMA TypeStep == TypeOK /\ [Next]_vars => TypeOK'
<1> SUFFICES ASSUME TypeOK, [Next]_vars
             PROVE  TypeOK'
  OBVIOUS
<1>1. ASSUME NEW s \in Storages, StorageSubscribes(s)
      PROVE  TypeOK'
  BY <1>1 DEF StorageSubscribes, Subscribe, channelVars, taskStorageVars, poolVars,
              TypeOK, ChannelTypeOK, TaskStorageTypeOK, ResultStorageTypeOK,
              StatusTopicTypeOK, WorkerPoolTypeOK
<1>2. CASE UNCHANGED vars
  BY <1>2 DEF vars, channelVars, taskStorageVars, poolVars,
              TypeOK, ChannelTypeOK, TaskStorageTypeOK, ResultStorageTypeOK,
              StatusTopicTypeOK, WorkerPoolTypeOK
<1>3. QED
  BY <1>1, <1>2, CreateTaskType, WatchType, TaskStorageReceivesType,
     ResultStorageReceivesType, PoolChangesType, ProxyForwardsType, WorkerBeginsType,
     WorkerEndsType, FrontendRestartType DEF Next

\* TypeOK is an invariant for all values of the constants.
THEOREM TypeCorrect == Spec => []TypeOK
BY TypeInit, TypeStep, PTL DEF Spec

-----------------------------------------------------------------------------
(* No task is forgotten: NoSilentStall with StartIsFollowed.               *)

\* What publishing does to the channels from worker w to a storage.
LEMMA PublishEffect ==
    ASSUME TypeOK, NEW w \in Workers, NEW e \in Events, Publish(w, e),
           NEW s \in Storages
    PROVE  /\ lost[s] \subseteq lost'[s]
           /\ \A v \in Workers \ {w} : mail'[s][v] = mail[s][v]
           /\ \/ mail'[s][w] = Append(mail[s][w], e)
              \/ /\ mail'[s][w] = mail[s][w]
                 /\ e.class = "CalculationFinished" => e.taskId \in lost'[s]
BY DEF Publish, Deliver, TypeOK, ChannelTypeOK

\* Adding to a channel keeps what is in it.
LEMMA FinishAppended ==
    ASSUME NEW c \in Seq(Events), NEW e \in Events, NEW t
    PROVE  FinishIsIn(t, Append(c, e)) <=> FinishIsIn(t, c) \/ IsFinish(e, t)
BY AppendToChannel DEF FinishIsIn

\* Taking from a channel removes the head only.
LEMMA FinishTaken ==
    ASSUME NEW c \in Seq(Events), c # <<>>, NEW t
    PROVE  FinishIsIn(t, c) <=> IsFinish(Head(c), t) \/ FinishIsIn(t, Tail(c))
BY TailOfChannel DEF FinishIsIn

LEMMA AssignedAppended ==
    ASSUME NEW c \in Seq(Assignments), NEW a \in Assignments
    PROVE  Assigned(Append(c, a)) = Assigned(c) \cup {a.taskId}
BY AppendToChannel DEF Assigned

LEMMA AssignedTaken ==
    ASSUME NEW c \in Seq(Assignments), c # <<>>
    PROVE  Assigned(c) = {Head(c).taskId} \cup Assigned(Tail(c))
BY TailOfChannel DEF Assigned

LEMMA StallInit == Init => NoSilentStall /\ StartIsFollowed
BY NullAssumption DEF Init, NoSilentStall, StartIsFollowed, TaskStorageInit, NoEntry,
                      ChannelInit, Storages, Statuses

LEMMA CreateTaskStall ==
    ASSUME TypeOK, NoSilentStall, NEW s \in Numbers, CreateTask(s)
    PROVE  NoSilentStall'
<1> USE DEF CreateTask, QueueNewMessage, poolVars
<1> DEFINE a == TaskIdAssigned(id + 1, s)
<1>1. a \in Assignments /\ a.taskId = id + 1 /\ id + 1 \in TaskIds
  BY ConstantsAssumption
  DEF TypeOK, TaskStorageTypeOK, TaskIds, Assignments, TaskIdAssigned
<1>2. Assigned(toProxy)' = Assigned(toProxy) \cup {id + 1}
  BY <1>1, AssignedAppended DEF TypeOK, ChannelTypeOK
<1>3. \A t \in TaskIds : t # id + 1 => statuses'[t] = statuses[t]
  BY <1>1 DEF TypeOK, TaskStorageTypeOK
<1>4. QED
  BY <1>2, <1>3 DEF NoSilentStall, Pending, RunsAt

\* A task leaves STARTED for good, or enters it when its finish is behind.
LEMMA TaskStorageReceivesStall ==
    ASSUME TypeOK, NoSilentStall, StartIsFollowed,
           NEW w \in Workers, TaskStorageReceives(w)
    PROVE  NoSilentStall' /\ StartIsFollowed'
<1> DEFINE c == mail["taskStorage"][w]
           m == Head(c)
<1>1. /\ c \in Seq(Events) /\ c # <<>>
      /\ mail'["taskStorage"][w] = Tail(c)
      /\ \A v \in Workers \ {w} : mail'["taskStorage"][v] = mail["taskStorage"][v]
  BY DEF TaskStorageReceives, ReceiveStateChange, Receive, TypeOK, ChannelTypeOK, Storages
<1>2. UNCHANGED <<toProxy, toWorker, running, lost>>
  BY DEF TaskStorageReceives, poolVars
<1>3. /\ statuses' = [statuses EXCEPT ![m.taskId] = StatusOf(m)]
      /\ m \in Events /\ m = c[1] /\ m.taskId \in TaskIds
  BY <1>1, TailOfChannel, EventFields
  DEF TaskStorageReceives, ReceiveStateChange, RecordStateChange
<1> HIDE DEF c, m
<1>4. \A t \in TaskIds :
        FinishIsIn(t, c) => IsFinish(m, t) \/ FinishIsIn(t, Tail(c))
  BY <1>1, FinishTaken DEF m
<1>5. \A t \in TaskIds : Pending(t) => Pending(t)' \/ IsFinish(m, t)
  BY <1>1, <1>2, <1>4 DEF Pending, RunsAt, c
<1>6. ASSUME NEW t \in TaskIds, t = m.taskId, m.class = "CalculationStarted"
      PROVE  Pending(t)' \/ t \in lost["taskStorage"]
  <2>1. FinishFollows(t, w, 1)
    BY <1>1, <1>3, <1>6, TailOfChannel DEF StartIsFollowed, c
  <2>2. CASE \E j \in DOMAIN c : j > 1 /\ IsFinish(c[j], t)
    <3>1. FinishIsIn(t, c) /\ ~IsFinish(m, t)
      BY <1>6, <2>2 DEF FinishIsIn, IsFinish
    <3>2. QED
      BY <3>1, <1>1, <1>4 DEF Pending
  <2>3. CASE RunsAt(t, w)
    BY <2>3, <1>2 DEF Pending, RunsAt
  <2>4. QED
    BY <2>1, <2>2, <2>3 DEF FinishFollows, c
<1>7. NoSilentStall'
  <2> SUFFICES ASSUME NEW t \in TaskIds, statuses'[t] \in {"QUEUED", "STARTED"}
               PROVE  Pending(t)' \/ t \in lost["taskStorage"]
    BY <1>2 DEF NoSilentStall
  <2>1. CASE t = m.taskId
    <3>1. m.class = "CalculationStarted"
      BY <2>1, <1>3 DEF StatusOf, TypeOK, TaskStorageTypeOK
    <3>2. QED
      BY <3>1, <2>1, <1>6
  <2>2. CASE t # m.taskId
    <3>1. statuses[t] \in {"QUEUED", "STARTED"}
      BY <2>2, <1>3 DEF TypeOK, TaskStorageTypeOK
    <3>2. QED
      BY <3>1, <2>2, <1>5 DEF NoSilentStall, IsFinish
  <2>3. QED
    BY <2>1, <2>2
<1>8. StartIsFollowed'
  <2> SUFFICES ASSUME NEW v \in Workers, NEW i \in DOMAIN mail'["taskStorage"][v],
                      mail'["taskStorage"][v][i].class = "CalculationStarted"
               PROVE  FinishFollows(mail["taskStorage"][v][i].taskId, v, i)'
    BY DEF StartIsFollowed
  <2>1. CASE v = w
    <3>1. /\ i + 1 \in DOMAIN c /\ i \in Nat
          /\ mail'["taskStorage"][v][i] = c[i + 1]
      BY <2>1, <1>1, TailOfChannel
    <3>2. FinishFollows(c[i + 1].taskId, w, i + 1)
      BY <3>1, <2>1 DEF StartIsFollowed, c
    <3>3. \A j \in DOMAIN c : j > i + 1 =>
            /\ j - 1 \in DOMAIN Tail(c) /\ Tail(c)[j - 1] = c[j] /\ j - 1 > i
      BY <1>1, <3>1, TailOfChannel
    <3>4. QED
      BY <3>1, <3>2, <3>3, <1>1, <1>2, <2>1 DEF FinishFollows, RunsAt, c
  <2>2. CASE v # w
    BY <2>2, <1>1, <1>2 DEF StartIsFollowed, FinishFollows, RunsAt
  <2>3. QED
    BY <2>1, <2>2
<1>9. QED
  BY <1>7, <1>8

\* Assignments that are dropped end up in lost.
LEMMA DroppedIsLost ==
    ASSUME TypeOK, NEW T, Drop(T)
    PROVE  /\ lost["taskStorage"] \subseteq lost'["taskStorage"]
           /\ T \subseteq lost'["taskStorage"]
BY DEF Drop, Storages

\* StartIsFollowed survives a step that leaves TaskStorage's mailbox alone and
\* ends a calculation only by dropping its task.
LEMMA StartStillFollowed ==
    ASSUME StartIsFollowed, UNCHANGED mail,
           lost["taskStorage"] \subseteq lost'["taskStorage"],
           \A t \in TaskIds, w \in Workers :
               RunsAt(t, w) => RunsAt(t, w)' \/ t \in lost'["taskStorage"],
           TypeOK
    PROVE  StartIsFollowed'
<1> SUFFICES ASSUME NEW v \in Workers, NEW i \in DOMAIN mail["taskStorage"][v],
                    mail["taskStorage"][v][i].class = "CalculationStarted"
             PROVE  FinishFollows(mail["taskStorage"][v][i].taskId, v, i)'
  BY DEF StartIsFollowed
<1> DEFINE t == mail["taskStorage"][v][i].taskId
<1>1. t \in TaskIds
  BY ElementOfSeq, EventFields DEF TypeOK, ChannelTypeOK, Storages
<1>2. FinishFollows(t, v, i)
  BY DEF StartIsFollowed
<1>3. QED
  BY <1>1, <1>2 DEF FinishFollows, RunsAt

LEMMA PoolChangesStall ==
    ASSUME TypeOK, NoSilentStall, StartIsFollowed, NEW w \in Workers, PoolChanges(w)
    PROVE  NoSilentStall' /\ StartIsFollowed'
<1> USE DEF channelVars
<1>1. UNCHANGED <<toProxy, mail, statuses>>
  BY DEF PoolChanges, AddRoutee, RemoveRoutee, StopRoutee, CrashWorker, taskStorageVars
<1>2. lost["taskStorage"] \subseteq lost'["taskStorage"]
  BY DroppedIsLost DEF PoolChanges, AddRoutee, RemoveRoutee, StopRoutee, CrashWorker
<1>3. \A t \in TaskIds, v \in Workers :
        RunsAt(t, v) => RunsAt(t, v)' \/ t \in lost'["taskStorage"]
  <2>1. CASE CrashWorker(w)
    <3>1. running[w] # Null => running[w].taskId \in lost'["taskStorage"]
      BY <2>1, DroppedIsLost DEF CrashWorker
    <3>2. \A v \in Workers : v # w => running'[v] = running[v]
      BY <2>1 DEF CrashWorker, TypeOK, WorkerPoolTypeOK
    <3>3. QED
      BY <3>1, <3>2 DEF RunsAt
  <2>2. CASE ~CrashWorker(w)
    BY <2>2 DEF PoolChanges, AddRoutee, RemoveRoutee, StopRoutee, RunsAt
  <2>3. QED
    BY <2>1, <2>2
<1>4. \A t \in TaskIds, v \in Workers :
        t \in Assigned(toWorker[v]) =>
            t \in Assigned(toWorker[v])' \/ t \in lost'["taskStorage"]
  <2>1. CASE StopRoutee(w) \/ CrashWorker(w)
    <3>1. Assigned(toWorker[w]) \subseteq lost'["taskStorage"]
      BY <2>1, DroppedIsLost DEF StopRoutee, CrashWorker
    <3>2. \A v \in Workers : v # w => toWorker'[v] = toWorker[v]
      BY <2>1 DEF StopRoutee, CrashWorker, TypeOK, ChannelTypeOK
    <3>3. QED
      BY <3>1, <3>2
  <2>2. CASE ~(StopRoutee(w) \/ CrashWorker(w))
    BY <2>2 DEF PoolChanges, AddRoutee, RemoveRoutee
  <2>3. QED
    BY <2>1, <2>2
<1>5. NoSilentStall'
  BY <1>1, <1>2, <1>3, <1>4 DEF NoSilentStall, Pending
<1>6. QED
  BY <1>1, <1>2, <1>3, <1>5, StartStillFollowed

LEMMA ProxyForwardsStall ==
    ASSUME TypeOK, NoSilentStall, StartIsFollowed, ProxyForwards
    PROVE  NoSilentStall' /\ StartIsFollowed'
<1>1. UNCHANGED <<mail, running, statuses>>
  BY DEF ProxyForwards, Forward, ForwardToDeadLetters, ForwardLost, taskStorageVars, poolVars
<1>2. lost["taskStorage"] \subseteq lost'["taskStorage"]
  BY DroppedIsLost DEF ProxyForwards, Forward, ForwardToDeadLetters, ForwardLost
<1>3. /\ toProxy # <<>> /\ toProxy \in Seq(Assignments)
      /\ toProxy' = Tail(toProxy)
  BY DEF ProxyForwards, Forward, ForwardToDeadLetters, ForwardLost, TypeOK, ChannelTypeOK
<1>4. Assigned(toProxy) = {Head(toProxy).taskId} \cup Assigned(toProxy')
  BY <1>3, AssignedTaken
<1>5. ASSUME NEW w \in Workers, Forward(w)
      PROVE  /\ \A v \in Workers : Assigned(toWorker[v]) \subseteq Assigned(toWorker'[v])
             /\ Head(toProxy).taskId \in Assigned(toWorker'[w])
  <2>1. Head(toProxy) \in Assignments /\ toWorker[w] \in Seq(Assignments)
    BY <1>3, TailOfChannel DEF TypeOK, ChannelTypeOK
  <2>2. Assigned(toWorker'[w]) = Assigned(toWorker[w]) \cup {Head(toProxy).taskId}
    BY <1>5, <2>1, AssignedAppended DEF Forward, TypeOK, ChannelTypeOK
  <2>3. \A v \in Workers : v # w => toWorker'[v] = toWorker[v]
    BY <1>5 DEF Forward, TypeOK, ChannelTypeOK
  <2>4. QED
    BY <2>2, <2>3
<1>6. ASSUME ForwardToDeadLetters \/ ForwardLost
      PROVE  UNCHANGED toWorker /\ Head(toProxy).taskId \in lost'["taskStorage"]
  BY <1>6, DroppedIsLost DEF ForwardToDeadLetters, ForwardLost
<1>7. \A t \in TaskIds : Pending(t) => Pending(t)' \/ t \in lost'["taskStorage"]
  BY <1>1, <1>4, <1>5, <1>6 DEF ProxyForwards, Pending, RunsAt
<1>8. QED
  BY <1>1, <1>2, <1>7, StartStillFollowed DEF NoSilentStall, RunsAt

\* A worker takes a task out of its mailbox and works on it.
LEMMA WorkerBeginsStall ==
    ASSUME TypeOK, NoSilentStall, StartIsFollowed, NEW w \in Workers, WorkerBegins(w)
    PROVE  NoSilentStall' /\ StartIsFollowed'
<1> DEFINE a == Head(toWorker[w])
           e == CalculationStarted(a.taskId)
           ts == "taskStorage"
<1>1. /\ UNCHANGED <<toProxy, statuses>>
      /\ toWorker[w] # <<>> /\ toWorker[w] \in Seq(Assignments)
      /\ toWorker' = [toWorker EXCEPT ![w] = Tail(@)]
      /\ running[w] = Null
      /\ running' = [running EXCEPT ![w] = a]
      /\ Publish(w, e)
  BY DEF WorkerBegins, BeginCalculation, taskStorageVars, TypeOK, ChannelTypeOK
<1>2. a \in Assignments /\ a.taskId \in TaskIds /\ a # Null
  BY <1>1, TailOfChannel, AssignmentFields, NullAssumption
<1>3. e \in Events /\ e.class = "CalculationStarted" /\ e.taskId = a.taskId
  BY <1>2, PublishedEvents DEF CalculationStarted, Events, StartEvents
<1>4. /\ lost[ts] \subseteq lost'[ts]
      /\ \A v \in Workers \ {w} : mail'[ts][v] = mail[ts][v]
      /\ mail'[ts][w] = Append(mail[ts][w], e) \/ mail'[ts][w] = mail[ts][w]
  BY <1>1, <1>3, PublishEffect DEF Storages
<1>5. /\ mail[ts][w] \in Seq(Events)
      /\ running'[w] = a
      /\ \A v \in Workers : v # w => running'[v] = running[v] /\ toWorker'[v] = toWorker[v]
  BY <1>1 DEF TypeOK, ChannelTypeOK, WorkerPoolTypeOK, Storages
<1> HIDE DEF a, e
<1>6. \A t \in TaskIds, v \in Workers : RunsAt(t, v) => RunsAt(t, v)'
  BY <1>1, <1>5 DEF RunsAt
<1>7. \A t \in TaskIds : t = a.taskId => RunsAt(t, w)'
  BY <1>2, <1>5 DEF RunsAt
<1>8. \A t \in TaskIds, v \in Workers :
        t \in Assigned(toWorker[v]) => t \in Assigned(toWorker'[v]) \/ t = a.taskId
  <2>1. toWorker'[w] = Tail(toWorker[w])
    BY <1>1 DEF TypeOK, ChannelTypeOK
  <2>2. Assigned(toWorker[w]) = {a.taskId} \cup Assigned(toWorker'[w])
    BY <1>1, <2>1, AssignedTaken DEF a
  <2>3. QED
    BY <2>2, <1>5
<1>9. \A t \in TaskIds, v \in Workers : FinishIsIn(t, mail[ts][v]) => FinishIsIn(t, mail'[ts][v])
  BY <1>3, <1>4, <1>5, FinishAppended
<1>10. NoSilentStall'
  BY <1>1, <1>4, <1>6, <1>7, <1>8, <1>9 DEF NoSilentStall, Pending
<1>11. StartIsFollowed'
  <2> SUFFICES ASSUME NEW v \in Workers, NEW i \in DOMAIN mail'[ts][v],
                      mail'[ts][v][i].class = "CalculationStarted",
                      NEW t, t = mail'[ts][v][i].taskId
               PROVE  FinishFollows(t, v, i)'
    BY DEF StartIsFollowed
  <2>1. CASE i \in DOMAIN mail[ts][v] /\ mail'[ts][v][i] = mail[ts][v][i]
    <3>1. FinishFollows(t, v, i) /\ t \in TaskIds
      BY <2>1, ElementOfSeq, EventFields DEF StartIsFollowed, TypeOK, ChannelTypeOK, Storages
    <3>2. \A j \in DOMAIN mail[ts][v] :
            j \in DOMAIN mail'[ts][v] /\ mail'[ts][v][j] = mail[ts][v][j]
      BY <1>3, <1>4, <1>5, AppendToChannel
    <3>3. QED
      BY <3>1, <3>2, <1>4, <1>6 DEF FinishFollows
  <2>2. CASE v = w /\ mail'[ts][v][i] = e
    BY <2>2, <1>2, <1>3, <1>7 DEF FinishFollows
  <2>3. QED
    BY <2>1, <2>2, <1>3, <1>4, <1>5, AppendToChannel
<1>12. QED
  BY <1>10, <1>11

\* A worker is done with a task: its finish is on the way or was dropped.
LEMMA WorkerEndsStall ==
    ASSUME TypeOK, NoSilentStall, StartIsFollowed, NEW w \in Workers, WorkerEnds(w)
    PROVE  NoSilentStall' /\ StartIsFollowed'
<1> DEFINE a == running[w]
           e == CalculationFinished(a.taskId, a.number)
           ts == "taskStorage"
<1>1. /\ UNCHANGED <<toProxy, toWorker, statuses>>
      /\ a \in Assignments
      /\ running' = [running EXCEPT ![w] = Null]
      /\ Publish(w, e)
  BY DEF WorkerEnds, EndCalculation, taskStorageVars, TypeOK, WorkerPoolTypeOK
<1>2. a.taskId \in TaskIds /\ a.number \in Numbers
  BY <1>1, AssignmentFields
<1>3. e \in Events /\ e.class = "CalculationFinished" /\ e.taskId = a.taskId
  BY <1>2, PublishedEvents
<1>4. /\ lost[ts] \subseteq lost'[ts]
      /\ \A v \in Workers \ {w} : mail'[ts][v] = mail[ts][v]
      /\ \/ mail'[ts][w] = Append(mail[ts][w], e)
         \/ mail'[ts][w] = mail[ts][w] /\ a.taskId \in lost'[ts]
  BY <1>1, <1>3, PublishEffect DEF Storages
<1>5. /\ mail[ts][w] \in Seq(Events)
      /\ \A v \in Workers : v # w => running'[v] = running[v]
  BY <1>1 DEF TypeOK, ChannelTypeOK, WorkerPoolTypeOK, Storages
<1>6. \A t \in TaskIds, v \in Workers :
        RunsAt(t, v) => RunsAt(t, v)' \/ (v = w /\ t = a.taskId)
  BY <1>5 DEF RunsAt
<1> HIDE DEF a, e
<1>7. \A t \in TaskIds, v \in Workers : FinishIsIn(t, mail[ts][v]) => FinishIsIn(t, mail'[ts][v])
  BY <1>3, <1>4, <1>5, FinishAppended
<1>8. FinishIsIn(a.taskId, mail'[ts][w]) \/ a.taskId \in lost'[ts]
  <2>1. IsFinish(e, a.taskId)
    BY <1>3 DEF IsFinish
  <2>2. FinishIsIn(a.taskId, Append(mail[ts][w], e))
    BY <2>1, <1>3, <1>5, FinishAppended
  <2>3. QED
    BY <2>2, <1>4
<1>9. NoSilentStall'
  <2>1. \A t \in TaskIds : Pending(t) => Pending(t)' \/ t \in lost'[ts]
    BY <1>1, <1>6, <1>7, <1>8 DEF Pending
  <2>2. QED
    BY <2>1, <1>1, <1>4 DEF NoSilentStall
<1>10. StartIsFollowed'
  <2> SUFFICES ASSUME NEW v \in Workers, NEW i \in DOMAIN mail'[ts][v],
                      mail'[ts][v][i].class = "CalculationStarted",
                      NEW t, t = mail'[ts][v][i].taskId
               PROVE  FinishFollows(t, v, i)'
    BY DEF StartIsFollowed
  <2>1. i \in DOMAIN mail[ts][v] /\ mail'[ts][v][i] = mail[ts][v][i]
    BY <1>3, <1>4, <1>5, AppendToChannel
  <2>2. FinishFollows(t, v, i) /\ t \in TaskIds
    BY <2>1, ElementOfSeq, EventFields DEF StartIsFollowed, TypeOK, ChannelTypeOK, Storages
  <2>3. \A j \in DOMAIN mail[ts][v] :
          j \in DOMAIN mail'[ts][v] /\ mail'[ts][v][j] = mail[ts][v][j]
    BY <1>3, <1>4, <1>5, AppendToChannel
  <2>4. CASE v = w /\ t = a.taskId /\ mail'[ts][w] = Append(mail[ts][w], e)
    <3>1. Len(mail[ts][w]) + 1 \in DOMAIN mail'[ts][w] /\ Len(mail[ts][w]) + 1 > i
      BY <2>1, <2>4, <1>3, <1>5, AppendToChannel
    <3>2. mail'[ts][w][Len(mail[ts][w]) + 1] = e
      BY <2>4, <1>3, <1>5, AppendToChannel
    <3>3. QED
      BY <2>4, <3>1, <3>2, <1>3 DEF FinishFollows, IsFinish
  <2>5. QED
    BY <2>2, <2>3, <2>4, <1>4, <1>6 DEF FinishFollows
<1>11. QED
  BY <1>9, <1>10

LEMMA StallStep ==
    ASSUME TypeOK, NoSilentStall, StartIsFollowed, [Next]_vars
    PROVE  NoSilentStall' /\ StartIsFollowed'
<1>1. ASSUME NEW s \in Numbers, CreateTask(s)
      PROVE  NoSilentStall' /\ StartIsFollowed'
  BY <1>1, CreateTaskStall, StartStillFollowed
  DEF CreateTask, poolVars, RunsAt
<1>2. ASSUME NEW t \in TaskIds, NEW b \in Streams, Watch(t, b)
      PROVE  NoSilentStall' /\ StartIsFollowed'
  <2>1. UNCHANGED <<toProxy, toWorker, mail, running, lost>>
    BY <1>2 DEF Watch, channelVars, poolVars
  <2>2. \A u \in TaskIds : statuses'[u] \in {"QUEUED", "STARTED"} => statuses'[u] = statuses[u]
    BY <1>2, NullAssumption DEF Watch, RegisterNewSSESubscription, RegisterKnown,
                                RegisterUnknown, NewInstance, NoEntry, Statuses
  <2>3. NoSilentStall'
    BY <2>1, <2>2 DEF NoSilentStall, Pending, RunsAt
  <2>4. QED
    BY <2>1, <2>3, StartStillFollowed DEF RunsAt
<1>3. ASSUME NEW w \in Workers, ResultStorageReceives(w)
      PROVE  NoSilentStall' /\ StartIsFollowed'
  <2>1. /\ UNCHANGED <<toProxy, toWorker, running, lost, statuses>>
        /\ mail'["taskStorage"] = mail["taskStorage"]
    BY <1>3 DEF ResultStorageReceives, ReceiveResult, Receive, taskStorageVars, poolVars,
                TypeOK, ChannelTypeOK, Storages
  <2>2. QED
    BY <2>1 DEF NoSilentStall, Pending, StartIsFollowed, FinishFollows, RunsAt
<1>4. ASSUME NEW s \in Storages, StorageSubscribes(s)
      PROVE  NoSilentStall' /\ StartIsFollowed'
  BY <1>4 DEF StorageSubscribes, channelVars, taskStorageVars, poolVars,
              NoSilentStall, Pending, StartIsFollowed, FinishFollows, RunsAt
<1>5. CASE FrontendRestart
  <2>1. \A u \in TaskIds : statuses'[u] \notin {"QUEUED", "STARTED"}
    BY <1>5, NullAssumption DEF FrontendRestart, NewInstance, NoEntry, Statuses
  <2>2. \A w \in Workers : mail'["taskStorage"][w] = <<>>
    BY <1>5 DEF FrontendRestart, Storages
  <2>3. QED
    BY <2>1, <2>2 DEF NoSilentStall, StartIsFollowed
<1>6. CASE UNCHANGED vars
  BY <1>6 DEF vars, channelVars, taskStorageVars, poolVars,
              NoSilentStall, Pending, StartIsFollowed, FinishFollows, RunsAt
<1>7. QED
  BY <1>1, <1>2, <1>3, <1>4, <1>5, <1>6, TaskStorageReceivesStall, PoolChangesStall,
     ProxyForwardsStall, WorkerBeginsStall, WorkerEndsStall DEF Next

-----------------------------------------------------------------------------
(* Ids are numbered.                                                       *)

LEMMA NumbersInit == Init => IdsAreNumbered
BY NullAssumption, ConstantsAssumption
DEF Init, TaskStorageInit, NoEntry, IdsAreNumbered, TaskIds

\* A new instance knows no id; a new task gets the next one, with its number; and
\* an event, from whichever life, gives an id a status but no number.
LEMMA NumbersStep == TypeOK /\ IdsAreNumbered /\ [Next]_vars => IdsAreNumbered'
<1> SUFFICES ASSUME TypeOK, IdsAreNumbered, [Next]_vars
             PROVE  IdsAreNumbered'
  OBVIOUS
<1> USE DEF TypeOK, TaskStorageTypeOK
<1>1. ASSUME NEW s \in Numbers, CreateTask(s)
      PROVE  IdsAreNumbered'
  <2>1. /\ id \in Nat /\ id' = id + 1 /\ id + 1 \in TaskIds
        /\ tasks' = [tasks EXCEPT ![id + 1] = s]
        /\ statuses' = [statuses EXCEPT ![id + 1] = "QUEUED"]
    BY <1>1, ConstantsAssumption DEF CreateTask, QueueNewMessage, TaskIds
  <2>2. 1..id \subseteq TaskIds /\ 1..id' = 1..id \cup {id + 1}
    BY <2>1, <1>1, ConstantsAssumption DEF TaskIds, CreateTask, QueueNewMessage
  <2>3. "QUEUED" # Null /\ s # Null
    BY <1>1, NullAssumption DEF Statuses
  <2>4. \A t \in TaskIds : t # id + 1 => statuses'[t] = statuses[t] /\ tasks'[t] = tasks[t]
    BY <2>1
  <2>5. statuses'[id + 1] = "QUEUED" /\ tasks'[id + 1] = s
    BY <2>1
  <2>6. QED
    BY <2>2, <2>3, <2>4, <2>5 DEF IdsAreNumbered
<1>2. ASSUME NEW w \in Workers, TaskStorageReceives(w)
      PROVE  IdsAreNumbered'
  <2> DEFINE m == Head(mail["taskStorage"][w])
  <2>1. UNCHANGED <<id, tasks>> /\ statuses' = [statuses EXCEPT ![m.taskId] = StatusOf(m)]
    BY <1>2 DEF TaskStorageReceives, ReceiveStateChange, RecordStateChange
  <2>2. StatusOf(m) # Null
    BY NullAssumption DEF StatusOf, Statuses
  <2>3. 1..id \subseteq TaskIds
    BY ConstantsAssumption DEF TaskIds
  <2> HIDE DEF m
  <2>4. QED
    BY <2>1, <2>2, <2>3 DEF IdsAreNumbered
<1>3. CASE NewInstance
  BY <1>3, ConstantsAssumption DEF NewInstance, NoEntry, IdsAreNumbered, TaskIds
<1>4. CASE UNCHANGED <<id, tasks, statuses>>
  BY <1>4 DEF IdsAreNumbered
<1>5. QED
  BY <1>1, <1>2, <1>3, <1>4
  DEF Next, vars, taskStorageVars, Watch, RegisterNewSSESubscription, RegisterKnown,
      RegisterUnknown, ResultStorageReceives, StorageSubscribes, PoolChanges, ProxyForwards,
      WorkerBegins, WorkerEnds, FrontendRestart

-----------------------------------------------------------------------------
(* The registered stream is informed.                                      *)

LEMMA SubscriberInit == Init => SubscriptionIsWatched /\ SubscriberInformed
BY NullAssumption DEF Init, TaskStorageInit, NoEntry, SubscriptionIsWatched,
                      SubscriberInformed, Statuses

\* Broadcasting to a stream makes the status its last event and leaves the
\* other streams alone.
LEMMA BroadcastEffect ==
    ASSUME TypeOK, NEW b, NEW status \in Statuses, Broadcast(b, status)
    PROVE  /\ \A c \in Streams : c # b => events'[c] = events[c]
           /\ b \in Streams =>
                events'[b] # <<>> /\ events'[b][Len(events'[b])] = status
<1>1. \A c \in Streams : c # b => events'[c] = events[c]
  BY DEF Broadcast, TypeOK, TaskStorageTypeOK
<1>2. ASSUME b \in Streams
      PROVE  events'[b] # <<>> /\ events'[b][Len(events'[b])] = status
  <2>1. events[b] \in Seq(Statuses) /\ b # Null
    BY <1>2, NullAssumption DEF TypeOK, TaskStorageTypeOK
  <2>2. events'[b] = Append(events[b], status)
    BY <1>2, <2>1 DEF Broadcast, TypeOK, TaskStorageTypeOK
  <2>3. QED
    BY <2>1, <2>2, AppendProperties
<1>3. QED
  BY <1>1, <1>2

LEMMA SubscriberStep ==
    ASSUME TypeOK, SubscriptionIsWatched, SubscriberInformed, [Next]_vars
    PROVE  SubscriptionIsWatched' /\ SubscriberInformed'
<1> USE DEF TypeOK, TaskStorageTypeOK
<1>1. ASSUME NEW s \in Numbers, CreateTask(s)
      PROVE  SubscriptionIsWatched' /\ SubscriberInformed'
  BY <1>1 DEF CreateTask, QueueNewMessage, streamVars, SubscriptionIsWatched,
              SubscriberInformed
<1>2. ASSUME NEW t \in TaskIds, NEW b \in Streams, Watch(t, b)
      PROVE  SubscriptionIsWatched' /\ SubscriberInformed'
  <2>1. watching[b] = Null /\ watching' = [watching EXCEPT ![b] = t]
    BY <1>2 DEF Watch, RegisterNewSSESubscription
  <2>2. \A u \in TaskIds : subscriptions[u] # b
    BY <2>1, NullAssumption DEF SubscriptionIsWatched
  <2>3. CASE RegisterKnown(t, b)
    <3>1. subscriptions' = [subscriptions EXCEPT ![t] = b] /\ UNCHANGED statuses
      BY <2>3 DEF RegisterKnown
    <3>2. SubscriptionIsWatched'
      BY <2>1, <2>2, <3>1 DEF SubscriptionIsWatched
    <3>3. CASE statuses[t] = "QUEUED"
      <4>1. UNCHANGED events
        BY <2>3, <3>3 DEF RegisterKnown, Broadcast
      <4>2. QED
        BY <2>2, <3>1, <3>2, <3>3, <4>1 DEF SubscriberInformed
    <3>4. CASE statuses[t] # "QUEUED"
      <4>1. statuses[t] \in Statuses /\ Broadcast(b, statuses[t])
        BY <2>3, <3>4 DEF RegisterKnown
      <4>2. /\ \A c \in Streams : c # b => events'[c] = events[c]
            /\ events'[b] # <<>> /\ events'[b][Len(events'[b])] = statuses[t]
        BY <4>1, BroadcastEffect
      <4>3. SubscriberInformed'
        BY <4>2, <2>2, <3>1 DEF SubscriberInformed
      <4>4. QED
        BY <3>2, <4>3
    <3>5. QED
      BY <3>2, <3>3, <3>4
  <2>4. CASE RegisterUnknown(t)
    BY <2>4, NullAssumption DEF RegisterUnknown, NewInstance, NoEntry,
                                SubscriptionIsWatched, SubscriberInformed
  <2>5. QED
    BY <1>2, <2>3, <2>4 DEF Watch, RegisterNewSSESubscription
<1>3. ASSUME NEW w \in Workers, TaskStorageReceives(w)
      PROVE  SubscriptionIsWatched' /\ SubscriberInformed'
  <2> DEFINE m == Head(mail["taskStorage"][w])
             t == m.taskId
             b == subscriptions[t]
  <2>1. t \in TaskIds /\ StatusOf(m) \in Statuses
    BY <1>3, ReceiveType, EventFields
    DEF TaskStorageReceives, ReceiveStateChange, Storages, StatusOf, Statuses
  <2>2. /\ UNCHANGED <<subscriptions, watching>>
        /\ statuses' = [statuses EXCEPT ![t] = StatusOf(m)]
        /\ Broadcast(b, StatusOf(m))
    BY <1>3 DEF TaskStorageReceives, ReceiveStateChange, RecordStateChange
  <2> HIDE DEF m
  <2>3. \A u \in TaskIds, c \in Streams : subscriptions[u] = c /\ u # t => c # b
    BY <2>1 DEF SubscriptionIsWatched
  <2>4. /\ \A c \in Streams : c # b => events'[c] = events[c]
        /\ b \in Streams =>
             events'[b] # <<>> /\ events'[b][Len(events'[b])] = StatusOf(m)
    BY <2>1, <2>2, BroadcastEffect
  <2>5. SubscriberInformed'
    BY <2>1, <2>2, <2>3, <2>4 DEF SubscriberInformed
  <2>6. QED
    BY <2>2, <2>5 DEF SubscriptionIsWatched
<1>4. CASE FrontendRestart
  BY <1>4, NullAssumption DEF FrontendRestart, NewInstance, NoEntry,
                              SubscriptionIsWatched, SubscriberInformed
<1>5. CASE UNCHANGED taskStorageVars
  BY <1>5 DEF taskStorageVars, SubscriptionIsWatched, SubscriberInformed
<1>6. QED
  BY <1>1, <1>2, <1>3, <1>4, <1>5 DEF Next, vars, ResultStorageReceives,
     StorageSubscribes, PoolChanges, ProxyForwards, WorkerBegins, WorkerEnds

-----------------------------------------------------------------------------
(* The first life of TaskStorage: a FINISHED task has a result.            *)

\* There is no way back to the first life.
LEMMA FirstLife == TypeOK /\ [Next]_vars /\ restarts' = 0 => restarts = 0
BY DEF TypeOK, TaskStorageTypeOK, Next, vars, taskStorageVars, CreateTask, QueueNewMessage,
       Watch, RegisterNewSSESubscription, RegisterKnown, RegisterUnknown, NewInstance,
       TaskStorageReceives, ReceiveStateChange, RecordStateChange, ResultStorageReceives,
       StorageSubscribes, PoolChanges, ProxyForwards, WorkerBegins, WorkerEnds,
       FrontendRestart

\* In it, the counter grows and tasks keep their numbers.
LEMMA TasksAreKept ==
    ASSUME TypeOK, [Next]_vars, restarts' = 0
    PROVE  /\ id \in Nat /\ id' \in Nat /\ id <= id'
           /\ \A t \in 1..id : tasks'[t] = tasks[t]
<1> USE DEF TypeOK, TaskStorageTypeOK
<1>1. restarts = 0
  BY FirstLife
<1>2. UNCHANGED <<id, tasks>> \/ \E s \in Numbers : CreateTask(s)
  BY <1>1 DEF Next, vars, taskStorageVars, Watch, RegisterNewSSESubscription, RegisterKnown,
     RegisterUnknown, NewInstance, TaskStorageReceives, ReceiveStateChange, RecordStateChange,
     ResultStorageReceives, StorageSubscribes, PoolChanges, ProxyForwards, WorkerBegins,
     WorkerEnds, FrontendRestart
<1>3. ASSUME NEW s \in Numbers, CreateTask(s)
      PROVE  /\ id' = id + 1
             /\ \A t \in 1..id : tasks'[t] = tasks[t]
  BY <1>3, ConstantsAssumption DEF CreateTask, QueueNewMessage, TaskIds
<1>4. QED
  BY <1>2, <1>3, ConstantsAssumption

\* Hence what matches a task goes on matching it.
LEMMA MatchesKept ==
    ASSUME TypeOK, [Next]_vars, restarts' = 0, NEW m, Matches(m)
    PROVE  m.taskId \in 1..id' /\ m.number = tasks'[m.taskId]
BY TasksAreKept DEF Matches

LEMMA AssignmentsStep ==
    ASSUME TypeOK, AssignmentsMatch, [Next]_vars, restarts' = 0
    PROVE  AssignmentsMatch'
<1> DEFINE Good(m) == m.taskId \in 1..id' /\ m.number = tasks'[m.taskId]
           AllGood(c) == \A i \in DOMAIN c : Good(c[i])
<1>1. /\ AllGood(toProxy)
      /\ \A w \in Workers : AllGood(toWorker[w]) /\ (running[w] # Null => Good(running[w]))
  BY MatchesKept DEF AssignmentsMatch
<1>2. SUFFICES /\ AllGood(toProxy')
               /\ \A w \in Workers :
                    AllGood(toWorker'[w]) /\ (running'[w] # Null => Good(running'[w]))
  BY DEF AssignmentsMatch, Matches
<1> HIDE DEF Good
<1>3. /\ \A c \in Seq(Assignments), a \in Assignments :
           AllGood(c) /\ Good(a) => AllGood(Append(c, a))
      /\ \A c \in Seq(Assignments) :
           AllGood(c) /\ c # <<>> =>
             Head(c) \in Assignments /\ Good(Head(c)) /\ AllGood(Tail(c))
  BY AppendToChannel, TailOfChannel
<1>4. AllGood(<<>>)
  OBVIOUS
<1> HIDE DEF AllGood
<1> USE DEF TypeOK, ChannelTypeOK, WorkerPoolTypeOK
<1>5. ASSUME NEW s \in Numbers, CreateTask(s)
      PROVE  /\ AllGood(toProxy')
             /\ UNCHANGED <<toWorker, running>>
  <2>1. id + 1 \in TaskIds /\ tasks'[id + 1] = s /\ id' = id + 1 /\ id \in Nat
    BY <1>5, ConstantsAssumption
    DEF CreateTask, QueueNewMessage, TaskStorageTypeOK, TaskIds
  <2>2. /\ TaskIdAssigned(id + 1, s) \in Assignments
        /\ Good(TaskIdAssigned(id + 1, s))
    BY <2>1 DEF TaskIdAssigned, Assignments, Good
  <2>3. QED
    BY <1>1, <1>3, <1>5, <2>2 DEF CreateTask, QueueNewMessage, poolVars
<1>6. ASSUME NEW w \in Workers, PoolChanges(w)
      PROVE  /\ UNCHANGED toProxy
             /\ \A v \in Workers : toWorker'[v] = toWorker[v] \/ toWorker'[v] = <<>>
             /\ \A v \in Workers : running'[v] = running[v] \/ running'[v] = Null
  BY <1>6 DEF PoolChanges, AddRoutee, RemoveRoutee, StopRoutee, CrashWorker, channelVars
<1>7. ASSUME ProxyForwards
      PROVE  /\ AllGood(toProxy') /\ UNCHANGED running
             /\ \A v \in Workers : AllGood(toWorker'[v])
  <2>1. toProxy # <<>> /\ toProxy' = Tail(toProxy) /\ UNCHANGED running
    BY <1>7 DEF ProxyForwards, Forward, ForwardToDeadLetters, ForwardLost, poolVars
  <2>2. Head(toProxy) \in Assignments /\ Good(Head(toProxy)) /\ AllGood(toProxy')
    BY <1>1, <1>3, <2>1
  <2>3. UNCHANGED toWorker \/
          \E w \in Workers : toWorker' = [toWorker EXCEPT ![w] = Append(@, Head(toProxy))]
    BY <1>7 DEF ProxyForwards, Forward, ForwardToDeadLetters, ForwardLost
  <2>4. \A v \in Workers : AllGood(toWorker'[v])
    <3>1. \A w \in Workers : AllGood(Append(toWorker[w], Head(toProxy)))
      BY <1>1, <1>3, <2>2
    <3>2. QED
      BY <1>1, <2>3, <3>1
  <2>5. QED
    BY <2>1, <2>2, <2>4
<1>8. ASSUME NEW w \in Workers, WorkerBegins(w)
      PROVE  /\ UNCHANGED toProxy
             /\ \A v \in Workers :
                  AllGood(toWorker'[v]) /\ (running'[v] # Null => Good(running'[v]))
  <2>1. /\ UNCHANGED toProxy
        /\ toWorker[w] # <<>> /\ toWorker[w] \in Seq(Assignments)
        /\ toWorker' = [toWorker EXCEPT ![w] = Tail(toWorker[w])]
        /\ running' = [running EXCEPT ![w] = Head(toWorker[w])]
    BY <1>8 DEF WorkerBegins, BeginCalculation
  <2>2. Good(Head(toWorker[w])) /\ AllGood(Tail(toWorker[w]))
    BY <1>1, <1>3, <2>1
  <2>3. \A v \in Workers : AllGood(toWorker'[v])
    BY <1>1, <2>1, <2>2
  <2>4. \A v \in Workers : running'[v] # Null => Good(running'[v])
    BY <1>1, <2>1, <2>2
  <2>5. QED
    BY <2>1, <2>3, <2>4
<1>9. ASSUME NEW w \in Workers, WorkerEnds(w)
      PROVE  /\ UNCHANGED <<toProxy, toWorker>>
             /\ \A v \in Workers : running'[v] = running[v] \/ running'[v] = Null
  BY <1>9 DEF WorkerEnds, EndCalculation
<1>10. CASE UNCHANGED <<toProxy, toWorker, running>>
  BY <1>1, <1>10
<1>11. ~FrontendRestart
  BY FirstLife DEF FrontendRestart, NewInstance
<1>12. QED
  <2>1. ASSUME NEW w \in Workers, PoolChanges(w)
        PROVE  /\ AllGood(toProxy')
               /\ \A v \in Workers :
                    AllGood(toWorker'[v]) /\ (running'[v] # Null => Good(running'[v]))
    BY <2>1, <1>1, <1>4, <1>6
  <2>2. QED
    BY <1>1, <1>5, <1>7, <1>8, <1>9, <1>10, <1>11, <2>1
    DEF Next, vars, channelVars, poolVars, Watch, TaskStorageReceives,
        ResultStorageReceives, StorageSubscribes

LEMMA FinishesStep ==
    ASSUME TypeOK, AssignmentsMatch, FinishesMatch, [Next]_vars, restarts' = 0
    PROVE  FinishesMatch'
<1> DEFINE Good(m) == m.class = "CalculationFinished" =>
                        m.taskId \in 1..id' /\ m.number = tasks'[m.taskId]
           AllGood(c) == \A i \in DOMAIN c : Good(c[i])
<1>1. \A s \in Storages, w \in Workers : AllGood(mail[s][w])
  BY MatchesKept DEF FinishesMatch
<1>2. SUFFICES \A s \in Storages, w \in Workers : AllGood(mail'[s][w])
  BY DEF FinishesMatch, Matches
<1>3. ASSUME NEW w \in Workers, running[w] # Null
      PROVE  running[w].taskId \in 1..id' /\ running[w].number = tasks'[running[w].taskId]
  <2>1. Matches(running[w])
    BY <1>3 DEF AssignmentsMatch
  <2>2. QED
    BY <2>1, MatchesKept
<1>4. ASSUME NEW w \in Workers, NEW e \in Events, Good(e), Publish(w, e)
      PROVE  \A s \in Storages, v \in Workers : AllGood(mail'[s][v])
  <2>1. \A s \in Storages : AllGood(Append(mail[s][w], e))
    BY <1>1, <1>4, AppendToChannel DEF TypeOK, ChannelTypeOK
  <2>2. \A s \in Storages, v \in Workers :
          mail'[s][v] \in {mail[s][v], Append(mail[s][w], e)}
    <3> HIDE DEF Good, AllGood
    <3>1. QED
      BY <1>4, PublishEffect
  <2> HIDE DEF AllGood
  <2>3. QED
    BY <1>1, <2>1, <2>2
<1>5. ASSUME NEW s \in Storages, NEW w \in Workers, Receive(s, w)
      PROVE  \A r \in Storages, v \in Workers : AllGood(mail'[r][v])
  <2>1. AllGood(Tail(mail[s][w]))
    BY <1>1, <1>5, TailOfChannel DEF Receive, TypeOK, ChannelTypeOK
  <2> HIDE DEF AllGood
  <2>2. QED
    BY <1>1, <1>5, <2>1 DEF Receive, TypeOK, ChannelTypeOK
<1>6. ASSUME NEW w \in Workers, WorkerBegins(w)
      PROVE  \A s \in Storages, v \in Workers : AllGood(mail'[s][v])
  <2> DEFINE e == CalculationStarted(Head(toWorker[w]).taskId)
  <2>1. Head(toWorker[w]).taskId \in TaskIds
    BY <1>6, TailOfChannel, AssignmentFields
    DEF WorkerBegins, BeginCalculation, TypeOK, ChannelTypeOK
  <2>2. e \in Events /\ Good(e)
    BY <2>1 DEF CalculationStarted, Events, StartEvents
  <2>3. Publish(w, e)
    BY <1>6 DEF WorkerBegins, BeginCalculation
  <2> HIDE DEF e, Good, AllGood
  <2>4. QED
    BY <1>4, <2>2, <2>3
<1>7. ASSUME NEW w \in Workers, WorkerEnds(w)
      PROVE  \A s \in Storages, v \in Workers : AllGood(mail'[s][v])
  <2> DEFINE e == CalculationFinished(running[w].taskId, running[w].number)
  <2>1. running[w] # Null /\ Publish(w, e)
    BY <1>7 DEF WorkerEnds, EndCalculation
  <2>2. running[w].taskId \in TaskIds /\ running[w].number \in Numbers
    BY <2>1, AssignmentFields DEF TypeOK, WorkerPoolTypeOK
  <2>3. e \in Events /\ Good(e)
    BY <2>1, <2>2, <1>3, PublishedEvents
  <2> HIDE DEF e, Good, AllGood
  <2>4. QED
    BY <1>4, <2>1, <2>3
<1> HIDE DEF AllGood
<1>8. CASE UNCHANGED mail
  BY <1>1, <1>8
<1>9. ~FrontendRestart
  BY FirstLife DEF FrontendRestart, NewInstance
<1>10. QED
  <2>1. "taskStorage" \in Storages /\ "resultStorage" \in Storages
    BY DEF Storages
  <2>2. QED
    BY <2>1, <1>5, <1>6, <1>7, <1>8, <1>9
    DEF Next, vars, channelVars, CreateTask, Watch, TaskStorageReceives, ReceiveStateChange,
        ResultStorageReceives, ReceiveResult, StorageSubscribes, PoolChanges, AddRoutee,
        RemoveRoutee, StopRoutee, CrashWorker, ProxyForwards, Forward, ForwardToDeadLetters,
        ForwardLost

LEMMA TasksStep ==
    ASSUME TypeOK, FinishesMatch, TasksAreKnown, [Next]_vars, restarts' = 0
    PROVE  TasksAreKnown'
<1> USE DEF TypeOK, TaskStorageTypeOK
<1>1. ~FrontendRestart /\ \A t \in TaskIds : ~RegisterUnknown(t)
  BY FirstLife DEF FrontendRestart, RegisterUnknown, NewInstance
<1>2. ASSUME NEW s \in Numbers, CreateTask(s)
      PROVE  TasksAreKnown'
  <2>1. /\ id \in Nat /\ id' = id + 1 /\ id + 1 \in TaskIds
        /\ told' = told \cup {id + 1}
        /\ tasks' = [tasks EXCEPT ![id + 1] = s]
        /\ statuses' = [statuses EXCEPT ![id + 1] = "QUEUED"]
    BY <1>2, ConstantsAssumption DEF CreateTask, QueueNewMessage, TaskIds
  <2>2. 1..id \subseteq TaskIds /\ 1..id' = 1..id \cup {id + 1}
    BY <2>1, ConstantsAssumption DEF TaskIds
  <2>3. "QUEUED" # Null /\ s # Null
    BY <1>2, NullAssumption DEF Statuses
  <2>4. \A t \in TaskIds : t # id + 1 => statuses'[t] = statuses[t] /\ tasks'[t] = tasks[t]
    BY <2>1
  <2>5. statuses'[id + 1] = "QUEUED" /\ tasks'[id + 1] = s
    BY <2>1
  <2>6. told' = 1..id'
    BY <2>1, <2>2 DEF TasksAreKnown
  <2>7. \A t \in 1..id' : statuses'[t] # Null /\ tasks'[t] # Null
    BY <2>2, <2>3, <2>4, <2>5 DEF TasksAreKnown
  <2>8. \A t \in TaskIds : statuses'[t] = "FINISHED" => t \in 1..id'
    BY <2>2, <2>4, <2>5 DEF TasksAreKnown
  <2>9. QED
    BY <2>6, <2>7, <2>8 DEF TasksAreKnown
<1>3. ASSUME NEW w \in Workers, TaskStorageReceives(w)
      PROVE  TasksAreKnown'
  <2> DEFINE c == mail["taskStorage"][w]
             m == Head(c)
  <2>1. /\ UNCHANGED <<id, told, tasks>>
        /\ statuses' = [statuses EXCEPT ![m.taskId] = StatusOf(m)]
        /\ c # <<>> /\ c \in Seq(Events)
    BY <1>3 DEF TaskStorageReceives, ReceiveStateChange, RecordStateChange, Receive,
                ChannelTypeOK, Storages
  <2>2. m = c[1] /\ 1 \in DOMAIN c /\ m \in Events /\ m.taskId \in TaskIds
    BY <2>1, TailOfChannel, EventFields
  <2>3. StatusOf(m) = "FINISHED" => m.taskId \in 1..id
    BY <2>2, EventFields DEF StatusOf, FinishesMatch, Matches, Storages
  <2>4. StatusOf(m) # Null
    BY NullAssumption DEF StatusOf, Statuses
  <2> HIDE DEF c, m
  <2>5. QED
    BY <2>1, <2>2, <2>3, <2>4 DEF TasksAreKnown
<1>4. CASE UNCHANGED <<id, told, tasks, statuses>>
  BY <1>4 DEF TasksAreKnown
<1>5. QED
  BY <1>1, <1>2, <1>3, <1>4
  DEF Next, vars, channelVars, taskStorageVars, Watch, RegisterNewSSESubscription,
      RegisterKnown, ResultStorageReceives, StorageSubscribes, PoolChanges, AddRoutee,
      RemoveRoutee, StopRoutee, CrashWorker, ProxyForwards, Forward, ForwardToDeadLetters,
      ForwardLost, WorkerBegins, BeginCalculation, WorkerEnds, EndCalculation

\* Histories of dropped tasks only grow within a life of the frontend.
LEMMA LostGrows ==
    ASSUME TypeOK, [Next]_vars, restarts' = 0, NEW s \in Storages
    PROVE  lost[s] \subseteq lost'[s]
<1>1. ~FrontendRestart
  BY FirstLife DEF FrontendRestart, NewInstance
<1>2. ASSUME NEW w \in Workers, NEW e, Publish(w, e)
      PROVE  lost[s] \subseteq lost'[s]
  BY <1>2 DEF Publish, Deliver
<1>3. ASSUME NEW T, Drop(T)
      PROVE  lost[s] \subseteq lost'[s]
  BY <1>3 DEF Drop
<1>4. UNCHANGED lost \/ (\E T : Drop(T)) \/ (\E w \in Workers : \E e : Publish(w, e))
  BY <1>1
  DEF Next, vars, channelVars, CreateTask, Watch, TaskStorageReceives,
      ResultStorageReceives, StorageSubscribes, PoolChanges, AddRoutee,
      RemoveRoutee, StopRoutee, CrashWorker, ProxyForwards, Forward, ForwardToDeadLetters,
      ForwardLost, WorkerBegins, BeginCalculation, WorkerEnds, EndCalculation
<1>5. QED
  BY <1>2, <1>3, <1>4

\* A result that is due for a known task stays due: it moves from the mailbox
\* into the map, under the number the task is known by.
LEMMA ResultStaysDue ==
    ASSUME TypeOK, FinishesMatch, TasksAreKnown, [Next]_vars, restarts' = 0,
           NEW t \in TaskIds, t \in 1..id, ResultIsDue(t)
    PROVE  ResultIsDue(t)'
<1> DEFINE rs == "resultStorage"
<1>1. ~FrontendRestart
  BY FirstLife DEF FrontendRestart, NewInstance
<1>2. tasks'[t] = tasks[t] /\ tasks[t] \in Numbers
  BY TasksAreKept DEF TasksAreKnown, TypeOK, TaskStorageTypeOK
<1>3. lost[rs] \subseteq lost'[rs]
  BY LostGrows DEF Storages
<1>4. ASSUME NEW w \in Workers, NEW e \in Events, Publish(w, e)
      PROVE  \A v \in Workers : FinishIsIn(t, mail[rs][v]) => FinishIsIn(t, mail'[rs][v])
  <2>1. mail[rs][w] \in Seq(Events) /\ rs \in Storages
    BY DEF TypeOK, ChannelTypeOK, Storages
  <2>2. \A v \in Workers : mail'[rs][v] = mail[rs][v] \/
                           (v = w /\ mail'[rs][v] = Append(mail[rs][w], e))
    BY <1>4, <2>1, PublishEffect
  <2>3. FinishIsIn(t, mail[rs][w]) => FinishIsIn(t, Append(mail[rs][w], e))
    BY <2>1, FinishAppended
  <2>4. QED
    BY <2>2, <2>3
<1>5. ASSUME NEW w \in Workers, WorkerBegins(w) \/ WorkerEnds(w)
      PROVE  /\ UNCHANGED results
             /\ \A v \in Workers : FinishIsIn(t, mail[rs][v]) => FinishIsIn(t, mail'[rs][v])
  <2>1. CASE WorkerBegins(w)
    <3>1. Head(toWorker[w]) \in Assignments /\ Head(toWorker[w]).taskId \in TaskIds
      BY <2>1, TailOfChannel, AssignmentFields
      DEF WorkerBegins, BeginCalculation, TypeOK, ChannelTypeOK
    <3>2. CalculationStarted(Head(toWorker[w]).taskId) \in Events
      BY <3>1 DEF Events, StartEvents
    <3>3. QED
      BY <2>1, <3>2, <1>4 DEF WorkerBegins, BeginCalculation
  <2>2. CASE WorkerEnds(w)
    <3>1. running[w].taskId \in TaskIds /\ running[w].number \in Numbers
      BY <2>2, AssignmentFields DEF WorkerEnds, EndCalculation, TypeOK, WorkerPoolTypeOK
    <3>2. CalculationFinished(running[w].taskId, running[w].number) \in Events
      BY <3>1, PublishedEvents
    <3>3. QED
      BY <2>2, <3>2, <1>4 DEF WorkerEnds, EndCalculation
  <2>3. QED
    BY <1>5, <2>1, <2>2
<1>6. ASSUME NEW w \in Workers, ResultStorageReceives(w)
      PROVE  ResultIsDue(t)'
  <2> DEFINE c == mail[rs][w]
             m == Head(c)
  <2>1. /\ c # <<>> /\ c \in Seq(Events)
        /\ mail'[rs][w] = Tail(c)
        /\ \A v \in Workers : v # w => mail'[rs][v] = mail[rs][v]
        /\ IF m.class = "CalculationFinished"
           THEN results' = [results EXCEPT ![m.number] = m]
           ELSE UNCHANGED results
    BY <1>6 DEF ResultStorageReceives, ReceiveResult, Receive, StoreResult,
                TypeOK, ChannelTypeOK, Storages
  <2>2. m \in Events /\ m = c[1] /\ 1 \in DOMAIN c
    BY <2>1, TailOfChannel
  <2>3. m.class = "CalculationFinished" =>
          /\ m # Null /\ m.number \in Numbers
          /\ m.number = tasks[m.taskId]
    BY <2>2, EventFields, NullAssumption DEF FinishesMatch, Matches, Storages
  <2> HIDE DEF m
  <2>4. HasResult(tasks[t]) => HasResult(tasks[t])'
    BY <1>2, <2>1, <2>3 DEF HasResult, TypeOK, ResultStorageTypeOK
  <2>5. IsFinish(m, t) => HasResult(tasks[t])'
    BY <1>2, <2>1, <2>3 DEF IsFinish, HasResult, TypeOK, ResultStorageTypeOK
  <2>6. FinishIsIn(t, c) => IsFinish(m, t) \/ FinishIsIn(t, mail'[rs][w])
    BY <2>1, FinishTaken DEF m
  <2>7. QED
    BY <1>3, <2>1, <2>4, <2>5, <2>6 DEF ResultIsDue
<1>7. ASSUME NEW w \in Workers, TaskStorageReceives(w)
      PROVE  UNCHANGED results /\ mail'[rs] = mail[rs]
  BY <1>7 DEF TaskStorageReceives, ReceiveStateChange, Receive, TypeOK, ChannelTypeOK, Storages
<1>8. CASE UNCHANGED results /\ mail'[rs] = mail[rs]
  BY <1>2, <1>3, <1>8 DEF ResultIsDue, HasResult
<1>9. CASE /\ UNCHANGED results
           /\ \A v \in Workers : FinishIsIn(t, mail[rs][v]) => FinishIsIn(t, mail'[rs][v])
  BY <1>2, <1>3, <1>9 DEF ResultIsDue, HasResult
<1>10. QED
  BY <1>1, <1>5, <1>6, <1>7, <1>8, <1>9
  DEF Next, vars, channelVars, CreateTask, QueueNewMessage, Watch, StorageSubscribes,
      PoolChanges, AddRoutee, RemoveRoutee, StopRoutee, CrashWorker, ProxyForwards, Forward,
      ForwardToDeadLetters, ForwardLost

\* A finish reaches TaskStorage's mailbox together with ResultStorage's, or
\* the history says that ResultStorage missed it.
LEMMA FinishResultStep ==
    ASSUME TypeOK, AssignmentsMatch, FinishesMatch, TasksAreKnown, FinishHasResult,
           [Next]_vars, restarts' = 0
    PROVE  FinishHasResult'
<1> DEFINE ts == "taskStorage"
<1> SUFFICES ASSUME NEW t \in TaskIds, NEW w \in Workers, FinishIsIn(t, mail'[ts][w])
             PROVE  ResultIsDue(t)'
  BY DEF FinishHasResult
<1>1. ~FrontendRestart
  BY FirstLife DEF FrontendRestart, NewInstance
<1>2. CASE FinishIsIn(t, mail[ts][w])
  <2>1. ResultIsDue(t)
    BY <1>2 DEF FinishHasResult
  <2>2. t \in 1..id
    BY <1>2 DEF FinishIsIn, IsFinish, FinishesMatch, Matches, Storages
  <2>3. QED
    BY <2>1, <2>2, ResultStaysDue
<1>3. ASSUME NEW v \in Workers, WorkerEnds(v), ~FinishIsIn(t, mail[ts][w])
      PROVE  ResultIsDue(t)'
  <2> DEFINE e == CalculationFinished(running[v].taskId, running[v].number)
  <2>1. running[v].taskId \in TaskIds /\ running[v].number \in Numbers
    BY <1>3, AssignmentFields DEF WorkerEnds, EndCalculation, TypeOK, WorkerPoolTypeOK
  <2>2. e \in Events /\ e.class = "CalculationFinished" /\ Publish(v, e)
    BY <1>3, <2>1, PublishedEvents DEF WorkerEnds, EndCalculation
  <2> HIDE DEF e
  <2>3. mail[ts][w] \in Seq(Events) /\ mail["resultStorage"][v] \in Seq(Events)
    BY DEF TypeOK, ChannelTypeOK, Storages
  <2>4. mail'[ts][w] = mail[ts][w] \/ mail'[ts][w] = Append(mail[ts][w], e)
    BY <2>2, PublishEffect DEF Storages
  <2>5. IsFinish(e, t)
    BY <1>3, <2>2, <2>3, <2>4, FinishAppended
  <2>6. \/ mail'["resultStorage"][v] = Append(mail["resultStorage"][v], e)
        \/ e.taskId \in lost'["resultStorage"]
    BY <2>2, PublishEffect DEF Storages
  <2>7. FinishIsIn(t, Append(mail["resultStorage"][v], e))
    BY <2>2, <2>3, <2>5, FinishAppended
  <2>8. QED
    BY <2>5, <2>6, <2>7 DEF ResultIsDue, IsFinish
<1>4. ASSUME NEW v \in Workers, WorkerBegins(v)
      PROVE  FinishIsIn(t, mail[ts][w])
  <2> DEFINE e == CalculationStarted(Head(toWorker[v]).taskId)
  <2>1. Head(toWorker[v]).taskId \in TaskIds
    BY <1>4, TailOfChannel, AssignmentFields
    DEF WorkerBegins, BeginCalculation, TypeOK, ChannelTypeOK
  <2>2. e \in Events /\ e.class = "CalculationStarted" /\ Publish(v, e)
    BY <1>4, <2>1 DEF WorkerBegins, BeginCalculation, CalculationStarted, Events, StartEvents
  <2> HIDE DEF e
  <2>3. mail[ts][w] \in Seq(Events)
    BY DEF TypeOK, ChannelTypeOK, Storages
  <2>4. mail'[ts][w] = mail[ts][w] \/ mail'[ts][w] = Append(mail[ts][w], e)
    BY <2>2, PublishEffect DEF Storages
  <2>5. ~IsFinish(e, t)
    BY <2>2 DEF IsFinish
  <2>6. QED
    BY <2>2, <2>3, <2>4, <2>5, FinishAppended
<1>5. ASSUME NEW v \in Workers, TaskStorageReceives(v)
      PROVE  FinishIsIn(t, mail[ts][w])
  <2>1. mail[ts][v] \in Seq(Events) /\ mail[ts][v] # <<>>
    BY <1>5 DEF TaskStorageReceives, ReceiveStateChange, Receive,
                TypeOK, ChannelTypeOK, Storages
  <2>2. mail'[ts][w] = mail[ts][w] \/ (w = v /\ mail'[ts][w] = Tail(mail[ts][v]))
    BY <1>5 DEF TaskStorageReceives, ReceiveStateChange, Receive,
                TypeOK, ChannelTypeOK, Storages
  <2>3. QED
    BY <2>1, <2>2, FinishTaken
<1>6. ASSUME NEW v \in Workers, ResultStorageReceives(v)
      PROVE  mail'[ts] = mail[ts]
  BY <1>6 DEF ResultStorageReceives, ReceiveResult, Receive, TypeOK, ChannelTypeOK, Storages
<1>7. QED
  BY <1>1, <1>2, <1>3, <1>4, <1>5, <1>6
  DEF Next, vars, channelVars, CreateTask, QueueNewMessage, Watch, StorageSubscribes,
      PoolChanges, AddRoutee, RemoveRoutee, StopRoutee, CrashWorker, ProxyForwards, Forward,
      ForwardToDeadLetters, ForwardLost

\* A task becomes FINISHED by a finish from the mailbox, and keeps its result.
LEMMA FinishedStep ==
    ASSUME TypeOK, FinishesMatch, TasksAreKnown, FinishHasResult, FinishedHasResult,
           [Next]_vars, restarts' = 0,
           NEW t \in TaskIds, statuses'[t] = "FINISHED"
    PROVE  ResultIsDue(t)'
<1>1. ~FrontendRestart /\ (\A u \in TaskIds : ~RegisterUnknown(u)) /\ restarts = 0
  BY FirstLife DEF FrontendRestart, RegisterUnknown, NewInstance, TypeOK, TaskStorageTypeOK
<1>2. CASE statuses[t] = "FINISHED"
  BY <1>1, <1>2, ResultStaysDue DEF FinishedHasResult, TasksAreKnown
<1>3. ASSUME NEW w \in Workers, TaskStorageReceives(w), statuses[t] # "FINISHED"
      PROVE  ResultIsDue(t)'
  <2> DEFINE c == mail["taskStorage"][w]
             m == Head(c)
  <2>1. /\ statuses' = [statuses EXCEPT ![m.taskId] = StatusOf(m)]
        /\ c # <<>> /\ c \in Seq(Events)
    BY <1>3 DEF TaskStorageReceives, ReceiveStateChange, RecordStateChange, Receive,
                TypeOK, ChannelTypeOK, Storages
  <2>2. m \in Events
    BY <2>1, TailOfChannel
  <2>3. IsFinish(m, t)
    <3>1. t = m.taskId /\ StatusOf(m) = "FINISHED"
      BY <1>3, <2>1 DEF TypeOK, TaskStorageTypeOK
    <3>2. QED
      BY <3>1, <2>2, EventFields DEF StatusOf, IsFinish
  <2>4. FinishIsIn(t, c)
    BY <2>1, <2>3, FinishTaken
  <2>5. ResultIsDue(t)
    BY <2>4 DEF FinishHasResult
  <2>6. t \in 1..id
    BY <2>4 DEF FinishIsIn, IsFinish, FinishesMatch, Matches, Storages
  <2>7. QED
    BY <2>5, <2>6, ResultStaysDue
<1>4. ASSUME NEW s \in Numbers, CreateTask(s)
      PROVE  statuses[t] = "FINISHED"
  BY <1>4 DEF CreateTask, QueueNewMessage, TypeOK, TaskStorageTypeOK
<1>5. CASE UNCHANGED statuses
  BY <1>2, <1>5
<1>6. QED
  BY <1>1, <1>2, <1>3, <1>4, <1>5
  DEF Next, vars, taskStorageVars, Watch, RegisterNewSSESubscription, RegisterKnown,
      ResultStorageReceives, StorageSubscribes, PoolChanges, ProxyForwards, WorkerBegins,
      WorkerEnds

LEMMA FirstLifeInit == Init => FirstLifeInv /\ FinishedHasResult
<1> SUFFICES ASSUME Init
             PROVE  FirstLifeInv /\ FinishedHasResult
  OBVIOUS
<1>1. TasksAreKnown /\ FinishedHasResult
  BY NullAssumption DEF Init, ChannelInit, TaskStorageInit, NoEntry, TasksAreKnown,
                        FinishedHasResult, Statuses
<1>2. AssignmentsMatch /\ FinishesMatch /\ FinishHasResult
  BY DEF Init, ChannelInit, WorkerPoolInit, Storages, AssignmentsMatch, FinishesMatch,
         FinishHasResult, FinishIsIn
<1>3. QED
  BY <1>1, <1>2 DEF FirstLifeInv

LEMMA FirstLifeStep ==
    ASSUME TypeOK, FirstLifeInv, FinishedHasResult, [Next]_vars
    PROVE  FirstLifeInv' /\ FinishedHasResult'
<1>1. ASSUME restarts' = 0
      PROVE  /\ AssignmentsMatch /\ FinishesMatch /\ TasksAreKnown /\ FinishHasResult
  BY <1>1, FirstLife DEF FirstLifeInv
<1>2. FirstLifeInv'
  BY <1>1, AssignmentsStep, FinishesStep, TasksStep, FinishResultStep DEF FirstLifeInv
<1>3. FinishedHasResult'
  BY <1>1, FinishedStep DEF FinishedHasResult
<1>4. QED
  BY <1>2, <1>3

-----------------------------------------------------------------------------
(* The invariants.                                                         *)

\* IInv is inductive, for all values of the constants.
THEOREM Inductive == Spec => []IInv
<1>1. Init => IInv
  BY TypeInit, StallInit, NumbersInit, SubscriberInit, FirstLifeInit DEF IInv
<1>2. IInv /\ [Next]_vars => IInv'
  BY TypeStep, StallStep, NumbersStep, SubscriberStep, FirstLifeStep DEF IInv
<1>3. QED
  BY <1>1, <1>2, PTL DEF Spec

\* Nothing in the actors forgets a task: what TaskStorage shows as QUEUED or
\* STARTED is still on its way or was dropped outside them.
THEOREM NothingStalls == Spec => []NoSilentStall
<1>1. IInv => NoSilentStall
  BY DEF IInv
<1>2. QED
  BY <1>1, Inductive, PTL

\* The stream registered for a task has the task's status as its last event.
THEOREM SubscribersAreInformed == Spec => []SubscriberInformed
<1>1. IInv => SubscriberInformed
  BY DEF IInv
<1>2. QED
  BY <1>1, Inductive, PTL

\* While TaskStorage is in its first life, the result of a FINISHED task is
\* stored, on its way to ResultStorage, or was dropped on that way.
THEOREM FinishedTasksHaveResults == Spec => []FinishedHasResult
<1>1. IInv => FinishedHasResult
  BY DEF IInv
<1>2. QED
  BY <1>1, Inductive, PTL

-----------------------------------------------------------------------------
(* Channels without repetitions.                                           *)

\* Adding the assignment of a task that is not in the channel.
LEMMA DistinctAppended ==
    ASSUME NEW c \in Seq(Assignments), NEW a \in Assignments,
           Distinct(c), a.taskId \notin Assigned(c)
    PROVE  Distinct(Append(c, a))
<1>1. \A i \in DOMAIN c : c[i].taskId # a.taskId
  BY DEF Assigned
<1>2. QED
  BY <1>1, AppendToChannel DEF Distinct

\* Taking the head leaves no other assignment of its task.
LEMMA DistinctTaken ==
    ASSUME NEW c \in Seq(Assignments), c # <<>>, Distinct(c)
    PROVE  /\ Distinct(Tail(c))
           /\ Head(c).taskId \notin Assigned(Tail(c))
<1>1. \A i \in DOMAIN Tail(c) : i + 1 # 1 /\ i + 1 \in DOMAIN c /\ Tail(c)[i] = c[i + 1]
  BY TailOfChannel
<1>2. \A i, j \in DOMAIN Tail(c) : i # j => i + 1 # j + 1
  BY TailOfChannel
<1>3. Distinct(Tail(c))
  BY <1>1, <1>2 DEF Distinct
<1>4. \A i \in DOMAIN Tail(c) : Tail(c)[i].taskId # Head(c).taskId
  BY <1>1, TailOfChannel DEF Distinct
<1>5. QED
  BY <1>3, <1>4 DEF Assigned

\* An event is a start or a finish of its task.
LEMMA StartOrFinish ==
    ASSUME NEW c \in Seq(Events), NEW i \in DOMAIN c
    PROVE  /\ c[i].taskId \in TaskIds
           /\ StartIsIn(c[i].taskId, c) \/ FinishIsIn(c[i].taskId, c)
BY ElementOfSeq, EventFields DEF StartIsIn, FinishIsIn, IsFinish

\* Adding an event to a channel.
LEMMA StartAppended ==
    ASSUME NEW c \in Seq(Events), NEW e \in Events, NEW t
    PROVE  StartIsIn(t, Append(c, e)) <=>
              StartIsIn(t, c) \/ (e.class = "CalculationStarted" /\ e.taskId = t)
BY AppendToChannel DEF StartIsIn

\* The start of a task may follow nothing of the task, its finish only a start.
LEMMA StartsFirstAppended ==
    ASSUME NEW c \in Seq(Events), NEW e \in Events, StartsFirst(c),
           ~FinishIsIn(e.taskId, c),
           e.class = "CalculationStarted" => ~StartIsIn(e.taskId, c)
    PROVE  StartsFirst(Append(c, e))
<1>1. \A i \in DOMAIN c : c[i].taskId = e.taskId =>
        c[i].class = "CalculationStarted" /\ e.class = "CalculationFinished"
  BY ElementOfSeq, EventFields DEF StartIsIn, FinishIsIn, IsFinish
<1>2. QED
  BY <1>1, AppendToChannel DEF StartsFirst

\* Taking the head: a start leaves no start of its task, a finish no event.
LEMMA StartsFirstTaken ==
    ASSUME NEW c \in Seq(Events), c # <<>>, StartsFirst(c)
    PROVE  /\ StartsFirst(Tail(c))
           /\ ~StartIsIn(Head(c).taskId, Tail(c))
           /\ Head(c).class = "CalculationFinished" => ~FinishIsIn(Head(c).taskId, Tail(c))
           /\ \A t : StartIsIn(t, Tail(c)) => StartIsIn(t, c)
           /\ Head(c).class = "CalculationStarted" => StartIsIn(Head(c).taskId, c)
           /\ Head(c).class = "CalculationFinished" => FinishIsIn(Head(c).taskId, c)
<1>1. /\ \A i \in DOMAIN Tail(c) : 1 < i + 1 /\ i + 1 \in DOMAIN c /\ Tail(c)[i] = c[i + 1]
      /\ \A i, j \in DOMAIN Tail(c) : i < j => i + 1 < j + 1
      /\ 1 \in DOMAIN c /\ Head(c) = c[1]
  BY TailOfChannel
<1>2. \A i \in DOMAIN Tail(c) : Tail(c)[i].taskId = Head(c).taskId =>
        /\ Head(c).class = "CalculationStarted"
        /\ Tail(c)[i].class = "CalculationFinished"
  BY <1>1 DEF StartsFirst
<1>3. StartsFirst(Tail(c))
  BY <1>1 DEF StartsFirst
<1>4. QED
  BY <1>1, <1>2, <1>3 DEF StartIsIn, FinishIsIn, IsFinish

-----------------------------------------------------------------------------
(* Every task is in one place and its events are in order.                 *)

OrderParts == ChannelsInOrder /\ OnePlace /\ StartIsAhead /\ StatusInStep

LEMMA OrderInit == Init => InOrder
<1> SUFFICES ASSUME Init
             PROVE  OrderParts /\ StreamsInStep
  BY DEF InOrder, OrderParts
<1> USE DEF Init, ChannelInit, TaskStorageInit, WorkerPoolInit, NoEntry, Storages
<1>1. ChannelsInOrder /\ \A t \in TaskIds : t \notin Assigned(toProxy)
  BY DEF ChannelsInOrder, Distinct, StartsFirst, Assigned
<1>2. \A t \in TaskIds, w \in Workers :
        /\ t \notin Assigned(toWorker[w])
        /\ ~RunsAt(t, w)
        /\ ~FinishIsIn(t, mail["taskStorage"][w])
        /\ ~StartIsIn(t, mail["taskStorage"][w])
  BY DEF Assigned, RunsAt, FinishIsIn, StartIsIn
<1>3. \A t \in TaskIds, leg \in Legs, w \in Workers : ~IsOn(t, leg, w)
  BY <1>2 DEF IsOn
<1>4. OnePlace /\ StartIsAhead
  BY <1>1, <1>2, <1>3 DEF OnePlace, StartIsAhead
<1>5. StatusInStep
  BY <1>1, <1>3 DEF StatusInStep, Legs
<1>6. StreamsInStep
  BY DEF StreamsInStep
<1>7. QED
  BY <1>1, <1>4, <1>5, <1>6 DEF OrderParts

\* What a step takes away of the assignments and calculations, none moved,
\* leaves the rest in order.
LEMMA LessInOrder ==
    ASSUME OrderParts, UNCHANGED <<id, statuses, mail["taskStorage"]>>,
           Distinct(toProxy)', Assigned(toProxy)' \subseteq Assigned(toProxy),
           \A w \in Workers :
              /\ Distinct(toWorker'[w])
              /\ Assigned(toWorker'[w]) \subseteq Assigned(toWorker[w])
              /\ \A t \in TaskIds : RunsAt(t, w)' => RunsAt(t, w)
    PROVE  OrderParts'
<1>1. \A t \in TaskIds, leg \in Legs, w \in Workers : IsOn(t, leg, w)' => IsOn(t, leg, w)
  BY DEF IsOn
<1>2. ChannelsInOrder'
  BY DEF OrderParts, ChannelsInOrder
<1>3. OnePlace'
  BY <1>1 DEF OrderParts, OnePlace
<1>4. StartIsAhead'
  BY DEF OrderParts, StartIsAhead
<1>5. StatusInStep'
  BY <1>1 DEF OrderParts, StatusInStep, Legs
<1>6. QED
  BY <1>2, <1>3, <1>4, <1>5 DEF OrderParts

\* Pool changes only drop.
LEMMA PoolChangesOrder ==
    ASSUME TypeOK, OrderParts, NEW w \in Workers, PoolChanges(w)
    PROVE  OrderParts'
<1>1. UNCHANGED <<toProxy, mail, statuses, id>>
  BY DEF PoolChanges, AddRoutee, RemoveRoutee, StopRoutee, CrashWorker, channelVars,
         taskStorageVars
<1>2. \A v \in Workers : toWorker'[v] = toWorker[v] \/ toWorker'[v] = <<>>
  BY DEF PoolChanges, AddRoutee, RemoveRoutee, StopRoutee, CrashWorker, channelVars,
         TypeOK, ChannelTypeOK
<1>3. \A v \in Workers : running'[v] = running[v] \/ running'[v] = Null
  BY DEF PoolChanges, AddRoutee, RemoveRoutee, StopRoutee, CrashWorker, TypeOK,
         WorkerPoolTypeOK
<1>4. Distinct(<<>>) /\ Assigned(<<>>) = {}
  BY DEF Distinct, Assigned
<1>5. \A v \in Workers : \A t \in TaskIds : RunsAt(t, v)' => RunsAt(t, v)
  BY <1>3 DEF RunsAt
<1>6. Distinct(toProxy) /\ \A v \in Workers : Distinct(toWorker[v])
  BY DEF OrderParts, ChannelsInOrder
<1>7. QED
  BY <1>1, <1>2, <1>4, <1>5, <1>6, LessInOrder

\* The proxy hands the head of its channel to one routee, or drops it.
LEMMA ProxyForwardsOrder ==
    ASSUME TypeOK, OrderParts, ProxyForwards
    PROVE  OrderParts'
<1> DEFINE a == Head(toProxy)
           t0 == a.taskId
<1>1. /\ toProxy # <<>> /\ toProxy \in Seq(Assignments) /\ toProxy' = Tail(toProxy)
      /\ UNCHANGED <<running, mail, id, statuses>>
  BY DEF ProxyForwards, Forward, ForwardToDeadLetters, ForwardLost, poolVars,
         taskStorageVars, TypeOK, ChannelTypeOK
<1>2. /\ a \in Assignments /\ t0 \in TaskIds
      /\ Assigned(toProxy) = {t0} \cup Assigned(toProxy')
  BY <1>1, TailOfChannel, AssignedTaken, AssignmentFields
<1>3. Distinct(toProxy)' /\ t0 \notin Assigned(toProxy')
  BY <1>1, DistinctTaken DEF OrderParts, ChannelsInOrder
<1>4. CASE UNCHANGED toWorker
  BY <1>1, <1>2, <1>3, <1>4, LessInOrder DEF OrderParts, ChannelsInOrder, RunsAt
<1>5. ASSUME NEW w \in Workers, Forward(w)
      PROVE  OrderParts'
  <2>1. /\ toWorker[w] \in Seq(Assignments)
        /\ toWorker'[w] = Append(toWorker[w], a)
        /\ \A v \in Workers : v # w => toWorker'[v] = toWorker[v]
    BY <1>5 DEF Forward, TypeOK, ChannelTypeOK
  <2>2. \A leg \in Legs, v \in Workers : ~IsOn(t0, leg, v)
    BY <1>2 DEF OrderParts, OnePlace
  <2>3. /\ t0 \notin Assigned(toWorker[w])
        /\ \A v \in Workers : ~StartIsIn(t0, mail["taskStorage"][v])
    BY <1>2, <2>2 DEF OrderParts, StartIsAhead, IsOn, Legs
  <2>4. Distinct(toWorker'[w]) /\ Assigned(toWorker'[w]) = Assigned(toWorker[w]) \cup {t0}
    BY <1>2, <2>1, <2>3, DistinctAppended, AssignedAppended DEF OrderParts, ChannelsInOrder
  <2>5. \A t \in TaskIds, leg \in Legs, v \in Workers :
          IsOn(t, leg, v)' <=> IsOn(t, leg, v) \/ (t = t0 /\ leg = "queued" /\ v = w)
    BY <1>1, <2>1, <2>4 DEF IsOn, RunsAt
  <2> HIDE DEF a
  <2>6. ChannelsInOrder'
    BY <1>1, <1>3, <2>1, <2>4 DEF OrderParts, ChannelsInOrder
  <2>7. OnePlace'
    BY <1>2, <1>3, <2>2, <2>5 DEF OrderParts, OnePlace
  <2>8. StartIsAhead'
    BY <1>1, <1>2, <2>1, <2>3, <2>4 DEF OrderParts, StartIsAhead, RunsAt
  <2>9. statuses[t0] = "QUEUED"
    BY <1>2 DEF OrderParts, StatusInStep
  <2>10. StatusInStep'
    BY <1>1, <1>2, <2>5, <2>9 DEF OrderParts, StatusInStep, Legs
  <2>11. QED
    BY <2>6, <2>7, <2>8, <2>10 DEF OrderParts
<1>6. QED
  BY <1>4, <1>5 DEF ProxyForwards, ForwardToDeadLetters, ForwardLost

\* A new task is nowhere yet.
LEMMA CreateTaskOrder ==
    ASSUME TypeOK, OrderParts, NEW s \in Numbers, CreateTask(s)
    PROVE  OrderParts'
<1> DEFINE a == TaskIdAssigned(id + 1, s)
           t0 == id + 1
<1>1. a \in Assignments /\ a.taskId = t0 /\ t0 \in TaskIds /\ id \in Nat
  BY ConstantsAssumption
  DEF CreateTask, QueueNewMessage, TypeOK, TaskStorageTypeOK, TaskIds, Assignments,
      TaskIdAssigned
<1>2. /\ toProxy \in Seq(Assignments) /\ toProxy' = Append(toProxy, a)
      /\ UNCHANGED <<toWorker, running, mail>>
      /\ id' = t0
      /\ statuses' = [statuses EXCEPT ![t0] = "QUEUED"]
  BY DEF CreateTask, QueueNewMessage, poolVars, TypeOK, ChannelTypeOK
<1>3. statuses[t0] = Null
  BY <1>1 DEF OrderParts, StatusInStep
<1>4. t0 \notin Assigned(toProxy) /\ \A leg \in Legs, w \in Workers : ~IsOn(t0, leg, w)
  BY <1>1, <1>3, NullAssumption DEF OrderParts, StatusInStep, Legs, IsOn, Statuses
<1>5. \A w \in Workers : ~StartIsIn(t0, mail["taskStorage"][w])
  BY <1>1, <1>3, NullAssumption DEF OrderParts, StartIsAhead, Statuses
<1>6. Distinct(toProxy)' /\ Assigned(toProxy') = Assigned(toProxy) \cup {t0}
  BY <1>1, <1>2, <1>4, DistinctAppended, AssignedAppended DEF OrderParts, ChannelsInOrder
<1>7. \A t \in TaskIds, leg \in Legs, w \in Workers : IsOn(t, leg, w)' <=> IsOn(t, leg, w)
  BY <1>2 DEF IsOn, RunsAt
<1>8. \A t \in TaskIds : statuses'[t] = IF t = t0 THEN "QUEUED" ELSE statuses[t]
  BY <1>1, <1>2 DEF TypeOK, TaskStorageTypeOK
<1> HIDE DEF a, t0
<1>9. ChannelsInOrder'
  BY <1>2, <1>6 DEF OrderParts, ChannelsInOrder
<1>10. OnePlace'
  BY <1>4, <1>6, <1>7 DEF OrderParts, OnePlace
<1>11. StartIsAhead'
  BY <1>2, <1>5, <1>6, <1>8 DEF OrderParts, StartIsAhead, RunsAt
<1>12. StatusInStep'
  <2>1. t0 \in 1..id' /\ 1..id \subseteq 1..id'
    BY <1>1, <1>2 DEF t0
  <2>2. QED
    BY <1>4, <1>6, <1>7, <1>8, <2>1 DEF OrderParts, StatusInStep, Legs
<1>13. QED
  BY <1>9, <1>10, <1>11, <1>12 DEF OrderParts

\* The head of a routee's mailbox becomes its calculation, and its start may
\* become the last event on the way to TaskStorage.
LEMMA WorkerBeginsOrder ==
    ASSUME TypeOK, OrderParts, NEW w \in Workers, WorkerBegins(w)
    PROVE  OrderParts'
<1> DEFINE ts == "taskStorage"
           a == Head(toWorker[w])
           t0 == a.taskId
           e == CalculationStarted(t0)
<1>1. /\ toWorker[w] # <<>> /\ toWorker[w] \in Seq(Assignments)
      /\ toWorker'[w] = Tail(toWorker[w])
      /\ \A v \in Workers : v # w => toWorker'[v] = toWorker[v]
      /\ running[w] = Null
      /\ running' = [running EXCEPT ![w] = a]
      /\ Publish(w, e)
      /\ UNCHANGED <<toProxy, id, statuses>>
  BY DEF WorkerBegins, BeginCalculation, taskStorageVars, TypeOK, ChannelTypeOK
<1>2. /\ a \in Assignments /\ t0 \in TaskIds /\ a # Null
      /\ Assigned(toWorker[w]) = {t0} \cup Assigned(toWorker'[w])
  BY <1>1, TailOfChannel, AssignedTaken, AssignmentFields, NullAssumption
<1>3. Distinct(toWorker'[w]) /\ t0 \notin Assigned(toWorker'[w])
  BY <1>1, DistinctTaken DEF OrderParts, ChannelsInOrder
<1>4. e \in Events /\ e.class = "CalculationStarted" /\ e.taskId = t0
  BY <1>2 DEF CalculationStarted, Events, StartEvents
<1> HIDE DEF e, a
<1>5. /\ \A v \in Workers : v # w => mail'[ts][v] = mail[ts][v]
      /\ mail'[ts][w] = mail[ts][w] \/ mail'[ts][w] = Append(mail[ts][w], e)
  BY <1>1, <1>4, PublishEffect DEF Storages
<1>6. mail[ts][w] \in Seq(Events)
  BY DEF TypeOK, ChannelTypeOK, Storages
<1>7. /\ t0 \notin Assigned(toProxy)
      /\ \A leg \in Legs, v \in Workers : IsOn(t0, leg, v) => leg = "queued" /\ v = w
      /\ statuses[t0] = "QUEUED"
  <2>1. IsOn(t0, "queued", w)
    BY <1>2 DEF IsOn
  <2>2. QED
    BY <1>2, <2>1 DEF OrderParts, OnePlace, StatusInStep, Legs
<1>8. \A v \in Workers :
        ~StartIsIn(t0, mail[ts][v]) /\ ~FinishIsIn(t0, mail[ts][v]) /\ ~RunsAt(t0, v)
  BY <1>2, <1>7 DEF OrderParts, StartIsAhead, IsOn, Legs
<1>9. /\ \A t \in TaskIds, v \in Workers :
            FinishIsIn(t, mail'[ts][v]) <=> FinishIsIn(t, mail[ts][v])
      /\ \A t \in TaskIds, v \in Workers :
           StartIsIn(t, mail'[ts][v]) => StartIsIn(t, mail[ts][v]) \/ (t = t0 /\ v = w)
      /\ \A v \in Workers : StartsFirst(mail[ts][v]) => StartsFirst(mail'[ts][v])
  <2>1. CASE mail'[ts][w] = mail[ts][w]
    BY <1>5, <2>1
  <2>2. CASE mail'[ts][w] = Append(mail[ts][w], e)
    <3>1. \A t \in TaskIds : FinishIsIn(t, mail'[ts][w]) <=> FinishIsIn(t, mail[ts][w])
      BY <1>4, <1>6, <2>2, FinishAppended DEF IsFinish
    <3>2. \A t \in TaskIds : StartIsIn(t, mail'[ts][w]) => StartIsIn(t, mail[ts][w]) \/ t = t0
      BY <1>4, <1>6, <2>2, StartAppended
    <3>3. StartsFirst(mail[ts][w]) => StartsFirst(mail'[ts][w])
      BY <1>4, <1>6, <1>8, <2>2, StartsFirstAppended
    <3>4. QED
      BY <1>5, <3>1, <3>2, <3>3
  <2>3. QED
    BY <1>5, <2>1, <2>2
<1>10. \A t \in TaskIds, v \in Workers : RunsAt(t, v)' <=> RunsAt(t, v) \/ (t = t0 /\ v = w)
  BY <1>1, <1>2 DEF RunsAt, TypeOK, WorkerPoolTypeOK
<1>11. \A t \in TaskIds, v \in Workers :
         t \in Assigned(toWorker'[v]) <=> t \in Assigned(toWorker[v]) /\ ~(t = t0 /\ v = w)
  BY <1>1, <1>2, <1>3
<1>12. \A t \in TaskIds, leg \in Legs, v \in Workers :
         IsOn(t, leg, v)' => \/ t # t0 /\ IsOn(t, leg, v)
                             \/ t = t0 /\ leg = "running" /\ v = w
  <2>1. \A t \in TaskIds, v \in Workers : t # t0 =>
          \A leg \in Legs : IsOn(t, leg, v)' => IsOn(t, leg, v)
    BY <1>9, <1>10, <1>11 DEF IsOn
  <2>2. \A t \in TaskIds, v \in Workers : t = t0 =>
          \A leg \in Legs : IsOn(t, leg, v)' => leg = "running" /\ v = w
    BY <1>2, <1>7, <1>8, <1>9, <1>10, <1>11 DEF IsOn, Legs
  <2>3. QED
    BY <2>1, <2>2
<1>13. ChannelsInOrder'
  BY <1>1, <1>3, <1>9 DEF OrderParts, ChannelsInOrder
<1>14. OnePlace'
  BY <1>1, <1>7, <1>12 DEF OrderParts, OnePlace
<1>15. StartIsAhead'
  <2> SUFFICES ASSUME NEW t \in TaskIds, NEW v \in Workers, StartIsIn(t, mail'[ts][v])
               PROVE  /\ statuses[t] = "QUEUED"
                      /\ t \notin Assigned(toProxy)
                      /\ \A u \in Workers :
                           /\ t \notin Assigned(toWorker'[u])
                           /\ RunsAt(t, u)' \/ FinishIsIn(t, mail'[ts][u])
                                \/ StartIsIn(t, mail'[ts][u]) => u = v
    BY <1>1 DEF StartIsAhead
  <2>1. CASE t = t0
    <3>1. v = w
      BY <1>8, <1>9, <2>1
    <3>2. \A u \in Workers : t \notin Assigned(toWorker'[u])
      BY <1>7, <1>11, <2>1 DEF IsOn, Legs
    <3>3. QED
      BY <1>7, <1>8, <1>9, <1>10, <2>1, <3>1, <3>2
  <2>2. CASE t # t0
    BY <1>9, <1>10, <1>11, <2>2 DEF OrderParts, StartIsAhead
  <2>3. QED
    BY <2>1, <2>2
<1>16. StatusInStep'
  BY <1>1, <1>7, <1>12 DEF OrderParts, StatusInStep, Legs
<1>17. QED
  BY <1>13, <1>14, <1>15, <1>16 DEF OrderParts

\* A calculation that ends becomes, unless it is lost, the last event on the way
\* to TaskStorage; only the start of its task may be there already.
LEMMA WorkerEndsOrder ==
    ASSUME TypeOK, OrderParts, NEW w \in Workers, WorkerEnds(w)
    PROVE  OrderParts'
<1> DEFINE ts == "taskStorage"
           t0 == running[w].taskId
           e == CalculationFinished(t0, running[w].number)
<1>1. /\ running[w] # Null
      /\ running' = [running EXCEPT ![w] = Null]
      /\ Publish(w, e)
      /\ UNCHANGED <<toProxy, toWorker, id, statuses>>
  BY DEF WorkerEnds, EndCalculation, taskStorageVars
<1>2. /\ t0 \in TaskIds
      /\ e \in Events /\ e.class = "CalculationFinished" /\ e.taskId = t0
  <2>1. t0 \in TaskIds /\ running[w].number \in Numbers
    BY <1>1, AssignmentFields DEF TypeOK, WorkerPoolTypeOK
  <2>2. QED
    BY <2>1, PublishedEvents
<1> HIDE DEF e
<1>3. /\ \A v \in Workers : v # w => mail'[ts][v] = mail[ts][v]
      /\ mail'[ts][w] = mail[ts][w] \/ mail'[ts][w] = Append(mail[ts][w], e)
  BY <1>1, <1>2, PublishEffect DEF Storages
<1>4. mail[ts][w] \in Seq(Events)
  BY DEF TypeOK, ChannelTypeOK, Storages
<1>5. IsOn(t0, "running", w)
  BY <1>1 DEF IsOn, RunsAt
<1>6. /\ t0 \notin Assigned(toProxy)
      /\ \A leg \in Legs, v \in Workers : IsOn(t0, leg, v) => leg = "running" /\ v = w
      /\ statuses[t0] \in {"QUEUED", "STARTED"}
  BY <1>2, <1>5 DEF OrderParts, OnePlace, StatusInStep, Legs
<1>7. /\ \A v \in Workers : ~FinishIsIn(t0, mail[ts][v])
      /\ \A v \in Workers : t0 \notin Assigned(toWorker[v])
  BY <1>6 DEF IsOn, Legs
<1>8. \A v \in Workers : StartIsIn(t0, mail[ts][v]) => v = w
  BY <1>1, <1>2 DEF OrderParts, StartIsAhead, RunsAt
<1>9. /\ \A t \in TaskIds, v \in Workers :
           FinishIsIn(t, mail'[ts][v]) => FinishIsIn(t, mail[ts][v]) \/ (t = t0 /\ v = w)
      /\ \A t \in TaskIds, v \in Workers :
           StartIsIn(t, mail'[ts][v]) <=> StartIsIn(t, mail[ts][v])
      /\ \A v \in Workers : StartsFirst(mail[ts][v]) => StartsFirst(mail'[ts][v])
  <2>1. CASE mail'[ts][w] = mail[ts][w]
    BY <1>3, <2>1
  <2>2. CASE mail'[ts][w] = Append(mail[ts][w], e)
    <3>1. \A t \in TaskIds : FinishIsIn(t, mail'[ts][w]) => FinishIsIn(t, mail[ts][w]) \/ t = t0
      BY <1>2, <1>4, <2>2, FinishAppended DEF IsFinish
    <3>2. \A t \in TaskIds : StartIsIn(t, mail'[ts][w]) <=> StartIsIn(t, mail[ts][w])
      BY <1>2, <1>4, <2>2, StartAppended
    <3>3. StartsFirst(mail[ts][w]) => StartsFirst(mail'[ts][w])
      BY <1>2, <1>4, <1>7, <2>2, StartsFirstAppended
    <3>4. QED
      BY <1>3, <3>1, <3>2, <3>3
  <2>3. QED
    BY <1>3, <2>1, <2>2
<1>10. \A t \in TaskIds, v \in Workers : RunsAt(t, v)' <=> RunsAt(t, v) /\ v # w
  BY <1>1 DEF RunsAt, TypeOK, WorkerPoolTypeOK
<1>11. \A t \in TaskIds, leg \in Legs, v \in Workers :
         IsOn(t, leg, v)' => \/ t # t0 /\ IsOn(t, leg, v)
                             \/ t = t0 /\ leg = "finished" /\ v = w
  <2>1. \A t \in TaskIds, v \in Workers : t # t0 =>
          \A leg \in Legs : IsOn(t, leg, v)' => IsOn(t, leg, v)
    BY <1>1, <1>9, <1>10 DEF IsOn
  <2>2. \A v \in Workers : ~RunsAt(t0, v) \/ v = w
    BY <1>6 DEF IsOn, Legs
  <2>3. \A t \in TaskIds, v \in Workers : t = t0 =>
          \A leg \in Legs : IsOn(t, leg, v)' => leg = "finished" /\ v = w
    BY <1>1, <1>7, <1>9, <1>10, <2>2 DEF IsOn, Legs
  <2>4. QED
    BY <2>1, <2>3
<1>12. ChannelsInOrder'
  BY <1>1, <1>9 DEF OrderParts, ChannelsInOrder
<1>13. OnePlace'
  BY <1>1, <1>6, <1>11 DEF OrderParts, OnePlace
<1>14. StartIsAhead'
  <2> SUFFICES ASSUME NEW t \in TaskIds, NEW v \in Workers, StartIsIn(t, mail'[ts][v])
               PROVE  /\ statuses[t] = "QUEUED"
                      /\ t \notin Assigned(toProxy)
                      /\ \A u \in Workers :
                           /\ t \notin Assigned(toWorker[u])
                           /\ RunsAt(t, u)' \/ FinishIsIn(t, mail'[ts][u])
                                \/ StartIsIn(t, mail'[ts][u]) => u = v
    BY <1>1 DEF StartIsAhead
  <2>1. StartIsIn(t, mail[ts][v])
    BY <1>9
  <2>2. t = t0 => v = w
    BY <1>8, <2>1
  <2>3. QED
    BY <1>9, <1>10, <2>1, <2>2 DEF OrderParts, StartIsAhead
<1>15. StatusInStep'
  BY <1>1, <1>6, <1>11 DEF OrderParts, StatusInStep, Legs
<1>16. QED
  BY <1>12, <1>13, <1>14, <1>15 DEF OrderParts

\* The event TaskStorage receives moves its task forward.
LEMMA ReceivedInOrder ==
    ASSUME TypeOK, OrderParts, NEW w \in Workers, TaskStorageReceives(w),
           NEW m, m = Head(mail["taskStorage"][w])
    PROVE  /\ m \in Events /\ m.taskId \in TaskIds
           /\ statuses' = [statuses EXCEPT ![m.taskId] = StatusOf(m)]
           /\ m.class = "CalculationStarted" =>
                statuses[m.taskId] = "QUEUED" /\ StatusOf(m) = "STARTED"
           /\ m.class = "CalculationFinished" =>
                statuses[m.taskId] \in {"QUEUED", "STARTED"} /\ StatusOf(m) = "FINISHED"
<1> DEFINE c == mail["taskStorage"][w]
<1>1. /\ c # <<>> /\ c \in Seq(Events)
      /\ statuses' = [statuses EXCEPT ![m.taskId] = StatusOf(m)]
  BY DEF TaskStorageReceives, ReceiveStateChange, RecordStateChange, Receive,
         TypeOK, ChannelTypeOK, Storages
<1>2. m \in Events /\ m.taskId \in TaskIds
  BY <1>1, TailOfChannel, EventFields
<1>3. StartsFirst(c)
  BY DEF OrderParts, ChannelsInOrder
<1>4. /\ m.class = "CalculationStarted" => StartIsIn(m.taskId, c)
      /\ m.class = "CalculationFinished" => IsOn(m.taskId, "finished", w)
  BY <1>1, <1>3, StartsFirstTaken DEF IsOn
<1>5. /\ m.class = "CalculationStarted" => statuses[m.taskId] = "QUEUED"
      /\ m.class = "CalculationFinished" => statuses[m.taskId] \in {"QUEUED", "STARTED"}
  BY <1>2, <1>4 DEF OrderParts, StartIsAhead, StatusInStep
<1>6. QED
  BY <1>1, <1>2, <1>5 DEF StatusOf

LEMMA TaskStorageReceivesOrder ==
    ASSUME TypeOK, OrderParts, NEW w \in Workers, TaskStorageReceives(w)
    PROVE  OrderParts'
<1> DEFINE ts == "taskStorage"
           c == mail[ts][w]
<1>1. PICK m : m = Head(c)
  OBVIOUS
<1>2. PICK t0 : t0 = m.taskId
  OBVIOUS
<1>3. /\ m \in Events /\ t0 \in TaskIds
      /\ statuses' = [statuses EXCEPT ![t0] = StatusOf(m)]
      /\ m.class = "CalculationStarted" => statuses[t0] = "QUEUED" /\ StatusOf(m) = "STARTED"
      /\ m.class = "CalculationFinished" =>
           statuses[t0] \in {"QUEUED", "STARTED"} /\ StatusOf(m) = "FINISHED"
  BY <1>1, <1>2, ReceivedInOrder
<1>4. m.class \in {"CalculationStarted", "CalculationFinished"}
  BY <1>3, EventFields
<1>5. /\ c # <<>> /\ c \in Seq(Events)
      /\ mail'[ts][w] = Tail(c)
      /\ \A v \in Workers : v # w => mail'[ts][v] = mail[ts][v]
      /\ UNCHANGED <<toProxy, toWorker, running, id>>
  BY DEF TaskStorageReceives, ReceiveStateChange, RecordStateChange, Receive, poolVars,
         TypeOK, ChannelTypeOK, Storages
<1>6. /\ StartsFirst(Tail(c))
      /\ ~StartIsIn(t0, Tail(c))
      /\ m.class = "CalculationFinished" => ~FinishIsIn(t0, Tail(c))
      /\ \A t : StartIsIn(t, Tail(c)) => StartIsIn(t, c)
      /\ \A t : FinishIsIn(t, Tail(c)) => FinishIsIn(t, c)
      /\ m.class = "CalculationStarted" => StartIsIn(t0, c)
      /\ m.class = "CalculationFinished" => FinishIsIn(t0, c)
  <2>1. StartsFirst(c)
    BY DEF OrderParts, ChannelsInOrder
  <2> HIDE DEF c
  <2>2. QED
    BY <1>1, <1>2, <1>5, <2>1, StartsFirstTaken, FinishTaken
<1>7. /\ \A t \in TaskIds, v \in Workers : StartIsIn(t, mail'[ts][v]) => StartIsIn(t, mail[ts][v])
      /\ \A t \in TaskIds, v \in Workers : FinishIsIn(t, mail'[ts][v]) => FinishIsIn(t, mail[ts][v])
      /\ \A t \in TaskIds, v \in Workers : RunsAt(t, v)' <=> RunsAt(t, v)
  BY <1>5, <1>6 DEF RunsAt
<1>8. \A t \in TaskIds, leg \in Legs, v \in Workers : IsOn(t, leg, v)' => IsOn(t, leg, v)
  BY <1>5, <1>7 DEF IsOn
<1>9. \A v \in Workers : ~StartIsIn(t0, mail'[ts][v])
  <2>1. \A v \in Workers : StartIsIn(t0, mail[ts][v]) => v = w
    BY <1>3, <1>4, <1>6 DEF OrderParts, StartIsAhead
  <2>2. QED
    BY <1>3, <1>5, <1>6, <1>7, <2>1
<1>10. \A t \in TaskIds : statuses'[t] = IF t = t0 THEN StatusOf(m) ELSE statuses[t]
  BY <1>3 DEF TypeOK, TaskStorageTypeOK
<1>11. /\ t0 \notin Assigned(toProxy)
       /\ \A v \in Workers : t0 \notin Assigned(toWorker[v])
       /\ m.class = "CalculationFinished" =>
            \A v \in Workers : ~RunsAt(t0, v) /\ ~FinishIsIn(t0, mail'[ts][v])
  <2>1. CASE m.class = "CalculationStarted"
    BY <1>3, <1>6, <2>1 DEF OrderParts, StartIsAhead
  <2>2. CASE m.class = "CalculationFinished"
    <3>1. IsOn(t0, "finished", w)
      BY <1>6, <2>2 DEF IsOn
    <3>2. t0 \notin Assigned(toProxy) /\
          \A leg \in Legs, v \in Workers : IsOn(t0, leg, v) => leg = "finished" /\ v = w
      BY <1>3, <3>1 DEF OrderParts, OnePlace, Legs
    <3>3. \A v \in Workers :
            /\ t0 \notin Assigned(toWorker[v])
            /\ ~RunsAt(t0, v)
            /\ FinishIsIn(t0, mail[ts][v]) => v = w
      BY <3>2 DEF IsOn, Legs
    <3>4. QED
      BY <1>3, <1>5, <1>6, <1>7, <2>2, <3>2, <3>3
  <2>3. QED
    BY <1>4, <2>1, <2>2
<1>12. ChannelsInOrder'
  BY <1>5, <1>6 DEF OrderParts, ChannelsInOrder
<1>13. OnePlace'
  BY <1>5, <1>8 DEF OrderParts, OnePlace
<1>14. StartIsAhead'
  BY <1>5, <1>7, <1>9, <1>10 DEF OrderParts, StartIsAhead
<1>15. StatusInStep'
  <2> SUFFICES ASSUME NEW t \in TaskIds
               PROVE  /\ statuses'[t] # Null => t \in 1..id
                      /\ t \in Assigned(toProxy) => statuses'[t] = "QUEUED"
                      /\ \A v \in Workers :
                           /\ IsOn(t, "queued", v)' => statuses'[t] = "QUEUED"
                           /\ IsOn(t, "running", v)' \/ IsOn(t, "finished", v)' =>
                                statuses'[t] \in {"QUEUED", "STARTED"}
    BY <1>5 DEF StatusInStep
  <2>1. CASE t # t0
    BY <1>8, <1>10, <2>1 DEF OrderParts, StatusInStep, Legs
  <2>2. CASE t = t0
    <3>1. t \in 1..id
      BY <1>3, <1>4, <2>2, NullAssumption DEF OrderParts, StatusInStep, Statuses
    <3>2. \A v \in Workers : ~IsOn(t, "queued", v)'
      BY <1>5, <1>11, <2>2 DEF IsOn
    <3>3. m.class = "CalculationFinished" =>
            \A v \in Workers : ~IsOn(t, "running", v)' /\ ~IsOn(t, "finished", v)'
      BY <1>7, <1>11, <2>2 DEF IsOn
    <3>4. QED
      BY <1>3, <1>4, <1>10, <1>11, <2>2, <3>1, <3>2, <3>3
  <2>3. QED
    BY <2>1, <2>2
<1>16. QED
  BY <1>12, <1>13, <1>14, <1>15 DEF OrderParts

LEMMA OrderStep ==
    ASSUME TypeOK, OrderParts, [Next]_vars, restarts' = 0
    PROVE  OrderParts'
<1>1. ~FrontendRestart /\ \A t \in TaskIds : ~RegisterUnknown(t)
  BY FirstLife DEF FrontendRestart, RegisterUnknown, NewInstance, TypeOK, TaskStorageTypeOK
<1>2. CASE UNCHANGED <<id, statuses, mail["taskStorage"], toProxy, toWorker, running>>
  BY <1>2, LessInOrder DEF OrderParts, ChannelsInOrder, RunsAt
<1>3. ASSUME NEW w \in Workers, ResultStorageReceives(w)
      PROVE  mail'["taskStorage"] = mail["taskStorage"]
  BY <1>3 DEF ResultStorageReceives, ReceiveResult, Receive, TypeOK, ChannelTypeOK, Storages
<1>4. QED
  BY <1>1, <1>2, <1>3, CreateTaskOrder, TaskStorageReceivesOrder, PoolChangesOrder,
     ProxyForwardsOrder, WorkerBeginsOrder, WorkerEndsOrder
  DEF Next, vars, channelVars, taskStorageVars, poolVars, Watch, RegisterNewSSESubscription,
      RegisterKnown, ResultStorageReceives, StorageSubscribes

-----------------------------------------------------------------------------
(* Streams are told what their tasks go through.                           *)

\* The sequence of two events.
LEMMA TwoEvents ==
    ASSUME NEW x \in Statuses, NEW y \in Statuses
    PROVE  Append(<<x>>, y) = <<x, y>>
<1>1. Append(<<x>>, y) \in Seq(Statuses) /\ <<x, y>> \in Seq(Statuses)
  OBVIOUS
<1>2. Len(Append(<<x>>, y)) = 2 /\ Append(<<x>>, y)[1] = x /\ Append(<<x>>, y)[2] = y
  OBVIOUS
<1>3. Len(<<x, y>>) = 2 /\ <<x, y>>[1] = x /\ <<x, y>>[2] = y
  OBVIOUS
<1>4. \A i \in 1..2 : i = 1 \/ i = 2
  OBVIOUS
<1>5. QED
  BY <1>1, <1>2, <1>3, <1>4, SeqEqual

\* What a stream may have been sent by the time its task has a status, and what
\* it may then be sent next.
LEMMA SentGrows ==
    /\ \A s : <<>> \in Sent(s)
    /\ Sent(Null) = {<<>>} /\ Sent("QUEUED") = {<<>>}
    /\ Sent("STARTED") \subseteq Sent("FINISHED")
    /\ \A x \in Sent("QUEUED") : Append(x, "STARTED") \in Sent("STARTED")
    /\ \A x \in Sent("STARTED") : Append(x, "FINISHED") \in Sent("FINISHED")
<1>1. Append(<<>>, "STARTED") = <<"STARTED">> /\ Append(<<>>, "FINISHED") = <<"FINISHED">>
  OBVIOUS
<1>2. Append(<<"STARTED">>, "FINISHED") = <<"STARTED", "FINISHED">>
  BY TwoEvents DEF Statuses
<1>3. Null # "STARTED" /\ Null # "FINISHED"
  BY NullAssumption DEF Statuses
<1>4. QED
  BY <1>1, <1>2, <1>3 DEF Sent

LEMMA StreamsStep ==
    ASSUME TypeOK, OrderParts, SubscriptionIsWatched, StreamsInStep, [Next]_vars, restarts' = 0
    PROVE  StreamsInStep'
<1>1. ~FrontendRestart /\ \A t \in TaskIds : ~RegisterUnknown(t)
  BY FirstLife DEF FrontendRestart, RegisterUnknown, NewInstance, TypeOK, TaskStorageTypeOK
<1>2. ASSUME NEW s \in Numbers, CreateTask(s)
      PROVE  StreamsInStep'
  <2>1. id + 1 \in TaskIds /\ statuses[id + 1] = Null
    BY <1>2, ConstantsAssumption
    DEF CreateTask, QueueNewMessage, TypeOK, TaskStorageTypeOK, TaskIds, OrderParts,
        StatusInStep
  <2>2. /\ UNCHANGED <<watching, events>>
        /\ statuses' = [statuses EXCEPT ![id + 1] = "QUEUED"]
    BY <1>2 DEF CreateTask, QueueNewMessage, streamVars
  <2>3. ASSUME NEW t \in TaskIds
        PROVE  Sent(statuses[t]) = Sent(statuses'[t])
    BY <2>1, <2>2, SentGrows DEF TypeOK, TaskStorageTypeOK
  <2>4. QED
    BY <2>2, <2>3 DEF StreamsInStep, TypeOK, TaskStorageTypeOK
<1>3. ASSUME NEW t \in TaskIds, NEW b \in Streams, Watch(t, b)
      PROVE  StreamsInStep'
  <2>1. /\ watching[b] = Null /\ watching' = [watching EXCEPT ![b] = t]
        /\ statuses[t] # Null /\ UNCHANGED statuses
        /\ Broadcast(IF statuses[t] = "QUEUED" THEN Null ELSE b, statuses[t])
        /\ t # Null
    BY <1>1, <1>3, NullAssumption DEF Watch, RegisterNewSSESubscription, RegisterKnown
  <2>2. events[b] = <<>>
    BY <2>1 DEF StreamsInStep
  <2>3. \A c \in Streams : c # b => events'[c] = events[c] /\ watching'[c] = watching[c]
    BY <2>1 DEF Broadcast, TypeOK, TaskStorageTypeOK
  <2>4. events'[b] \in Sent(statuses[t])
    <3>1. CASE statuses[t] = "QUEUED"
      BY <2>1, <2>2, <3>1, SentGrows DEF Broadcast
    <3>2. CASE statuses[t] \in {"STARTED", "FINISHED"}
      <4>1. events'[b] = Append(<<>>, statuses[t])
        BY <2>1, <2>2, <3>2, NullAssumption DEF Broadcast, TypeOK, TaskStorageTypeOK
      <4>2. QED
        BY <3>2, <4>1, SentGrows
    <3>3. QED
      BY <2>1, <3>1, <3>2 DEF TypeOK, TaskStorageTypeOK, Statuses
  <2>5. watching'[b] = t
    BY <2>1 DEF TypeOK, TaskStorageTypeOK
  <2>6. QED
    BY <2>1, <2>3, <2>4, <2>5 DEF StreamsInStep
<1>4. ASSUME NEW w \in Workers, TaskStorageReceives(w)
      PROVE  StreamsInStep'
  <2>1. PICK m : m = Head(mail["taskStorage"][w])
    OBVIOUS
  <2>2. PICK t0 : t0 = m.taskId
    OBVIOUS
  <2>3. PICK b : b = subscriptions[t0]
    OBVIOUS
  <2>4. PICK new : new = StatusOf(m)
    OBVIOUS
  <2>5. /\ t0 \in TaskIds
        /\ statuses' = [statuses EXCEPT ![t0] = new]
        /\ \/ statuses[t0] = "QUEUED" /\ new = "STARTED"
           \/ statuses[t0] \in {"QUEUED", "STARTED"} /\ new = "FINISHED"
    BY <1>4, <2>1, <2>2, <2>4, ReceivedInOrder, EventFields
  <2>6. UNCHANGED watching /\ Broadcast(b, new)
    BY <1>4, <2>1, <2>2, <2>3, <2>4
    DEF TaskStorageReceives, ReceiveStateChange, RecordStateChange
  <2>7. \A x \in Sent(statuses[t0]) : x \in Sent(new) /\ Append(x, new) \in Sent(new)
    <3>1. Sent("QUEUED") \subseteq Sent("STARTED")
      BY SentGrows
    <3>2. QED
      BY <2>5, <3>1, SentGrows
  <2>8. b # Null => b \in Streams /\ watching[b] = t0
    BY <2>3, <2>5 DEF SubscriptionIsWatched, TypeOK, TaskStorageTypeOK
  <2>9. ASSUME NEW c \in Streams, watching[c] # Null
        PROVE  events'[c] \in Sent(statuses'[watching[c]])
    <3>1. watching[c] \in TaskIds /\ events[c] \in Sent(statuses[watching[c]])
      BY <2>9 DEF StreamsInStep, TypeOK, TaskStorageTypeOK
    <3>2. events'[c] = events[c] \/ (c = b /\ events'[c] = Append(events[c], new))
      BY <2>6 DEF Broadcast, TypeOK, TaskStorageTypeOK
    <3>3. statuses'[watching[c]] = IF watching[c] = t0 THEN new ELSE statuses[watching[c]]
      BY <2>5, <3>1 DEF TypeOK, TaskStorageTypeOK
    <3>4. c = b => watching[c] = t0
      BY <2>8, <2>9, NullAssumption
    <3>5. QED
      BY <2>7, <3>1, <3>2, <3>3, <3>4
  <2>10. ASSUME NEW c \in Streams, watching[c] = Null
         PROVE  events'[c] = <<>>
    <3>1. c # b
      BY <2>5, <2>8, <2>10, NullAssumption
    <3>2. QED
      BY <2>6, <2>10, <3>1 DEF Broadcast, StreamsInStep, TypeOK, TaskStorageTypeOK
  <2>11. QED
    BY <2>6, <2>9, <2>10 DEF StreamsInStep
<1>5. CASE UNCHANGED <<watching, events, statuses>>
  BY <1>5 DEF StreamsInStep
<1>6. QED
  BY <1>1, <1>2, <1>3, <1>4, <1>5
  DEF Next, vars, taskStorageVars, streamVars, ResultStorageReceives, StorageSubscribes,
      PoolChanges, ProxyForwards, WorkerBegins, WorkerEnds

-----------------------------------------------------------------------------
(* The theorems.                                                           *)

\* OrderInv, the inductive invariant of the orders, for all values of the
\* constants: every task is in one place, its events are on the way in their
\* order, and its streams know no more than has happened.
THEOREM OrderInductive == Spec => []OrderInv
<1>1. Init => OrderInv
  BY TypeInit, StallInit, NumbersInit, SubscriberInit, FirstLifeInit, OrderInit
  DEF OrderInv, IInv
<1>2. OrderInv /\ [Next]_vars => OrderInv'
  <2> SUFFICES ASSUME OrderInv, [Next]_vars
               PROVE  OrderInv'
    OBVIOUS
  <2>1. IInv'
    BY TypeStep, StallStep, NumbersStep, SubscriberStep, FirstLifeStep DEF OrderInv, IInv
  <2>2. ASSUME restarts' = 0
        PROVE  OrderParts' /\ StreamsInStep'
    <3>1. TypeOK /\ OrderParts /\ StreamsInStep /\ SubscriptionIsWatched
      BY <2>2, FirstLife DEF OrderInv, IInv, InOrder, OrderParts
    <3>2. QED
      BY <2>2, <3>1, OrderStep, StreamsStep
  <2>3. InOrder'
    BY <2>2 DEF InOrder, OrderParts
  <2>4. QED
    BY <2>1, <2>3 DEF OrderInv
<1>3. QED
  BY <1>1, <1>2, PTL DEF Spec

\* In every life TaskStorage answers with status and number for the ids it has
\* given out, and with a number for no other; in its first, it has a status for no
\* other, either, and clients were told just these.
THEOREM ToldTasksAreKnown == Spec => []ToldIsKnown
<1>1. OrderInv => ToldIsKnown
  <2> SUFFICES ASSUME OrderInv, NEW t \in TaskIds
               PROVE  /\ t \in 1..id <=> TaskStatus(t).number # Null
                      /\ t \in 1..id => TaskStatus(t).status # Null
                      /\ restarts = 0 =>
                            /\ t \in told <=> t \in 1..id
                            /\ TaskStatus(t).status # Null => t \in 1..id
    BY DEF ToldIsKnown
  <2>1. /\ tasks[t] # Null <=> t \in 1..id
        /\ t \in 1..id => statuses[t] # Null
    BY DEF OrderInv, IInv, IdsAreNumbered
  <2>2. /\ TaskStatus(t).status = statuses[t]
        /\ TaskStatus(t).number = IF statuses[t] = Null THEN Null ELSE tasks[t]
    BY DEF TaskStatus, NotFound
  <2>3. ASSUME restarts = 0
        PROVE  /\ told = 1..id
               /\ statuses[t] # Null => t \in 1..id
    BY <2>3 DEF OrderInv, IInv, FirstLifeInv, TasksAreKnown, InOrder, StatusInStep
  <2>4. QED
    BY <2>1, <2>2, <2>3
<1>2. QED
  BY <1>1, OrderInductive, PTL

\* While TaskStorage is in its first life, a stream is sent each status of its
\* task at most once, and STARTED before FINISHED.
THEOREM StreamsAreOrdered == Spec => []StreamOrdered
<1>1. OrderInv => StreamOrdered
  BY DEF OrderInv, InOrder, StreamsInStep, StreamOrdered, Sent
<1>2. QED
  BY <1>1, OrderInductive, PTL

\* While TaskStorage is in its first life, the status of a task moves from
\* QUEUED to STARTED to FINISHED and never back.
THEOREM StatusesNeverRegress == Spec => StatusNeverRegresses
<1>1. OrderInv /\ [Next]_vars =>
        [restarts' = 0 => \A t \in TaskIds : Rank[statuses[t]] <= Rank[statuses'[t]]]_vars
  <2> SUFFICES ASSUME OrderInv, [Next]_vars, restarts' = 0, NEW t \in TaskIds
               PROVE  Rank[statuses[t]] <= Rank[statuses'[t]]
    OBVIOUS
  <2>1. TypeOK /\ OrderParts
    BY FirstLife DEF OrderInv, IInv, InOrder, OrderParts
  <2>2. ~FrontendRestart /\ \A u \in TaskIds : ~RegisterUnknown(u)
    BY <2>1, FirstLife
    DEF FrontendRestart, RegisterUnknown, NewInstance, TypeOK, TaskStorageTypeOK
  <2>3. statuses[t] \in Statuses \cup {Null}
    BY <2>1 DEF TypeOK, TaskStorageTypeOK
  <2>4. Rank[Null] = 0 /\ Rank["QUEUED"] = 1 /\ Rank["STARTED"] = 2 /\ Rank["FINISHED"] = 3
    BY NullAssumption DEF Rank, Statuses
  <2>5. CASE statuses'[t] = statuses[t]
    BY <2>3, <2>4, <2>5 DEF Statuses
  <2>6. ASSUME NEW s \in Numbers, CreateTask(s)
        PROVE  statuses'[t] = statuses[t] \/ (statuses[t] = Null /\ statuses'[t] = "QUEUED")
    BY <2>1, <2>6, ConstantsAssumption
    DEF CreateTask, QueueNewMessage, TypeOK, TaskStorageTypeOK, TaskIds, OrderParts,
        StatusInStep
  <2>7. ASSUME NEW w \in Workers, TaskStorageReceives(w)
        PROVE  \/ statuses'[t] = statuses[t]
               \/ statuses[t] = "QUEUED" /\ statuses'[t] = "STARTED"
               \/ statuses[t] \in {"QUEUED", "STARTED"} /\ statuses'[t] = "FINISHED"
    <3>1. PICK m : m = Head(mail["taskStorage"][w])
      OBVIOUS
    <3>2. QED
      BY <2>1, <2>7, <3>1, ReceivedInOrder, EventFields DEF TypeOK, TaskStorageTypeOK
  <2>8. QED
    BY <2>2, <2>4, <2>5, <2>6, <2>7
    DEF Next, vars, taskStorageVars, Watch, RegisterNewSSESubscription, RegisterKnown,
        ResultStorageReceives, StorageSubscribes, PoolChanges, ProxyForwards, WorkerBegins,
        WorkerEnds
<1>2. QED
  BY <1>1, OrderInductive, PTL DEF Spec, StatusNeverRegresses

\* PrimeTester implements TaskLedger: to those who talk to the frontend, tasks
\* are numbered without gaps, move forward and get their numbers' results as if
\* there were no actors, channels and routees.
THEOREM ImplementsLedger == Spec => KeepsLedger
<1>1. Init => Ledger!LedgerInit
  BY DEF Init, TaskStorageInit, ResultStorageInit, NoEntry, HasResult,
         Ledger!LedgerInit, Ledger!NoTask
<1>2. OrderInv /\ [Next]_vars => [Ledger!LedgerNext]_(Ledger!ledgerVars)
  <2> SUFFICES ASSUME OrderInv, [Next]_vars
               PROVE  [Ledger!LedgerNext]_(Ledger!ledgerVars)
    OBVIOUS
  <2> DEFINE Known == {s \in Numbers : HasResult(s)}
  <2>1. /\ TypeOK
        /\ restarts = 0 => OrderParts /\ FinishesMatch
    BY DEF OrderInv, IInv, InOrder, OrderParts, FirstLifeInv
  <2>2. ASSUME NEW s \in Numbers, CreateTask(s)
        PROVE  Ledger!Queue(s)
    <3>1. id + 1 \in TaskIds
      BY <2>1, <2>2, ConstantsAssumption
      DEF CreateTask, QueueNewMessage, TypeOK, TaskStorageTypeOK, TaskIds
    <3>2. QED
      BY <2>2, <3>1 DEF CreateTask, QueueNewMessage, HasResult, Ledger!Queue
  <2>3. ASSUME NEW t \in TaskIds, NEW b \in Streams, Watch(t, b)
        PROVE  Ledger!Forget \/ UNCHANGED <<id, statuses, tasks, restarts, results>>
    <3>1. CASE RegisterUnknown(t)
      BY <2>3, <3>1 DEF Watch, RegisterUnknown, NewInstance, NoEntry, HasResult,
                        Ledger!Forget, Ledger!NoTask
    <3>2. CASE RegisterKnown(t, b)
      BY <2>3, <3>2 DEF Watch, RegisterKnown
    <3>3. QED
      BY <2>3, <3>1, <3>2 DEF Watch, RegisterNewSSESubscription
  <2>4. ASSUME NEW w \in Workers, TaskStorageReceives(w)
        PROVE  \E t \in TaskIds : Ledger!Start(t) \/ Ledger!Finish(t)
    <3>1. PICK m : m = Head(mail["taskStorage"][w])
      OBVIOUS
    <3>2. /\ UNCHANGED <<id, tasks, restarts, results>>
          /\ statuses' = [statuses EXCEPT ![m.taskId] = StatusOf(m)]
          /\ mail["taskStorage"][w] # <<>> /\ mail["taskStorage"][w] \in Seq(Events)
      BY <2>1, <2>4, <3>1
      DEF TaskStorageReceives, ReceiveStateChange, RecordStateChange, Receive,
          TypeOK, ChannelTypeOK, Storages
    <3>3. m \in Events /\ m.taskId \in TaskIds
          /\ m.class \in {"CalculationStarted", "CalculationFinished"}
      BY <3>1, <3>2, TailOfChannel, EventFields
    <3>4. restarts = 0 =>
            /\ m.class = "CalculationStarted" => statuses[m.taskId] = "QUEUED"
            /\ m.class = "CalculationFinished" => statuses[m.taskId] \in {"QUEUED", "STARTED"}
      BY <2>1, <2>4, <3>1, ReceivedInOrder
    <3>5. CASE m.class = "CalculationStarted"
      BY <3>2, <3>3, <3>4, <3>5 DEF StatusOf, HasResult, Ledger!Start
    <3>6. CASE m.class = "CalculationFinished"
      BY <3>2, <3>3, <3>4, <3>6 DEF StatusOf, HasResult, Ledger!Finish
    <3>7. QED
      BY <3>3, <3>5, <3>6
  <2>5. ASSUME NEW w \in Workers, ResultStorageReceives(w)
        PROVE  \/ \E s \in Numbers : Ledger!Record(s)
               \/ UNCHANGED <<id, statuses, tasks, restarts, results>>
    <3>1. PICK m : m = Head(mail["resultStorage"][w])
      OBVIOUS
    <3>2. /\ UNCHANGED <<id, statuses, tasks, restarts>>
          /\ IF m.class = "CalculationFinished" THEN StoreResult(m) ELSE UNCHANGED results
          /\ mail["resultStorage"][w] # <<>> /\ mail["resultStorage"][w] \in Seq(Events)
      BY <2>1, <2>5, <3>1
      DEF ResultStorageReceives, ReceiveResult, Receive, taskStorageVars,
          TypeOK, ChannelTypeOK, Storages
    <3>3. /\ m = mail["resultStorage"][w][1] /\ 1 \in DOMAIN mail["resultStorage"][w]
          /\ m \in Events
      BY <3>1, <3>2, TailOfChannel
    <3>4. CASE m.class = "CalculationFinished"
      <4>1. m.number \in Numbers /\ m.taskId \in TaskIds /\ m # Null
        BY <3>3, <3>4, EventFields, NullAssumption
      <4>2. restarts = 0 => \E t \in TaskIds : tasks[t] = m.number
        BY <2>1, <3>3, <3>4, <4>1 DEF FinishesMatch, Matches, Storages
      <4>3. Known' = Known \cup {m.number}
        BY <2>1, <3>2, <3>4, <4>1 DEF StoreResult, HasResult, TypeOK, ResultStorageTypeOK
      <4>4. Ledger!Record(m.number)
        BY <3>2, <4>2, <4>3 DEF Ledger!Record
      <4>5. QED
        BY <4>1, <4>4
    <3>5. CASE m.class # "CalculationFinished"
      BY <3>2, <3>5
    <3>6. QED
      BY <3>4, <3>5
  <2>6. ASSUME FrontendRestart
        PROVE  Ledger!Forget
    <3>1. Known' = {}
      BY <2>6 DEF FrontendRestart, HasResult
    <3>2. QED
      BY <2>6, <3>1 DEF FrontendRestart, NewInstance, NoEntry, Ledger!Forget, Ledger!NoTask
  <2>7. CASE UNCHANGED <<id, statuses, tasks, restarts, results>>
    BY <2>7 DEF HasResult, Ledger!ledgerVars
  <2>8. QED
    BY <2>2, <2>3, <2>4, <2>5, <2>6, <2>7
    DEF Next, vars, taskStorageVars, StorageSubscribes, PoolChanges, ProxyForwards,
        WorkerBegins, WorkerEnds, Ledger!LedgerNext
<1>3. QED
  BY <1>1, <1>2, OrderInductive, PTL DEF Spec, KeepsLedger, Ledger!Spec

-----------------------------------------------------------------------------
(* Arithmetic.                                                             *)

\* A product is divisible by its factors.
LEMMA ModMultiple ==
    ASSUME NEW d \in Nat, d > 0, NEW q \in Nat
    PROVE  (d * q) % d = 0
OBVIOUS

\* A number is the product of a divisor and the quotient.
LEMMA ExactQuotient ==
    ASSUME NEW a \in Nat, NEW d \in Nat, d > 0, Divides(d, a)
    PROVE  /\ a \div d \in Nat
           /\ a = d * (a \div d)
BY DEF Divides

\* Divisibility is transitive.
LEMMA DividesTransitive ==
    ASSUME NEW a \in Nat, NEW b \in Nat, NEW c \in Nat, b > 0, c > 0,
           Divides(c, b), Divides(b, a)
    PROVE  Divides(c, a)
<1> DEFINE x == b \div c
           y == a \div b
<1>1. x \in Nat /\ y \in Nat /\ b = c * x /\ a = b * y
  BY ExactQuotient
<1> HIDE DEF x, y
<1>2. a = c * (x * y) /\ x * y \in Nat
  BY <1>1
<1>3. QED
  BY <1>2, ModMultiple DEF Divides

\* Every nonempty set of naturals has a least element.
LEMMA LeastElement ==
    ASSUME NEW T, T \subseteq Nat, T # {}
    PROVE  \E m \in T : \A k \in T : ~(k < m)
<1>1. IsWellFoundedOn(OpToRel(<, Nat), Nat)
  BY NatLessThanWellFounded
<1>2. \E m \in T : \A k \in T : ~(<<k, m>> \in OpToRel(<, Nat))
  BY <1>1, WFMin
<1>3. QED
  BY <1>2 DEF OpToRel

-----------------------------------------------------------------------------
(* What the two loops of the code rest on.                                 *)

\* Going from a divider d to the next probable prime skips no divisor of a
\* number that nothing up to d divides, whether or not the result is prime:
\* nextProbablePrime skips composites only, and the least skipped divisor
\* would have a smaller divisor of the number below it.
LEMMA NoDivisorSkipped ==
    ASSUME NEW a \in Nat, NEW d \in Nat, d >= 2,
           \A e \in 2..d : ~Divides(e, a),
           NEW next \in NextProbablePrimes(d)
    PROVE  \A e \in 2..(next - 1) : ~Divides(e, a)
<1> DEFINE T == {k \in (d + 1)..(next - 1) : Divides(k, a)}
<1>1. /\ next \in Nat
      /\ \A k \in (d + 1)..(next - 1) : ~IsPrime(k)
  BY DEF NextProbablePrimes
<1>2. SUFFICES ASSUME T # {}
               PROVE  FALSE
  BY <1>1
<1>3. PICK m \in T : \A k \in T : ~(k < m)
  <2>1. T \subseteq Nat
    BY <1>1
  <2>2. QED
    BY <1>2, <2>1, LeastElement
<1>4. /\ m \in Nat /\ m > d /\ m <= next - 1
      /\ Divides(m, a)
      /\ ~IsPrime(m)
  BY <1>1, <1>3
<1>5. PICK c \in 2..(m - 1) : Divides(c, m)
  BY <1>4 DEF IsPrime
<1>6. c \in Nat /\ c >= 2 /\ c < m
  BY <1>4, <1>5
<1>7. Divides(c, a)
  BY <1>4, <1>5, <1>6, DividesTransitive
<1>8. CASE c <= d
  BY <1>6, <1>7, <1>8
<1>9. CASE c > d
  <2>1. c \in T
    BY <1>1, <1>4, <1>6, <1>7, <1>9
  <2>2. QED
    BY <2>1, <1>3, <1>6
<1>10. QED
  BY <1>6, <1>8, <1>9

\* If nothing up to r divides a number below (r + 1)^2, the number is prime.
LEMMA PrimeUpToRoot ==
    ASSUME NEW a \in Nat, a > 1, NEW r \in Nat,
           (r + 1) * (r + 1) > a,
           \A e \in 2..r : ~Divides(e, a)
    PROVE  IsPrime(a)
<1>1. SUFFICES ASSUME NEW d \in 2..(a - 1), Divides(d, a)
               PROVE  FALSE
  BY DEF IsPrime
<1> DEFINE q == a \div d
<1>2. d \in Nat /\ d >= 2 /\ d < a
  OBVIOUS
<1>3. q \in Nat /\ a = d * q
  BY <1>1, <1>2, ExactQuotient
<1> HIDE DEF q
<1>4. d >= r + 1
  BY <1>1, <1>2
<1>5. q >= 2
  <2>1. q # 0
    BY <1>2, <1>3
  <2>2. q # 1
    BY <1>2, <1>3
  <2>3. QED
    BY <1>3, <2>1, <2>2
<1>6. Divides(q, a)
  <2>1. a = q * d
    BY <1>2, <1>3
  <2>2. QED
    BY <2>1, <1>2, <1>3, <1>5, ModMultiple DEF Divides
<1>7. q >= r + 1
  BY <1>3, <1>5, <1>6
<1>8. d * q >= (r + 1) * (r + 1)
  <2>1. PICK u \in Nat : d = r + 1 + u
    <3>1. d - (r + 1) \in Nat /\ d = r + 1 + (d - (r + 1))
      BY <1>2, <1>4
    <3>2. QED
      BY <3>1
  <2>2. PICK v \in Nat : q = r + 1 + v
    <3>1. q - (r + 1) \in Nat /\ q = r + 1 + (q - (r + 1))
      BY <1>3, <1>7
    <3>2. QED
      BY <3>1
  <2>3. d * q = (r + 1) * (r + 1) + (r + 1) * v + u * (r + 1) + u * v
    BY <2>1, <2>2
  <2>4. (r + 1) * v \in Nat /\ u * (r + 1) \in Nat /\ u * v \in Nat
    BY <2>1, <2>2
  <2>5. (r + 1) * (r + 1) \in Nat
    OBVIOUS
  <2>6. QED
    BY <2>3, <2>4, <2>5
<1>9. QED
  BY <1>3, <1>8

\* The least divisor is the one the specification chooses.
LEMMA LeastDivisorUnique ==
    ASSUME NEW a \in Nat, NEW d \in 2..a, IsLeastDivisor(d, a)
    PROVE  LeastDivisor(a) = d
<1>1. ASSUME NEW c \in 2..a, IsLeastDivisor(c, a)
      PROVE  c = d
  BY <1>1 DEF IsLeastDivisor
<1>2. QED
  BY <1>1 DEF LeastDivisor

\* A divider the loop stops at is the verdict: it is the least divisor, and
\* it is not the number itself, because an approximate root as large as the
\* number is even and then 2 would have been found first.
LEMMA DividerIsVerdict ==
    ASSUME NEW a \in Nat, a > 2, NEW r \in Nat, r <= a, r % 2 = 0,
           NEW d \in Nat, d >= 2, d <= r, Divides(d, a),
           \A e \in 2..(d - 1) : ~Divides(e, a)
    PROVE  Verdict(a) = Composite(d)
<1>1. d < a
  <2>1. SUFFICES ASSUME d = a
                 PROVE  FALSE
    OBVIOUS
  <2>2. a % 2 = 0
    BY <2>1
  <2>3. 2 \in 2..(d - 1)
    BY <2>1
  <2>4. QED
    BY <2>2, <2>3 DEF Divides
<1>2. ~IsPrime(a)
  BY <1>1 DEF IsPrime
<1>3. LeastDivisor(a) = d
  BY <1>1, LeastDivisorUnique DEF IsLeastDivisor
<1>4. QED
  BY <1>2, <1>3 DEF Verdict

\* The numbers the code answers at once are 0, 1 and a prime.
LEMMA SmallVerdict ==
    ASSUME NEW a \in {0, 1, 2}
    PROVE  Verdict(a) = Prime
<1>1. IsPrime(2)
  BY DEF IsPrime
<1>2. QED
  BY <1>1 DEF Verdict

-----------------------------------------------------------------------------
(* The inductive invariant.                                                *)

\* The initial approximation n >> 1 covers the square root of n ...
LEMMA StartRootCovers ==
    ASSUME NEW a \in Nat, a > 2
    PROVE  /\ a \div 2 >= 1
           /\ 2 * (a \div 2) <= a
           /\ (2 * (a \div 2) + 1) * (2 * (a \div 2) + 1) > a
<1> DEFINE h == a \div 2
<1>1. h \in Nat /\ h >= 1 /\ 2 * h <= a /\ 2 * h + 1 >= a
  OBVIOUS
<1> HIDE DEF h
<1>2. (2 * h + 1) * (2 * h + 1) = 4 * (h * h) + 4 * h + 1
  BY <1>1
<1>3. h * h \in Nat
  BY <1>1
<1>4. QED
  BY <1>1, <1>2, <1>3 DEF h

\* ... and halving it keeps it so while its square exceeds n.
LEMMA HalveRootCovers ==
    ASSUME NEW a \in Nat, a > 2, NEW h \in Nat, h * h > a, 2 * h <= a
    PROVE  /\ h \div 2 >= 1
           /\ 2 * (h \div 2) <= a
           /\ (2 * (h \div 2) + 1) * (2 * (h \div 2) + 1) > a
<1> DEFINE k == h \div 2
<1>1. h >= 2
  <2>1. h # 0 /\ h # 1
    OBVIOUS
  <2>2. QED
    BY <2>1
<1>2. k \in Nat /\ k >= 1 /\ 2 * k <= h /\ 2 * k + 1 >= h
  BY <1>1
<1> HIDE DEF k
<1>3. (2 * k + 1) * (2 * k + 1) >= h * h
  <2>1. CASE h = 2 * k + 1
    BY <2>1, <1>2
  <2>2. CASE h = 2 * k
    <3>1. (2 * k + 1) * (2 * k + 1) = h * h + 4 * k + 1
      BY <2>2, <1>2
    <3>2. h * h \in Nat
      OBVIOUS
    <3>3. QED
      BY <3>1, <3>2, <1>2
  <2>3. QED
    BY <1>2, <2>1, <2>2
<1>4. h * h \in Nat /\ (2 * k + 1) * (2 * k + 1) \in Nat
  BY <1>2
<1>5. QED
  BY <1>2, <1>3, <1>4 DEF k

\* The locals of the calculation keep their types.
THEOREM CalculationTypeCorrect == CalculationSpec => []CalculationTypeOK
<1> USE InputsAssumption DEF CalculationTypeOK, Prime, Composite, NoDivider
<1>1. CalculationInit => CalculationTypeOK
  BY DEF CalculationInit
<1>2. CalculationTypeOK /\ [Calculate]_calculationVars => CalculationTypeOK'
  <2> SUFFICES ASSUME CalculationTypeOK, [Calculate]_calculationVars
               PROVE  CalculationTypeOK'
    OBVIOUS
  <2>0. n \in Nat
    OBVIOUS
  <2>1. CASE AnswerSmall
    BY <2>1 DEF AnswerSmall, Return
  <2>2. CASE StartRoot
    BY <2>0, <2>2 DEF StartRoot
  <2>3. CASE HalveRoot
    BY <2>3 DEF HalveRoot
  <2>4. CASE StartDividing
    BY <2>4 DEF StartDividing, RootFound
  <2>5. CASE Divide
    BY <2>5 DEF Divide, Return
  <2>6. CASE NextDivider
    BY <2>6 DEF NextDivider, NextProbablePrimes
  <2>7. CASE Exhausted
    BY <2>7 DEF Exhausted, Return
  <2>8. CASE UNCHANGED calculationVars
    BY <2>8 DEF calculationVars
  <2>9. QED
    BY <2>1, <2>2, <2>3, <2>4, <2>5, <2>6, <2>7, <2>8 DEF Calculate
<1>3. QED
  BY <1>1, <1>2, PTL DEF CalculationSpec

\* The approximate root covers the square root, no number below the divider
\* divides n, and the verdict returned is the right one.
THEOREM CalculationInductive == CalculationSpec => []CalculationInv
<1> USE InputsAssumption
<1>1. CalculationInit => CalculationInv
  BY DEF CalculationInit, CalculationInv, CalculationTypeOK, RootInv, DivideInv,
      VerdictCorrect, Prime, NoDivider
<1>2. CalculationInv /\ CalculationTypeOK' /\ [Calculate]_calculationVars => CalculationInv'
  <2> SUFFICES ASSUME CalculationInv, CalculationTypeOK', [Calculate]_calculationVars
               PROVE  RootInv' /\ DivideInv' /\ VerdictCorrect'
    BY DEF CalculationInv
  <2>0. /\ n \in Nat /\ half \in Nat /\ root \in Nat /\ divider \in Nat
        /\ RootInv /\ DivideInv /\ VerdictCorrect
    BY DEF CalculationInv, CalculationTypeOK
  <2> USE DEF RootInv, DivideInv, VerdictCorrect
  <2>1. CASE AnswerSmall
    BY <2>0, <2>1, SmallVerdict DEF AnswerSmall, Return
  <2>2. CASE StartRoot
    <3>1. n > 2
      BY <2>0, <2>2 DEF StartRoot
    <3>2. pc' = "root" /\ n' = n /\ half' = n \div 2
      BY <2>2 DEF StartRoot
    <3>3. QED
      BY <2>0, <3>1, <3>2, StartRootCovers
  <2>3. CASE HalveRoot
    <3>1. /\ pc = "root" /\ half * half > n
          /\ pc' = "root" /\ n' = n /\ half' = half \div 2
      BY <2>3 DEF HalveRoot
    <3>2. n > 2 /\ 2 * half <= n
      BY <2>0, <3>1
    <3>3. QED
      BY <2>0, <3>1, <3>2, HalveRootCovers
  <2>4. CASE StartDividing
    <3>1. /\ pc = "root" /\ pc' = "divide" /\ n' = n
          /\ root' = 2 * half /\ divider' = 2
      BY <2>4 DEF StartDividing, RootFound
    <3>2. n > 2 /\ 2 * half <= n /\ (2 * half + 1) * (2 * half + 1) > n
      BY <2>0, <3>1
    <3>3. (2 * half) % 2 = 0
      BY <2>0
    <3>4. QED
      BY <2>0, <3>1, <3>2, <3>3
  <2>5. CASE Divide
    <3>1. /\ pc = "divide" /\ pc' = "done" /\ n' = n
          /\ divider <= root /\ Divides(divider, n)
          /\ verdict' = Composite(divider)
      BY <2>5 DEF Divide, Return
    <3>2. Verdict(n) = Composite(divider)
      BY <2>0, <3>1, DividerIsVerdict
    <3>3. QED
      BY <3>1, <3>2
  <2>6. CASE NextDivider
    <3>1. /\ pc = "divide" /\ pc' = "divide" /\ n' = n /\ root' = root
          /\ ~Divides(divider, n)
          /\ divider' \in NextProbablePrimes(divider)
      BY <2>6 DEF NextDivider
    <3>2. divider' >= 2
      BY <2>0, <3>1 DEF NextProbablePrimes
    <3>3. \A e \in 2..divider : ~Divides(e, n)
      BY <2>0, <3>1
    <3>4. \A e \in 2..(divider' - 1) : ~Divides(e, n)
      BY <2>0, <3>1, <3>3, NoDivisorSkipped
    <3>5. QED
      BY <2>0, <3>1, <3>2, <3>4
  <2>7. CASE Exhausted
    <3>1. /\ pc = "divide" /\ pc' = "done" /\ n' = n
          /\ divider > root
          /\ verdict' = Prime
      BY <2>7 DEF Exhausted, Return
    <3>2. \A e \in 2..root : ~Divides(e, n)
      BY <2>0, <3>1
    <3>3. IsPrime(n)
      BY <2>0, <3>1, <3>2, PrimeUpToRoot
    <3>4. QED
      BY <3>1, <3>3 DEF Verdict
  <2>8. CASE UNCHANGED calculationVars
    BY <2>0, <2>8 DEF calculationVars
  <2>9. QED
    BY <2>1, <2>2, <2>3, <2>4, <2>5, <2>6, <2>7, <2>8 DEF Calculate
<1>3. QED
  BY <1>1, <1>2, CalculationTypeCorrect, PTL DEF CalculationSpec

\* Worker.checkIsPrime is correct for every natural number: 0, 1 and the
\* primes are reported prime, every other number composite with its smallest
\* divisor above 1.
THEOREM CalculationCorrect == CalculationSpec => []VerdictCorrect
<1>1. CalculationInv => VerdictCorrect
  BY DEF CalculationInv
<1>2. QED
  BY <1>1, CalculationInductive, PTL
=============================================================================
