---------------------------- MODULE PrimeTester ----------------------------
(***************************************************************************)
(* The actor system: the frontend's TaskStorage, ResultStorage and         *)
(* ClusterProxy, the Worker routees, and the clients that create tasks and *)
(* open event streams through the REST endpoints.                          *)
(***************************************************************************)
EXTENDS TaskStorage, ResultStorage, WorkerPool

vars == <<channelVars, taskStorageVars, results, subscribers, poolVars>>

Init ==
    /\ ChannelInit
    /\ TaskStorageInit
    /\ ResultStorageInit
    /\ StatusTopicInit
    /\ WorkerPoolInit

\* POST /tasks.
CreateTask(s) ==
    /\ QueueNewMessage(s)
    /\ UNCHANGED <<toWorker, mail, lost, faults>>
    /\ UNCHANGED <<results, subscribers, poolVars>>

\* GET /tasks/{id} as an event stream, for an id a client was told or made up.
Watch(t, b) ==
    /\ t \in told \cup StrayIds
    /\ RegisterNewSSESubscription(t, b)
    /\ UNCHANGED <<channelVars, results, subscribers, poolVars>>

TaskStorageReceives(w) ==
    /\ ReceiveStateChange(w)
    /\ UNCHANGED <<toProxy, toWorker, told, lost, faults>>
    /\ UNCHANGED <<results, subscribers, poolVars>>

ResultStorageReceives(w) ==
    /\ ReceiveResult(w)
    /\ UNCHANGED <<toProxy, toWorker, told, lost, faults>>
    /\ UNCHANGED <<taskStorageVars, subscribers, poolVars>>

StorageSubscribes(s) ==
    /\ Subscribe(s)
    /\ UNCHANGED <<channelVars, taskStorageVars, results, poolVars>>

PoolChanges(w) ==
    /\ AddRoutee(w) \/ RemoveRoutee(w) \/ StopRoutee(w) \/ CrashWorker(w)
    /\ UNCHANGED <<taskStorageVars, results, subscribers>>

ProxyForwards ==
    /\ \/ \E w \in Workers : Forward(w)
       \/ ForwardToDeadLetters
       \/ ForwardLost
    /\ UNCHANGED <<taskStorageVars, results, subscribers>>

WorkerBegins(w) ==
    /\ BeginCalculation(w)
    /\ UNCHANGED <<taskStorageVars, results, subscribers>>

WorkerEnds(w) ==
    /\ EndCalculation(w)
    /\ UNCHANGED <<taskStorageVars, results, subscribers>>

\* The frontend process dies and is started again: its actors lose their state
\* and their mailboxes, and a new router has yet to find its routees.  The
\* routees of the old one go on until their nodes stop them.
FrontendRestart ==
    /\ restarts < MaxRestarts
    /\ NewInstance
    /\ results' = [s \in Numbers |-> Null]
    /\ subscribers' = {}
    /\ routees' = {}
    /\ toProxy' = <<>>
    /\ mail' = [s \in Storages |-> [w \in Workers |-> <<>>]]
    /\ lost' = [s \in Storages |-> {}]
    /\ UNCHANGED <<toWorker, told, faults, node, running, streamVars>>

Next ==
    \/ \E s \in Numbers : CreateTask(s)
    \/ \E t \in TaskIds, b \in Streams : Watch(t, b)
    \/ \E w \in Workers : TaskStorageReceives(w)
    \/ \E w \in Workers : ResultStorageReceives(w)
    \/ \E s \in Storages : StorageSubscribes(s)
    \/ \E w \in Workers : PoolChanges(w)
    \/ ProxyForwards
    \/ \E w \in Workers : WorkerBegins(w)
    \/ \E w \in Workers : WorkerEnds(w)
    \/ FrontendRestart

Spec == Init /\ [][Next]_vars

\* An actor with a message in its mailbox is scheduled, a calculation ends
\* (TrialDivision!Termination), and a Subscribe is handled.  Clients, faults
\* and changes of the pool may never happen.
FairSpec ==
    /\ Spec
    /\ WF_vars(ProxyForwards)
    /\ \A s \in Storages : WF_vars(StorageSubscribes(s))
    /\ \A w \in Workers :
        /\ WF_vars(WorkerBegins(w))
        /\ WF_vars(WorkerEnds(w))
        /\ WF_vars(TaskStorageReceives(w))
        /\ WF_vars(ResultStorageReceives(w))
-----------------------------------------------------------------------------
TypeOK ==
    /\ ChannelTypeOK
    /\ TaskStorageTypeOK
    /\ ResultStorageTypeOK
    /\ StatusTopicTypeOK
    /\ WorkerPoolTypeOK

\* Where task t can still be on its way to the end.
RunsAt(t, w) == running[w] # Null /\ running[w].taskId = t

IsFinish(m, t) == m.class = "CalculationFinished" /\ m.taskId = t

FinishIsIn(t, channel) == \E i \in DOMAIN channel : IsFinish(channel[i], t)

Pending(t) ==
    \/ t \in Assigned(toProxy)
    \/ \E w \in Workers :
        \/ t \in Assigned(toWorker[w])
        \/ RunsAt(t, w)
        \/ FinishIsIn(t, mail["taskStorage"][w])

\* A task TaskStorage shows as QUEUED or STARTED is on its way, unless one of
\* its messages was dropped: nothing in the actors forgets a task, in any
\* interleaving, and after restarts too.
NoSilentStall ==
    \A t \in TaskIds :
        statuses[t] \in {"QUEUED", "STARTED"} => Pending(t) \/ t \in lost["taskStorage"]

\* GetStatusCallback redirects the client of a FINISHED task to the result of
\* its number.  As long as TaskStorage has not been restarted, that result is
\* stored, is in ResultStorage's mailbox, or was dropped before it got there.
ResultIsDue(t) ==
    \/ HasResult(tasks[t])
    \/ \E w \in Workers : FinishIsIn(t, mail["resultStorage"][w])
    \/ t \in lost["resultStorage"]

FinishedHasResult ==
    restarts = 0 =>
        \A t \in TaskIds : statuses[t] = "FINISHED" => ResultIsDue(t)

\* The event stream registered for a task has been told the task's status as
\* its last event, however registration and status changes interleave; it has
\* no event at all only while the task is queued.
SubscriberInformed ==
    \A t \in TaskIds, b \in Streams :
        /\ subscriptions[t] = b
        /\ statuses[t] \in {"STARTED", "FINISHED"}
        => events[b] # <<>> /\ events[b][Len(events[b])] = statuses[t]

\* As long as TaskStorage has not been restarted, a stream carries each status
\* at most once, STARTED before FINISHED.
StreamOrdered ==
    restarts = 0 =>
        \A b \in Streams :
            events[b] \in {<<>>, <<"STARTED">>, <<"FINISHED">>, <<"STARTED", "FINISHED">>}

\* An id the running TaskStorage has given out is answered with a status and the
\* number of its task, which GetStatusCallback puts into the redirect, whatever
\* events of an earlier life arrive about it.  Such an event can leave a status,
\* then answered without a number, only at an id not given out in this life: at
\* none before the first restart, when those given out are those clients know.
ToldIsKnown ==
    \A t \in TaskIds :
        /\ t \in 1..id <=> TaskStatus(t).number # Null
        /\ t \in 1..id => TaskStatus(t).status # Null
        /\ restarts = 0 =>
              /\ t \in told <=> t \in 1..id
              /\ TaskStatus(t).status # Null => t \in 1..id

-----------------------------------------------------------------------------
\* The inductive strengthening of the invariants.

\* A CalculationStarted in TaskStorage's mailbox moves a task to STARTED later:
\* until then the task is still at the worker, or its CalculationFinished is
\* behind the start in the same channel, or was dropped.
FinishFollows(t, w, i) ==
    \/ \E j \in DOMAIN mail["taskStorage"][w] :
        j > i /\ IsFinish(mail["taskStorage"][w][j], t)
    \/ RunsAt(t, w)
    \/ t \in lost["taskStorage"]

StartIsFollowed ==
    \A w \in Workers : \A i \in DOMAIN mail["taskStorage"][w] :
        LET m == mail["taskStorage"][w][i]
        IN m.class = "CalculationStarted" => FinishFollows(m.taskId, w, i)

\* A stream is registered for the task it was opened for, hence for one only.
SubscriptionIsWatched ==
    \A t \in TaskIds, b \in Streams : subscriptions[t] = b => watching[b] = t

\* In every life, the numbers are those of the ids given out in it, and these
\* have a status.
IdsAreNumbered ==
    /\ \A t \in TaskIds : tasks[t] # Null <=> t \in 1..id
    /\ \A t \in 1..id : statuses[t] # Null

\* Until the first restart, what travels about a task is about the task that
\* TaskStorage knows under that id ...
Matches(m) == m.taskId \in 1..id /\ m.number = tasks[m.taskId]

AssignmentsMatch ==
    /\ \A i \in DOMAIN toProxy : Matches(toProxy[i])
    /\ \A w \in Workers :
        /\ \A i \in DOMAIN toWorker[w] : Matches(toWorker[w][i])
        /\ running[w] # Null => Matches(running[w])

FinishesMatch ==
    \A s \in Storages, w \in Workers : \A i \in DOMAIN mail[s][w] :
        LET m == mail[s][w][i]
        IN m.class = "CalculationFinished" => Matches(m)

\* ... the ids handed out are those up to the counter, with their entries ...
TasksAreKnown ==
    /\ told = 1..id
    /\ \A t \in 1..id : statuses[t] # Null /\ tasks[t] # Null
    /\ \A t \in TaskIds : statuses[t] = "FINISHED" => t \in 1..id

\* ... and a task TaskStorage is about to learn to be FINISHED has a result.
FinishHasResult ==
    \A t \in TaskIds, w \in Workers :
        FinishIsIn(t, mail["taskStorage"][w]) => ResultIsDue(t)

FirstLifeInv ==
    restarts = 0 =>
        AssignmentsMatch /\ FinishesMatch /\ TasksAreKnown /\ FinishHasResult

\* Together they are inductive: nothing forgets a task, ids are numbered, and
\* streams and results follow what the routees publish.
IInv ==
    /\ TypeOK
    /\ NoSilentStall /\ StartIsFollowed
    /\ IdsAreNumbered
    /\ SubscriptionIsWatched /\ SubscriberInformed
    /\ FirstLifeInv /\ FinishedHasResult
-----------------------------------------------------------------------------
\* The inductive strengthening of the orders: until the first restart, a task
\* is in one place at a time, on its way from TaskStorage back to TaskStorage.

StartIsIn(t, channel) ==
    \E i \in DOMAIN channel :
        channel[i].class = "CalculationStarted" /\ channel[i].taskId = t

\* Where a task is once the router has chosen a routee for it.
Legs == {"queued", "running", "finished"}

IsOn(t, leg, w) ==
    \/ leg = "queued" /\ t \in Assigned(toWorker[w])
    \/ leg = "running" /\ RunsAt(t, w)
    \/ leg = "finished" /\ FinishIsIn(t, mail["taskStorage"][w])

Distinct(channel) ==
    \A i, j \in DOMAIN channel : i # j => channel[i].taskId # channel[j].taskId

\* Two events of one task in a channel are its start and, behind it, its finish.
StartsFirst(channel) ==
    \A i, j \in DOMAIN channel :
        i < j /\ channel[i].taskId = channel[j].taskId =>
            /\ channel[i].class = "CalculationStarted"
            /\ channel[j].class = "CalculationFinished"

ChannelsInOrder ==
    /\ Distinct(toProxy)
    /\ \A w \in Workers :
        Distinct(toWorker[w]) /\ StartsFirst(mail["taskStorage"][w])

OnePlace ==
    \A t \in TaskIds :
        /\ t \in Assigned(toProxy) =>
              \A leg \in Legs, w \in Workers : ~IsOn(t, leg, w)
        /\ \A leg1, leg2 \in Legs, w1, w2 \in Workers :
              IsOn(t, leg1, w1) /\ IsOn(t, leg2, w2) => leg1 = leg2 /\ w1 = w2

\* The start of a task is published where the task runs, and is received before
\* anything else moves the task.
StartIsAhead ==
    \A t \in TaskIds, w \in Workers :
        StartIsIn(t, mail["taskStorage"][w]) =>
            /\ statuses[t] = "QUEUED"
            /\ t \notin Assigned(toProxy)
            /\ \A v \in Workers :
                /\ t \notin Assigned(toWorker[v])
                /\ (RunsAt(t, v) \/ FinishIsIn(t, mail["taskStorage"][v])
                       \/ StartIsIn(t, mail["taskStorage"][v])) => v = w

StatusInStep ==
    \A t \in TaskIds :
        /\ statuses[t] # Null => t \in 1..id
        /\ t \in Assigned(toProxy) => statuses[t] = "QUEUED"
        /\ \A w \in Workers :
            /\ IsOn(t, "queued", w) => statuses[t] = "QUEUED"
            /\ IsOn(t, "running", w) \/ IsOn(t, "finished", w) =>
                  statuses[t] \in {"QUEUED", "STARTED"}

\* What a stream may have been sent by the time its task has status s.
Sent(s) ==
    CASE s = "FINISHED" -> {<<>>, <<"STARTED">>, <<"FINISHED">>, <<"STARTED", "FINISHED">>}
      [] s = "STARTED"  -> {<<>>, <<"STARTED">>}
      [] OTHER          -> {<<>>}

StreamsInStep ==
    \A b \in Streams :
        IF watching[b] = Null THEN events[b] = <<>> ELSE events[b] \in Sent(statuses[watching[b]])

InOrder ==
    restarts = 0 =>
        ChannelsInOrder /\ OnePlace /\ StartIsAhead /\ StatusInStep /\ StreamsInStep

\* With the orders they are inductive, too: however messages of different channels
\* overtake each other, those of one task do not.
OrderInv == IInv /\ InOrder
-----------------------------------------------------------------------------
Rank == [s \in Statuses \cup {Null} |->
            CASE s = "QUEUED" -> 1 [] s = "STARTED" -> 2
              [] s = "FINISHED" -> 3 [] OTHER -> 0]

\* The status of a task only moves forward, QUEUED, STARTED, FINISHED, until
\* TaskStorage is restarted, although the messages that move it come over
\* different channels.
StatusNeverRegresses ==
    [][restarts' = 0 => \A t \in TaskIds : Rank[statuses[t]] <= Rank[statuses'[t]]]_vars

\* What the clients of the frontend see of it.
Ledger == INSTANCE TaskLedger WITH
    counter <- id,
    status <- statuses,
    number <- tasks,
    verdicts <- {s \in Numbers : HasResult(s)},
    lives <- restarts

\* The frontend keeps the promises of TaskLedger: whatever the order in which
\* messages arrive at its two storages, tasks are numbered without gaps and move
\* forward, and results are only of numbers that were submitted.
KeepsLedger == Ledger!Spec

\* Every task a client created is finished in the end, unless one of its
\* messages was dropped or the frontend was restarted.
TaskFinishes ==
    \A t \in TaskIds :
        statuses[t] = "QUEUED" ~>
            statuses[t] = "FINISHED" \/ t \in lost["taskStorage"] \/ restarts > 0

\* A client redirected to the result of a FINISHED task can read it in the
\* end, although it may be sent there too early.
ResultArrives ==
    \A t \in TaskIds :
        statuses[t] = "FINISHED" /\ restarts = 0 ~>
            \/ tasks[t] # Null /\ HasResult(tasks[t])
            \/ t \in lost["resultStorage"]
            \/ restarts > 0

\* The stream registered for a task is told FINISHED in the end, unless another
\* stream takes its place, a message was dropped or TaskStorage was restarted.
StreamFinishes ==
    \A t \in TaskIds, b \in Streams :
        subscriptions[t] = b ~>
            \/ events[b] # <<>> /\ events[b][Len(events[b])] = "FINISHED"
            \/ subscriptions[t] # b
            \/ t \in lost["taskStorage"]
            \/ restarts > 0
=============================================================================
