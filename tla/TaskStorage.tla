---------------------------- MODULE TaskStorage ----------------------------
(***************************************************************************)
(* The TaskStorage actor: it numbers the tasks, tracks their status, and   *)
(* pushes status changes to the event stream registered for a task.  All   *)
(* its state is in memory.                                                 *)
(***************************************************************************)
EXTENDS Protocol

VARIABLES
    id,             \* the AtomicLong
    statuses,       \* HashMap<Long, Status>; Null where there is no entry
    tasks,          \* HashMap<Long, String>
    subscriptions,  \* Map<Long, SseBroadcaster>
    watching,       \* watching[b]: the task event stream b was opened for
    events,         \* events[b]: the status events sent to stream b
    restarts        \* history: how often the instance was replaced

streamVars == <<watching, events>>
taskStorageVars == <<id, statuses, tasks, subscriptions, watching, events, restarts>>

NoEntry == [t \in TaskIds |-> Null]

TaskStorageInit ==
    /\ id = 0
    /\ statuses = NoEntry
    /\ tasks = NoEntry
    /\ subscriptions = NoEntry
    /\ watching = [b \in Streams |-> Null]
    /\ events = [b \in Streams |-> <<>>]
    /\ restarts = 0

\* (Mutant: the statuses survive, the tasks in flight do not.)
NewInstanceWithStatuses ==
    /\ id' = 0
    /\ tasks' = NoEntry
    /\ subscriptions' = NoEntry
    /\ restarts' = restarts + 1
    /\ UNCHANGED statuses

\* (Mutant: the numbers survive.)
NewInstanceWithNumbers ==
    /\ id' = 0
    /\ statuses' = NoEntry
    /\ subscriptions' = NoEntry
    /\ restarts' = restarts + 1
    /\ UNCHANGED tasks

\* A new instance, with empty maps and the counter at 0, takes over.  After a
\* failure its preStart subscribes the same actor again, which changes nothing.
NewInstance ==
    /\ id' = 0
    /\ statuses' = NoEntry
    /\ tasks' = NoEntry
    /\ subscriptions' = NoEntry
    /\ restarts' = restarts + 1

\* A map whose one broadcaster is null has nobody to broadcast to.
Broadcast(b, status) ==
    events' = IF b = Null
              THEN events
              ELSE [events EXCEPT ![b] = Append(@, status)]

\* (Mutant: the number is not recorded.)
QueueWithoutNumber(s) ==
    LET taskId == id + 1 IN
    /\ id < MaxTasks
    /\ id' = taskId
    /\ statuses' = [statuses EXCEPT ![taskId] = "QUEUED"]
    /\ toProxy' = Append(toProxy, TaskIdAssigned(taskId, s))
    /\ told' = told \cup {taskId}
    /\ UNCHANGED <<tasks, subscriptions, streamVars, restarts>>

\* NewNumberCalculationMessage.
QueueNewMessage(s) ==
    LET taskId == id + 1 IN
    /\ id < MaxTasks
    /\ id' = taskId
    /\ tasks' = [tasks EXCEPT ![taskId] = s]
    /\ statuses' = [statuses EXCEPT ![taskId] = "QUEUED"]
    /\ toProxy' = Append(toProxy, TaskIdAssigned(taskId, s))
    /\ told' = told \cup {taskId}
    /\ UNCHANGED <<subscriptions, streamVars, restarts>>

RecordStateChange(t, status) ==
    /\ statuses' = [statuses EXCEPT ![t] = status]
    /\ Broadcast(subscriptions[t], status)
    /\ UNCHANGED <<id, tasks, subscriptions, watching, restarts>>

\* (Mutant: the two kinds are swapped.)
StatusSwapped(m) == IF m.class = "CalculationStarted" THEN "FINISHED" ELSE "STARTED"

\* CalculationStarted or CalculationFinished, by the class of the message.
StatusOf(m) == IF m.class = "CalculationStarted" THEN "STARTED" ELSE "FINISHED"

ReceiveStateChange(w) ==
    /\ Receive("taskStorage", w)
    /\ LET m == Head(mail["taskStorage"][w])
       IN RecordStateChange(m.taskId, StatusOf(m))

\* (Mutants: the stream is not told the current status; it is told QUEUED too.)
RegisterSilently(t, b) ==
    /\ statuses[t] # Null
    /\ subscriptions' = [subscriptions EXCEPT ![t] = b]
    /\ UNCHANGED <<id, statuses, tasks, restarts, events>>

RegisterAndTell(t, b) ==
    /\ statuses[t] # Null
    /\ subscriptions' = [subscriptions EXCEPT ![t] = b]
    /\ Broadcast(b, statuses[t])
    /\ UNCHANGED <<id, statuses, tasks, restarts>>

\* RegisterForNotifications: the stream replaces the one registered before and
\* is told the current status unless it is QUEUED.
RegisterKnown(t, b) ==
    /\ statuses[t] # Null
    /\ subscriptions' = [subscriptions EXCEPT ![t] = b]
    /\ Broadcast(IF statuses[t] = "QUEUED" THEN Null ELSE b, statuses[t])
    /\ UNCHANGED <<id, statuses, tasks, restarts>>

\* A task without a status: null is not QUEUED, so broadcast runs and
\* status.toString() throws; the supervisor restarts the actor.
RegisterUnknown(t) ==
    /\ statuses[t] = Null
    /\ NewInstance
    /\ UNCHANGED events

RegisterNewSSESubscription(t, b) ==
    /\ watching[b] = Null
    /\ watching' = [watching EXCEPT ![b] = t]
    /\ RegisterKnown(t, b) \/ RegisterUnknown(t)

\* GetTaskStatusMessage: the reply.  NOT_FOUND has an id no task gets, and
\* neither number nor status.
NotFound == [taskId |-> 0, number |-> Null, status |-> Null]

TaskStatus(t) ==
    IF statuses[t] = Null
    THEN NotFound
    ELSE [taskId |-> t, number |-> tasks[t], status |-> statuses[t]]

TaskStorageTypeOK ==
    /\ id \in 0..MaxTasks
    /\ statuses \in [TaskIds -> Statuses \cup {Null}]
    /\ tasks \in [TaskIds -> Numbers \cup {Null}]
    /\ subscriptions \in [TaskIds -> Streams \cup {Null}]
    /\ watching \in [Streams -> TaskIds \cup {Null}]
    /\ events \in [Streams -> Seq(Statuses)]
    /\ restarts \in Nat
=============================================================================
