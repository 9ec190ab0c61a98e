------------------------------ MODULE Protocol ------------------------------
(***************************************************************************)
(* The messages the actors of Prime Tester exchange and the channels that  *)
(* carry them.                                                             *)
(*                                                                         *)
(* Akka delivers a message at most once and in order between one sender    *)
(* and one receiver.  A channel is therefore a sequence per pair; a        *)
(* mailbox is the merge of the channels that end in it, so an actor takes  *)
(* the head of any of them.                                                *)
(***************************************************************************)
EXTENDS Naturals, Sequences, Primality

CONSTANTS
    Numbers,      \* the number strings clients submit
    Value,        \* Value[s] is new BigInteger(s)
    Workers,      \* the routee actors the router may ever create
    Streams,      \* the event streams clients may ever open
    StrayIds,     \* task ids clients ask for without having been given them
    MaxTasks,     \* bound: tasks one TaskStorage instance registers
    MaxFaults,    \* bound: worker crashes and messages the network loses
    MaxRestarts,  \* bound: restarts of the frontend process
    Null          \* Java's null

TaskIds == (1..MaxTasks) \cup StrayIds

\* TaskStorage.Status.
Statuses == {"QUEUED", "STARTED", "FINISHED"}

TaskIdAssigned(t, s) == [taskId |-> t, number |-> s]

CalculationStarted(t) == [class |-> "CalculationStarted", taskId |-> t]

\* isPrime and divider are the fields of the verdict.
CalculationFinished(t, s) ==
    [class |-> "CalculationFinished", taskId |-> t, number |-> s,
     verdict |-> Verdict(Value[s])]

Assignments == {TaskIdAssigned(t, s) : t \in TaskIds, s \in Numbers}
StartEvents == {CalculationStarted(t) : t \in TaskIds}
FinishEvents == {CalculationFinished(t, s) : t \in TaskIds, s \in Numbers}
Events == StartEvents \cup FinishEvents

\* The actors that subscribe to the topic "statusMessages".
Storages == {"taskStorage", "resultStorage"}

ASSUME ConstantsAssumption ==
    /\ Value \in [Numbers -> Nat]
    /\ StrayIds \subseteq Nat
    /\ MaxTasks \in Nat
    /\ MaxFaults \in Nat
    /\ MaxRestarts \in Nat

ASSUME NullAssumption ==
    /\ Null \notin Numbers
    /\ Null \notin Streams
    /\ Null \notin Statuses
    /\ Null \notin TaskIds
    /\ Null \notin Assignments
    /\ Null \notin FinishEvents

VARIABLES
    toProxy,    \* TaskStorage to ClusterProxy
    toWorker,   \* toWorker[w]: the router to routee w
    mail,       \* mail[s][w]: routee w, through the topic, to storage s
    told,       \* the task ids TaskStorage has answered to clients
    lost,       \* history: lost[s] are the tasks of which a message s needs
                \* was dropped on the way (dead letters, network, crash)
    faults      \* history: how many faults the environment has injected

channelVars == <<toProxy, toWorker, mail, told, lost, faults>>

ChannelInit ==
    /\ toProxy = <<>>
    /\ toWorker = [w \in Workers |-> <<>>]
    /\ mail = [s \in Storages |-> [w \in Workers |-> <<>>]]
    /\ told = {}
    /\ lost = [s \in Storages |-> {}]
    /\ faults = 0

\* The actor of storage s takes the next event of routee w from its mailbox.
Receive(s, w) ==
    /\ mail[s][w] # <<>>
    /\ mail' = [mail EXCEPT ![s][w] = Tail(@)]

\* The tasks T will never be finished: their assignment is dropped.
Drop(T) == lost' = [s \in Storages |-> lost[s] \cup T]

Fault ==
    /\ faults < MaxFaults
    /\ faults' = faults + 1

ChannelTypeOK ==
    /\ toProxy \in Seq(Assignments)
    /\ toWorker \in [Workers -> Seq(Assignments)]
    /\ mail \in [Storages -> [Workers -> Seq(Events)]]
    /\ told \subseteq TaskIds
    /\ lost \in [Storages -> SUBSET TaskIds]
    /\ faults \in Nat
=============================================================================
