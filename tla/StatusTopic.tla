---------------------------- MODULE StatusTopic ----------------------------
(***************************************************************************)
(* The distributed publish-subscribe topic "statusMessages", as TaskStorage,*)
(* ResultStorage and Worker use it: the storages subscribe when they start,*)
(* and an event a routee publishes goes to those subscribed at the time.   *)
(***************************************************************************)
EXTENDS Protocol

VARIABLE subscribers    \* the storages whose Subscribe the topic has seen

StatusTopicInit == subscribers = {}

\* preStart of a storage, and the SubscribeAck it logs.
Subscribe(s) ==
    /\ s \notin subscribers
    /\ subscribers' = subscribers \cup {s}

\* Event e of routee w goes to the storages in reached; a CalculationFinished
\* that a storage misses is not repeated.
Deliver(w, e, reached) ==
    /\ mail' = [s \in Storages |->
                  IF s \in reached
                  THEN [mail[s] EXCEPT ![w] = Append(@, e)]
                  ELSE mail[s]]
    /\ lost' = [s \in Storages |->
                  IF s \in reached \/ e.class = "CalculationStarted"
                  THEN lost[s]
                  ELSE lost[s] \cup {e.taskId}]

\* One message carries the event to the frontend's node, so it reaches all
\* subscribers or, when the network loses it, none.
Publish(w, e) ==
    \/ Deliver(w, e, subscribers) /\ UNCHANGED faults
    \/ Deliver(w, e, {}) /\ Fault

StatusTopicTypeOK == subscribers \subseteq Storages
=============================================================================
