----------------------------- MODULE WorkerPool -----------------------------
(***************************************************************************)
(* ClusterProxy, the cluster-aware router pool it owns, and the Worker     *)
(* routees the pool creates on the worker nodes.  A routee handles one     *)
(* task at a time.  An element of Workers is one routee: a node that       *)
(* leaves and comes back gets a new one.                                   *)
(***************************************************************************)
EXTENDS StatusTopic

VARIABLES
    routees,    \* the routees the router chooses from
    node,       \* node[w]: "new", "up" or "dead"
    running     \* running[w]: the task routee w is calculating, or Null

poolVars == <<routees, node, running>>

WorkerPoolInit ==
    /\ routees = {}
    /\ node = [w \in Workers |-> "new"]
    /\ running = [w \in Workers |-> Null]

Assigned(channel) == {channel[i].taskId : i \in DOMAIN channel}

\* A worker node is up: the pool creates a routee on it.
AddRoutee(w) ==
    /\ node[w] = "new"
    /\ node' = [node EXCEPT ![w] = "up"]
    /\ routees' = routees \cup {w}
    /\ UNCHANGED <<channelVars, running>>

\* The node is unreachable or has left: the router stops choosing its routee.
\* A routee that is still alive goes on with what is in its mailbox.
RemoveRoutee(w) ==
    /\ w \in routees
    /\ routees' = routees \ {w}
    /\ UNCHANGED <<channelVars, node, running>>

\* A live node stops a routee whose router has gone or given it up, after the
\* task at hand; the tasks in the mailbox become dead letters.
StopRoutee(w) ==
    /\ node[w] = "up"
    /\ w \notin routees
    /\ node' = [node EXCEPT ![w] = "dead"]
    /\ toWorker' = [toWorker EXCEPT ![w] = <<>>]
    /\ Drop(Assigned(toWorker[w]))
    /\ UNCHANGED <<toProxy, mail, told, faults, routees, running>>

\* A node dies with the tasks of its routee.
CrashWorker(w) ==
    /\ node[w] = "up"
    /\ Fault
    /\ node' = [node EXCEPT ![w] = "dead"]
    /\ running' = [running EXCEPT ![w] = Null]
    /\ toWorker' = [toWorker EXCEPT ![w] = <<>>]
    /\ Drop(Assigned(toWorker[w])
            \cup (IF running[w] = Null THEN {} ELSE {running[w].taskId}))
    /\ UNCHANGED <<toProxy, mail, told, routees>>

\* ClusterProxy.forward: the router hands the message to one of its routees.
\* Nothing acknowledges it and nothing sends it again.
Forward(w) ==
    /\ toProxy # <<>>
    /\ w \in routees
    /\ node[w] = "up"
    /\ toProxy' = Tail(toProxy)
    /\ toWorker' = [toWorker EXCEPT ![w] = Append(@, Head(toProxy))]
    /\ UNCHANGED <<mail, told, lost, faults, poolVars>>

\* (Mutant: a router without routees keeps the message.)
ForwardToDeadNode ==
    /\ toProxy # <<>>
    /\ \E w \in routees : node[w] = "dead"
    /\ toProxy' = Tail(toProxy)
    /\ Drop({Head(toProxy).taskId})
    /\ UNCHANGED <<toWorker, mail, told, faults, poolVars>>

\* A router without routees, and one that picks a routee on a dead node it has
\* not removed yet, send to dead letters.
ForwardToDeadLetters ==
    /\ toProxy # <<>>
    /\ routees = {} \/ \E w \in routees : node[w] = "dead"
    /\ toProxy' = Tail(toProxy)
    /\ Drop({Head(toProxy).taskId})
    /\ UNCHANGED <<toWorker, mail, told, faults, poolVars>>

\* The connection to the routee's node loses the message.
ForwardLost ==
    /\ toProxy # <<>>
    /\ routees # {}
    /\ Fault
    /\ toProxy' = Tail(toProxy)
    /\ Drop({Head(toProxy).taskId})
    /\ UNCHANGED <<toWorker, mail, told, poolVars>>

\* Worker.calculate, up to the calculation ...
BeginCalculation(w) ==
    /\ node[w] = "up"
    /\ running[w] = Null
    /\ toWorker[w] # <<>>
    /\ toWorker' = [toWorker EXCEPT ![w] = Tail(@)]
    /\ running' = [running EXCEPT ![w] = Head(toWorker[w])]
    /\ Publish(w, CalculationStarted(Head(toWorker[w]).taskId))
    /\ UNCHANGED <<toProxy, told, routees, node>>

\* (Mutant: only primes are published.)
EndPrimeCalculation(w) ==
    /\ running[w] # Null
    /\ running' = [running EXCEPT ![w] = Null]
    /\ IF Verdict(Value[running[w].number]) = Prime
       THEN Publish(w, CalculationFinished(running[w].taskId, running[w].number))
       ELSE UNCHANGED <<mail, lost, faults>>
    /\ UNCHANGED <<toProxy, toWorker, told, routees, node>>

\* ... and from its result on.
EndCalculation(w) ==
    /\ running[w] # Null
    /\ running' = [running EXCEPT ![w] = Null]
    /\ Publish(w, CalculationFinished(running[w].taskId, running[w].number))
    /\ UNCHANGED <<toProxy, toWorker, told, routees, node>>

WorkerPoolTypeOK ==
    /\ routees \subseteq Workers
    /\ node \in [Workers -> {"new", "up", "dead"}]
    /\ running \in [Workers -> Assignments \cup {Null}]
=============================================================================
