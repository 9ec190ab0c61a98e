------------------------------ MODULE Deferred ------------------------------
(***************************************************************************)
(* jQuery.Deferred: three callback lists, of which the lists of the two    *)
(* outcomes begin with callbacks of their own that set the state, disable  *)
(* the list of the other outcome and lock the progress list.               *)
(*                                                                         *)
(* A handler may use the Deferred that is calling it.  A list it fires is  *)
(* called before the handler goes on, so the lists being called form a     *)
(* stack.                                                                  *)
(***************************************************************************)
EXTENDS CallbackList

CONSTANTS
    Functions,    \* the handlers callers add
    MaxUses       \* bound: calls of the methods of the Deferred

VARIABLES
    state,
    lists,      \* the lists of the tuples, by listener name
    running,    \* the lists being called, the innermost last
    calling,    \* whether the innermost list is in a handler
    uses,
    late,       \* history: the values of notify calls made after settling
    told,       \* history: the values progress handlers were called with
    thrown      \* history: a handler has thrown

vars == <<state, lists, running, calling, uses, late, told, thrown>>

\* The tuples.
ListNames == {"done", "fail", "progress"}
Other(n) == IF n = "done" THEN "fail" ELSE "done"

FinalState(n) == IF n = "done" THEN "resolved" ELSE "rejected"
OwnCallbacks == <<"setState", "disableOther", "lockProgress">>

Init ==
    /\ state = "pending"
    /\ lists = [n \in ListNames |->
                   IF n = "progress"
                   THEN NewList({"memory"})
                   ELSE Add(NewList({"once", "memory"}), OwnCallbacks)]
    /\ running = <<>>
    /\ calling = FALSE
    /\ uses = 0
    /\ late = {}
    /\ told = {}
    /\ thrown = FALSE

\* The code that holds the Deferred runs outside of it, and as a handler.
CallerRuns == running = <<>> \/ calling

\* A method has left list n as M; if it called fire, that loop comes first.
Use(n, M) ==
    /\ CallerRuns
    /\ uses < MaxUses
    /\ uses' = uses + 1
    /\ lists' = [lists EXCEPT ![n] = M]
    /\ IF M.firing /\ ~lists[n].firing
       THEN running' = Append(running, n) /\ calling' = FALSE
       ELSE UNCHANGED <<running, calling>>
    /\ UNCHANGED <<state, told, thrown>>

\* done, fail and progress: the add of the list.
On(n, h) == Use(n, Add(lists[n], <<h>>)) /\ UNCHANGED late

\* resolve, reject and notify: the fireWith of the list.  The value is the
\* number of the call.
Settle(n) == Use(n, FireWith(lists[n], uses + 1)) /\ UNCHANGED late

Notify ==
    /\ Use("progress", FireWith(lists["progress"], uses + 1))
    /\ late' = IF state = "pending" THEN late ELSE late \cup {uses + 1}

Top == Last(running)

Innermost(n) == running # <<>> /\ ~calling /\ n = Top

\* (Mutant: the list of the other outcome stays as it is.)
DisablesNothing(n, c) ==
    CASE c = "setState" -> state' = FinalState(n) /\ lists' = [lists EXCEPT ![n] = Advance(@)]
      [] c = "disableOther" -> lists' = [lists EXCEPT ![n] = Advance(@)] /\ UNCHANGED state
      [] c = "lockProgress" ->
            /\ lists' = [lists EXCEPT ![n] = Advance(@), !["progress"] = Lock(@)]
            /\ UNCHANGED state

\* What the own callback c of list n does.
RunOwn(n, c) ==
    CASE c = "setState" -> state' = FinalState(n) /\ lists' = [lists EXCEPT ![n] = Advance(@)]
      [] c = "disableOther" ->
            /\ lists' = [lists EXCEPT ![n] = Advance(@), ![Other(n)] = Disable(@)]
            /\ UNCHANGED state
      [] c = "lockProgress" ->
            /\ lists' = [lists EXCEPT ![n] = Advance(@), !["progress"] = Lock(@)]
            /\ UNCHANGED state

CallOwn(n) ==
    /\ Innermost(n)
    /\ MoreToCall(lists[n])
    /\ Callee(lists[n]) \notin Functions
    /\ RunOwn(n, Callee(lists[n]))
    /\ UNCHANGED <<running, calling, uses, late, told, thrown>>

CallHandler(n) ==
    /\ Innermost(n)
    /\ MoreToCall(lists[n])
    /\ Callee(lists[n]) \in Functions
    /\ calling' = TRUE
    /\ told' = IF n = "progress" THEN told \cup {lists[n].data} ELSE told
    /\ UNCHANGED <<state, lists, running, uses, late, thrown>>

\* The loop is over: the handler that fired the list, if any, goes on.
LeaveList(n) ==
    /\ Innermost(n)
    /\ ~MoreToCall(lists[n])
    /\ LET M == AfterLoop(lists[n]) IN
        /\ lists' = [lists EXCEPT ![n] = M]
        /\ IF M.firing
           THEN UNCHANGED <<running, calling>>
           ELSE running' = Front(running) /\ calling' = (Len(running) > 1)
    /\ UNCHANGED <<state, uses, late, told, thrown>>

HandlerReturns ==
    /\ calling
    /\ lists' = [lists EXCEPT ![Top] = Advance(@)]
    /\ calling' = FALSE
    /\ UNCHANGED <<state, running, uses, late, told, thrown>>

\* The exception unwinds every list being called; all stay marked as firing.
HandlerThrows ==
    /\ calling
    /\ calling' = FALSE
    /\ running' = <<>>
    /\ thrown' = TRUE
    /\ UNCHANGED <<state, lists, uses, late, told>>

Next ==
    \/ \E n \in ListNames, h \in Functions : On(n, h)
    \/ \E n \in {"done", "fail"} : Settle(n)
    \/ Notify
    \/ \E n \in ListNames : CallOwn(n) \/ CallHandler(n) \/ LeaveList(n)
    \/ HandlerReturns
    \/ HandlerThrows

Spec == Init /\ [][Next]_vars

\* JavaScript runs to completion: a loop goes on, and a handler comes back.
FairSpec ==
    /\ Spec
    /\ \A n \in ListNames : WF_vars(CallOwn(n) \/ CallHandler(n) \/ LeaveList(n))
    /\ WF_vars(HandlerReturns \/ HandlerThrows)
-----------------------------------------------------------------------------
\* The own callbacks stay in the lists of the outcomes, with handlers.
TypeOK ==
    /\ state \in {"pending", "resolved", "rejected"}
    /\ lists["progress"].list \in Seq(Functions)
    /\ \A n \in {"done", "fail"} :
           lists[n].list \in Seq(Functions \cup {OwnCallbacks[i] : i \in 1..3})
    /\ running \in Seq(ListNames)
    /\ calling \in BOOLEAN

\* No progress handler is called with a value that was notified after the
\* Deferred had settled, not even by a handler that runs while it settles.
NoLateProgress == told \cap late = {}

Handlers(s) == Subsequence(s, {i \in 1..Len(s) : s[i] \in Functions})

Unvisited(n) ==
    IF lists[n].firing
    THEN SubSeq(lists[n].list,
                lists[n].firingIndex + (IF Innermost(n) THEN 1 ELSE 2),
                lists[n].firingLength)
    ELSE lists[n].list

\* Once settled, the handlers of the outcome are all called in the end, those
\* added by handlers too, unless one of them throws.
HandlersRun ==
    \A n \in {"done", "fail"} :
        state = FinalState(n) ~> Handlers(Unvisited(n)) = <<>> \/ thrown

NameOf(s) == IF s = "resolved" THEN "done" ELSE "fail"

InHandler(n) == Contains(running, n) /\ ~Innermost(n)

P == INSTANCE Promise WITH
    owed <- [s \in {"resolved", "rejected"} |->
                IF state \in {"pending", s} THEN Handlers(Unvisited(NameOf(s))) ELSE <<>>],
    call <- IF \E s \in {"resolved", "rejected"} : InHandler(NameOf(s))
            THEN <<state, Callee(lists[NameOf(state)])>>
            ELSE None

\* The Deferred keeps the promise of Promise: it settles once, and calls the
\* handlers of that outcome, each once and in order, and no other.
KeepsPromise == P!Spec /\ [](TypeOK /\ NoLateProgress)
=============================================================================
