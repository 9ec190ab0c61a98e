--------------------------------- MODULE Fx ---------------------------------
(***************************************************************************)
(* The fx queue of jQuery and the animations it runs: the queue of every   *)
(* element with its "inprogress" sentinel, the list jQuery.timers with the *)
(* interval that drives it, and stop, finish, delay and promise.           *)
(*                                                                         *)
(* What a call leads to is a sequence of jobs, done one after the other;   *)
(* a job that calls a function puts the jobs of that function in front.    *)
(* In the jobs "handler" and "always" the completion handlers of an        *)
(* animation run: they use the same operations, and one that throws leaves *)
(* undone what was still to be called.                                     *)
(***************************************************************************)
EXTENDS Integers, Sequences, FiniteSets, SequencesExt

CONSTANTS
    Elements,
    Items,         \* the animations and delays
    PageUses,      \* bound: what the page does; see Uses
    HandlerUses,   \* bound: what completion handlers do
    MaxTicks,      \* bound: the ticks an animation lasts after its first
    None

Uses == {"animate", "empty", "unqueued", "instant unqueued", "delay", "promise",
         "stop", "stop and clear", "clear", "finish", "throw"}

ASSUME FxAssumption ==
    /\ PageUses \subseteq Uses
    /\ HandlerUses \subseteq Uses
    /\ MaxTicks \in Nat
    /\ IsFiniteSet(Items)
    /\ {None, "inprogress"} \cap Items = {}
    /\ None \notin {"anim", "delay"}

VARIABLES
    item,       \* the animations and delays: see NoItem
    queue,      \* the fx queue of each element
    hooks,      \* its queueHooks: see NoHooks
    finishing,  \* the elements with the finish flag
    timers,     \* jQuery.timers
    interval,   \* timerId is set
    todo,       \* the jobs
    lost        \* history: the elements a handler that threw left a call of undone

vars == <<item, queue, hooks, finishing, timers, interval, todo, lost>>

\* instant: it has no duration, or no tween to run.
NoItem == [kind |-> None, elem |-> None, queued |-> TRUE, instant |-> FALSE,
           st |-> "new", stopped |-> FALSE, ticks |-> 0]

\* stop is the delay the stop function clears; waiting, that a promise waits
\* for the empty callbacks.
NoHooks == [present |-> FALSE, stop |-> None, unqueued |-> 0, waiting |-> FALSE]

Init ==
    /\ item = [i \in Items |-> NoItem]
    /\ queue = [e \in Elements |-> <<>>]
    /\ hooks = [e \in Elements |-> NoHooks]
    /\ finishing = {}
    /\ timers = <<>>
    /\ interval = FALSE
    /\ todo = <<>>
    /\ lost = {}

Idle == todo = <<>>
Job == Head(todo)
Doing(k) == ~Idle /\ Job[1] = k
Then(jobs) == todo' = jobs \o Tail(todo)

\* Code of the page runs outside of jobs, code of handlers in their job.
InHandler == Doing("handler") \/ Doing("always")

May(use) ==
    /\ Idle \/ InHandler
    /\ use \in (IF Idle THEN PageUses ELSE HandlerUses)

Call(jobs) == todo' = jobs \o todo

SentinelFirst(s) == s # <<>> /\ Head(s) = "inprogress"

\* Items are interchangeable: the next new one is any of the unused.
New(i) == i = CHOOSE x \in Items : item[x].kind = None

Unused == \E x \in Items : item[x].kind = None

\* An exception goes up through all calls: nothing of todo is done.
Throws ==
    /\ todo' = <<>>
    /\ lost' = lost \cup {e \in Elements : \E n \in DOMAIN todo : todo[n][2] = e}

-----------------------------------------------------------------------------
\* jQuery.fn.queue with an item: it waits, or starts at once.
Enqueue(e, i, x) ==
    /\ Unused /\ New(i)
    /\ item' = [item EXCEPT ![i] = x]
    /\ queue' = [queue EXCEPT ![e] = Append(@, i)]
    /\ hooks' = [hooks EXCEPT ![e].present = TRUE]
    /\ Call(IF SentinelFirst(queue[e]) THEN <<>> ELSE <<<<"dequeue", e>>>>)
    /\ UNCHANGED <<finishing, timers, interval, lost>>

Animate(e, i, instant) ==
    /\ May("animate")
    /\ Enqueue(e, i, [NoItem EXCEPT !.kind = "anim", !.elem = e, !.instant = instant,
                                    !.st = "waiting"])

Delay(e, i) ==
    /\ May("delay")
    /\ Enqueue(e, i, [NoItem EXCEPT !.kind = "delay", !.elem = e, !.st = "waiting"])

\* animate with no properties is not queued: it runs at once, beside whatever
\* runs, and yet opt.complete dequeues.
AnimateEmpty(e, i) ==
    /\ May("empty")
    /\ Unused /\ New(i)
    /\ item' = [item EXCEPT ![i] = [NoItem EXCEPT !.kind = "anim", !.elem = e, !.instant = TRUE,
                                                  !.st = "resolved", !.stopped = TRUE]]
    /\ Call(<<<<"handler", i>>, <<"dequeue", e>>, <<"always", i>>>>)
    /\ UNCHANGED <<queue, hooks, finishing, timers, interval, lost>>

\* animate with queue: false.
AnimateUnqueued(e, i, instant) ==
    /\ May(IF instant THEN "instant unqueued" ELSE "unqueued")
    /\ Unused /\ New(i)
    /\ item' = [item EXCEPT ![i] = [NoItem EXCEPT !.kind = "anim", !.elem = e, !.queued = FALSE,
                                                  !.instant = instant, !.st = "waiting"]]
    /\ Call(<<<<"start", i>>>>)
    /\ UNCHANGED <<queue, hooks, finishing, timers, interval, lost>>

\* promise: it waits for the empty callbacks if the element has hooks.
PromiseOf(e) ==
    /\ May("promise")
    /\ hooks[e].present
    /\ hooks' = [hooks EXCEPT ![e].waiting = TRUE]
    /\ UNCHANGED <<item, queue, finishing, timers, interval, todo, lost>>

\* clearQueue: the queue is replaced by an empty one, and dequeued.
ClearQueue(e) ==
    /\ May("clear")
    /\ queue' = [queue EXCEPT ![e] = <<>>]
    /\ hooks' = [hooks EXCEPT ![e].present = TRUE]
    /\ Call(<<<<"dequeue", e>>>>)
    /\ UNCHANGED <<item, finishing, timers, interval, lost>>

Stop(e, clear, gotoEnd) ==
    /\ May(IF clear THEN "stop and clear" ELSE "stop")
    /\ queue' = [queue EXCEPT ![e] = IF clear THEN <<>> ELSE @]
    /\ hooks' = [hooks EXCEPT ![e].present = @ \/ clear]
    /\ Call((IF clear THEN <<<<"dequeue", e>>>> ELSE <<>>) \o <<<<"stopHooks", e, gotoEnd>>>>)
    /\ UNCHANGED <<item, finishing, timers, interval, lost>>

\* finish: the queue is emptied, and a delay in progress cleared.
Finish(e) ==
    /\ May("finish")
    /\ finishing' = finishing \cup {e}
    /\ queue' = [queue EXCEPT ![e] = <<>>]
    /\ item' = IF hooks[e].stop = None THEN item ELSE [item EXCEPT ![hooks[e].stop].st = "rejected"]
    /\ Call(<<<<"finishTimers", e, Len(timers)>>, <<"finishOld", e, queue[e]>>>>)
    /\ UNCHANGED <<hooks, timers, interval, lost>>

\* The completion handlers of an animation return, or one throws.
HandlerReturns ==
    /\ InHandler
    /\ Then(<<>>)
    /\ UNCHANGED <<item, queue, hooks, finishing, timers, interval, lost>>

HandlerThrows ==
    /\ InHandler
    /\ May("throw")
    /\ Throws
    /\ UNCHANGED <<item, queue, hooks, finishing, timers, interval>>

-----------------------------------------------------------------------------

\* (Mutant: nothing holds the callbacks back.)
EmptyFiresAlways(e) ==
    /\ queue' = [queue EXCEPT ![e] = <<>>]
    /\ hooks' = [hooks EXCEPT ![e] = NoHooks]

\* hooks.empty.fire for an empty queue: the queue and the hooks are removed,
\* unless unqueued animations hold that back.
EmptyFires(e) ==
    /\ queue' = [queue EXCEPT ![e] = <<>>]
    /\ hooks' = IF hooks[e].unqueued > 0 THEN hooks ELSE [hooks EXCEPT ![e] = NoHooks]

\* jQuery.dequeue: the sentinel goes, and the next item starts behind a new one.
Dequeue ==
    /\ Doing("dequeue")
    /\ LET e == Job[2]
           q == IF SentinelFirst(queue[e]) THEN Tail(queue[e]) ELSE queue[e]
       IN IF q = <<>>
          THEN EmptyFires(e) /\ Then(<<>>)
          ELSE /\ queue' = [queue EXCEPT ![e] = <<"inprogress">> \o Tail(q)]
               /\ hooks' = [hooks EXCEPT ![e].present = TRUE, ![e].stop = None]
               /\ Then(<<<<"start", Head(q)>>>>)
    /\ UNCHANGED <<item, finishing, timers, interval, lost>>

StartDelay ==
    /\ Doing("start")
    /\ LET i == Job[2] IN
        /\ item[i].kind = "delay"
        /\ item' = [item EXCEPT ![i].st = "running"]
        /\ hooks' = [hooks EXCEPT ![item[i].elem].stop = i]
    /\ Then(<<>>)
    /\ UNCHANGED <<queue, finishing, timers, interval, lost>>

\* (Mutant: nobody dequeues.)
AfterHandlersNone(i, outcome) ==
    IF ~item[i].queued THEN <<<<"unqueued", item[i].elem>>>> ELSE <<>>

\* What an animation's Deferred calls when it settles, after the handlers of the
\* outcome.  opt.complete dequeues, but only if the animation was resolved; the
\* handler opts.always was attached after it.
AfterHandlers(i, outcome) ==
    IF ~item[i].queued THEN <<<<"unqueued", item[i].elem>>>>
    ELSE IF outcome = "resolved" THEN <<<<"dequeue", item[i].elem>>, <<"always", i>>>>
    ELSE <<>>

SettleJobs(i, outcome) ==
    IF item[i].st \in {"resolved", "rejected"} THEN <<>>
    ELSE <<<<"handler", i>>>> \o AfterHandlers(i, outcome)

\* Animation: an instant one is resolved by its first tick, before handlers are
\* attached; the others are pushed to timers and start the interval.
StartAnimation ==
    /\ Doing("start")
    /\ LET i == Job[2]
           e == item[i].elem
           force == IF e \in finishing THEN <<<<"force", i>>>> ELSE <<>>
       IN /\ item[i].kind = "anim"
          /\ hooks' = IF item[i].queued THEN hooks
                      ELSE [hooks EXCEPT ![e].present = TRUE, ![e].unqueued = @ + 1]
          /\ IF item[i].instant
             THEN /\ item' = [item EXCEPT ![i].st = "resolved"]
                  /\ Then((IF item[i].queued
                           THEN SettleJobs(i, "resolved")
                           ELSE AfterHandlers(i, "resolved") \o <<<<"handler", i>>>>) \o force)
                  /\ UNCHANGED <<timers, interval, lost>>
             ELSE /\ item' = [item EXCEPT ![i].st = "running"]
                  /\ timers' = Append(timers, i)
                  /\ interval' = TRUE
                  /\ Then(force)
    /\ UNCHANGED <<queue, finishing, lost>>

\* animation.stop, as what the item becomes and the jobs it leads to.
Stopped(i, gotoEnd) ==
    [item[i] EXCEPT !.stopped = TRUE,
                    !.st = IF @ # "running" THEN @
                           ELSE IF gotoEnd THEN "resolved" ELSE "rejected"]

StopJobs(i, gotoEnd) ==
    IF item[i].stopped THEN <<>>
    ELSE SettleJobs(i, IF gotoEnd THEN "resolved" ELSE "rejected")

\* An animation started while its element finishes is stopped at its end.
ForcedEnd ==
    /\ Doing("force")
    /\ item' = [item EXCEPT ![Job[2]] = Stopped(Job[2], TRUE)]
    /\ Then(StopJobs(Job[2], TRUE))
    /\ UNCHANGED <<queue, hooks, finishing, timers, interval, lost>>

\* The last callback of an unqueued animation.
UnqueuedEnds ==
    /\ Doing("unqueued")
    /\ LET e == Job[2]
           left == hooks[e].unqueued - 1
       IN IF queue[e] = <<>> /\ left = 0
          THEN hooks' = [hooks EXCEPT ![e] = NoHooks]
          ELSE hooks' = [hooks EXCEPT ![e].unqueued = left]
    /\ Then(<<>>)
    /\ UNCHANGED <<item, queue, finishing, timers, interval, lost>>

-----------------------------------------------------------------------------
\* The interval calls jQuery.fx.tick.
TickBegins ==
    /\ Idle
    /\ interval
    /\ todo' = <<<<"tick", 0>>>>
    /\ UNCHANGED <<item, queue, hooks, finishing, timers, interval, lost>>

Current == timers[Job[2] + 1]

\* The animation the loop is at goes on.
TickGoesOn ==
    /\ Doing("tick")
    /\ Job[2] < Len(timers)
    /\ item[Current].st = "running"
    /\ item[Current].ticks < MaxTicks
    /\ item' = [item EXCEPT ![Current].ticks = @ + 1]
    /\ Then(<<<<"tick", Job[2] + 1>>>>)
    /\ UNCHANGED <<queue, hooks, finishing, timers, interval, lost>>

\* It is over, or was stopped: its timer returns false.
TickOver ==
    /\ Doing("tick")
    /\ Job[2] < Len(timers)
    /\ item' = [item EXCEPT ![Current].st = IF @ = "running" THEN "resolved" ELSE @]
    /\ Then(SettleJobs(Current, "resolved") \o <<<<"ticked", Job[2], Current>>>>)
    /\ UNCHANGED <<queue, hooks, finishing, timers, interval, lost>>

\* The timer is removed, unless it no longer is where it was.
TickRemoves ==
    /\ Doing("ticked")
    /\ IF Job[2] < Len(timers) /\ timers[Job[2] + 1] = Job[3]
       THEN timers' = RemoveAt(timers, Job[2] + 1) /\ Then(<<<<"tick", Job[2]>>>>)
       ELSE Then(<<<<"tick", Job[2] + 1>>>>) /\ UNCHANGED timers
    /\ UNCHANGED <<item, queue, hooks, finishing, interval, lost>>

\* The interval is cleared when no timers are left.
TickEnds ==
    /\ Doing("tick")
    /\ Job[2] >= Len(timers)
    /\ interval' = (timers # <<>>)
    /\ Then(<<>>)
    /\ UNCHANGED <<item, queue, hooks, finishing, timers, lost>>

\* The timeout of a delay calls next.
DelayEnds(i) ==
    /\ Idle
    /\ item[i].kind = "delay"
    /\ item[i].st = "running"
    /\ item' = [item EXCEPT ![i].st = "resolved"]
    /\ todo' = <<<<"dequeue", item[i].elem>>>>
    /\ UNCHANGED <<queue, hooks, finishing, timers, interval, lost>>

-----------------------------------------------------------------------------
\* stop calls the stop function of the hooks, which clears a delay.
StopHooks ==
    /\ Doing("stopHooks")
    /\ LET e == Job[2] IN
        /\ item' = IF hooks[e].stop = None THEN item
                   ELSE [item EXCEPT ![hooks[e].stop].st = "rejected"]
        /\ hooks' = [hooks EXCEPT ![e].stop = None]
        /\ Then(<<<<"stopTimers", e, Len(timers), Job[3], TRUE>>>>)
    /\ UNCHANGED <<queue, finishing, timers, interval, lost>>

\* The timers of animations of e that have not settled; those that have no
\* longer name their element.
Names(i, e) == item[i].elem = e /\ item[i].st = "running"

\* (Mutant: stop starts nothing.)
AfterStopNever(e, dequeue, gotoEnd) == <<>>

\* The next item starts, unless completed animations have started it.
AfterStop(e, dequeue, gotoEnd) ==
    IF dequeue \/ ~gotoEnd THEN <<<<"dequeue", e>>>> ELSE <<>>

\* The loop of stop, from the last timer to the first.
StopTimers ==
    /\ Doing("stopTimers")
    /\ LET e == Job[2]
           n == Job[3]
           gotoEnd == Job[4]
       IN IF n = 0
          THEN Then(AfterStop(e, Job[5], gotoEnd)) /\ UNCHANGED <<item, lost>>
          ELSE IF n > Len(timers)
          THEN Throws /\ UNCHANGED item             \* a TypeError
          ELSE UNCHANGED lost /\ IF Names(timers[n], e)
          THEN /\ item' = [item EXCEPT ![timers[n]] = Stopped(timers[n], gotoEnd)]
               /\ Then(StopJobs(timers[n], gotoEnd)
                       \o <<<<"splice", n>>, <<"stopTimers", e, n - 1, gotoEnd, FALSE>>>>)
          ELSE /\ Then(<<<<"stopTimers", e, n - 1, gotoEnd, Job[5]>>>>)
               /\ UNCHANGED item
    /\ UNCHANGED <<queue, hooks, finishing, timers, interval>>

Splice ==
    /\ Doing("splice")
    /\ timers' = IF Job[2] <= Len(timers) THEN RemoveAt(timers, Job[2]) ELSE timers
    /\ Then(<<>>)
    /\ UNCHANGED <<item, queue, hooks, finishing, interval, lost>>

\* The loop of finish over the timers.
FinishTimers ==
    /\ Doing("finishTimers")
    /\ LET e == Job[2]
           n == Job[3]
       IN IF n = 0
          THEN Then(<<>>) /\ UNCHANGED <<item, lost>>
          ELSE IF n > Len(timers)
          THEN Throws /\ UNCHANGED item             \* a TypeError
          ELSE UNCHANGED lost /\ IF Names(timers[n], e) /\ item[timers[n]].queued
          THEN /\ item' = [item EXCEPT ![timers[n]] = Stopped(timers[n], TRUE)]
               /\ Then(StopJobs(timers[n], TRUE)
                       \o <<<<"splice", n>>, <<"finishTimers", e, n - 1>>>>)
          ELSE Then(<<<<"finishTimers", e, n - 1>>>>) /\ UNCHANGED item
    /\ UNCHANGED <<queue, hooks, finishing, timers, interval>>

\* The loop of finish over what was queued: animations start, to be stopped;
\* the sentinel and delays have no finish method.
FinishOld ==
    /\ Doing("finishOld")
    /\ LET e == Job[2]
           old == Job[3]
       IN IF old = <<>>
          THEN finishing' = finishing \ {e} /\ Then(<<>>)
          ELSE /\ Then((IF Head(old) \in Items /\ item[Head(old)].kind = "anim"
                        THEN <<<<"start", Head(old)>>>> ELSE <<>>)
                       \o <<<<"finishOld", e, Tail(old)>>>>)
               /\ UNCHANGED finishing
    /\ UNCHANGED <<item, queue, hooks, timers, interval, lost>>

-----------------------------------------------------------------------------
\* What jQuery does next, once called.
Continue ==
    \/ HandlerReturns \/ HandlerThrows
    \/ Dequeue \/ StartDelay \/ StartAnimation \/ ForcedEnd \/ UnqueuedEnds
    \/ TickGoesOn \/ TickOver \/ TickRemoves \/ TickEnds
    \/ StopHooks \/ StopTimers \/ Splice \/ FinishTimers \/ FinishOld

Use ==
    \E e \in Elements :
        \/ \E i \in Items, instant \in BOOLEAN :
            Animate(e, i, instant) \/ AnimateUnqueued(e, i, instant)
        \/ \E i \in Items : AnimateEmpty(e, i) \/ Delay(e, i)
        \/ PromiseOf(e) \/ ClearQueue(e) \/ Finish(e)
        \/ \E clear, gotoEnd \in BOOLEAN : Stop(e, clear, gotoEnd)

Next == Use \/ Continue \/ TickBegins \/ \E i \in Items : DelayEnds(i)

Spec == Init /\ [][Next]_vars

\* JavaScript goes on, and the interval and the timeouts come due.
FairSpec ==
    /\ Spec
    /\ WF_vars(Continue)
    /\ SF_vars(TickBegins)
    /\ \A i \in Items : SF_vars(DelayEnds(i))
-----------------------------------------------------------------------------
Running(e) == {i \in Items : item[i].elem = e /\ item[i].queued /\ item[i].st = "running"}

\* At most as many unqueued animations are counted as there are.
TypeOK ==
    /\ \A e \in Elements :
        /\ queue[e] \in Seq(Items \cup {"inprogress"})
        /\ hooks[e].unqueued \in 0..Cardinality(Items)
        /\ hooks[e].stop \in Items \cup {None}
    /\ timers \in Seq(Items)
    /\ finishing \subseteq Elements

\* "Add a progress sentinel to prevent the fx queue from being automatically
\* dequeued": what is queued for an element runs one at a time, as long
\* as no handler that threw left a call of the element undone.
OneAtATime == \A e \in Elements \ lost : Cardinality(Running(e)) <= 1

\* Between two turns, the sentinel is there exactly while something queued is
\* running: a queue is neither stuck nor started twice, with the same proviso.
SentinelMeansRunning ==
    Idle => \A e \in Elements \ lost : SentinelFirst(queue[e]) <=> Running(e) # {}

\* Between two turns, every animation that runs has its timer, once, and the
\* interval is on.
RunningIsDriven ==
    Idle =>
        /\ \A i \in Items :
            item[i].kind = "anim" /\ item[i].st = "running" =>
                Cardinality({n \in DOMAIN timers : timers[n] = i}) = 1
        /\ timers # <<>> => interval

\* One animation of an element at a time: what queue, dequeue, stop and finish
\* keep between them.
FxInv == TypeOK /\ OneAtATime /\ SentinelMeansRunning /\ RunningIsDriven

BeingStopped(e) ==
    \/ e \in finishing
    \/ \E n \in DOMAIN todo : todo[n][1] \in {"stopHooks", "stopTimers"} /\ todo[n][2] = e

\* "doing this makes sure that the complete handler will be called before this
\* completes": when the empty callbacks of an element fire, and its promises
\* resolve, no animation of it is running, and no completion handler is still to
\* be called.  (stop(true) and finish empty the queue first, and then stop: a
\* handler that throws leaves the rest running.)
EmptyMeansComplete ==
    [][\A e \in Elements \ lost :
        hooks[e].present /\ ~hooks'[e].present /\ ~BeingStopped(e) =>
            /\ \A i \in Items : item[i].elem = e /\ item[i].kind = "anim" => item'[i].st # "running"
            /\ \A n \in DOMAIN todo' :
                todo'[n][1] = "handler" => item[todo'[n][2]].elem # e]_vars

Dropped(i) == ~Contains(queue[item[i].elem], i) /\ Idle

\* finish cleared the delay that was to dequeue, and dequeues nothing itself.
DelayCleared(e) == hooks[e].stop # None /\ item[hooks[e].stop].st = "rejected"

\* What is queued comes to its end, unless stop or finish drops it, and what
\* runs does, a promise is resolved in the end, unless finish cleared the delay it
\* waits for, and the interval is cleared: a queue stays behind for ever only if
\* a handler that threw left a call of its element undone.
QueuesDrain ==
    /\ \A i \in Items :
        item[i].st \in {"waiting", "running"} ~>
            \/ item[i].st \in {"resolved", "rejected"}
            \/ item[i].st = "waiting" /\ (Dropped(i) \/ item[i].elem \in lost)
    /\ \A e \in Elements : []<>(hooks[e].waiting => e \in lost \/ DelayCleared(e))
    /\ []<>(interval = FALSE)
==============================================================================
