------------------------------ MODULE MCEffects ------------------------------
(***************************************************************************)
(* Effects: the queues and timers of animations (Fx), once as the page     *)
(* leaves them alone, once as it stops and finishes them, once as it       *)
(* clears them, once with delays and once with handlers that throw.  A     *)
(* behaviour is one of one page.                                           *)
(***************************************************************************)
EXTENDS Fx

CONSTANTS e1, e2, i1, i2, i3

TwoElements == {e1, e2}
ThreeItems == {i1, i2, i3}

VARIABLE
    part    \* the page that this behaviour is about

\* Two animations, of one or two elements, or three animations of one element.
StopUses == {"animate", "unqueued", "promise", "stop", "stop and clear", "finish"}

Stopping == INSTANCE Fx
    WITH Items <- {i1, i2}, PageUses <- StopUses, HandlerUses <- {}, MaxTicks <- 0

StoppingOne == INSTANCE Fx
    WITH Elements <- {e1}, PageUses <- StopUses, HandlerUses <- {}, MaxTicks <- 0

\* clearQueue, and animate with no properties, where nothing queued runs: during
\* an animation either would start the next beside it.
Clearing == INSTANCE Fx
    WITH Elements <- {e1}, PageUses <- {"unqueued", "promise", "clear", "empty"},
         HandlerUses <- {}, MaxTicks <- 0

\* Delays among animations, stopped and finished too.
Delaying == INSTANCE Fx
    WITH Elements <- {e1}, PageUses <- {"animate", "delay", "promise", "stop", "finish"},
         HandlerUses <- {}, MaxTicks <- 0

\* Handlers that throw, also while the page stops two animations.
Throwing == INSTANCE Fx
    WITH Elements <- {e1}, PageUses <- {"animate", "unqueued", "promise"},
         HandlerUses <- {"animate", "throw"}, MaxTicks <- 0

ThrowingTwo == INSTANCE Fx
    WITH Elements <- {e1}, Items <- {i1, i2}, PageUses <- StopUses, HandlerUses <- {"throw"},
         MaxTicks <- 0

allVars == <<vars, part>>

AllInit ==
    /\ part \in {"queues", "stops", "stops one", "clears", "delays", "throws", "throws two"}
    /\ Init

AllNext ==
    /\ UNCHANGED part
    /\ \/ part = "queues" /\ Next
       \/ part = "stops" /\ Stopping!Next
       \/ part = "stops one" /\ StoppingOne!Next
       \/ part = "clears" /\ Clearing!Next
       \/ part = "delays" /\ Delaying!Next
       \/ part = "throws" /\ Throwing!Next
       \/ part = "throws two" /\ ThrowingTwo!Next

\* The fairness of Fx!FairSpec; the page need not do anything.
AllSpec ==
    /\ AllInit
    /\ [][AllNext]_allVars
    /\ WF_vars(part = "queues" /\ Continue)
    /\ WF_vars(part = "stops" /\ Stopping!Continue)
    /\ WF_vars(part = "stops one" /\ StoppingOne!Continue)
    /\ WF_vars(part = "clears" /\ Clearing!Continue)
    /\ WF_vars(part = "delays" /\ Delaying!Continue)
    /\ WF_vars(part = "throws" /\ Throwing!Continue)
    /\ WF_vars(part = "throws two" /\ ThrowingTwo!Continue)
    /\ SF_vars(TickBegins)
    /\ \A i \in Items : SF_vars(DelayEnds(i))
=============================================================================
