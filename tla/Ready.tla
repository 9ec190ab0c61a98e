------------------------------- MODULE Ready -------------------------------
(***************************************************************************)
(* jQuery.ready: when do the functions run that wait for the document?     *)
(* The browser reports the document in two events, jQuery listens to them  *)
(* only from the first call of ready on, and holdReady puts it off.  One   *)
(* counter, readyWait, stands for the document and for all the holds.  The *)
(* functions may call all this again, and throw.                           *)
(***************************************************************************)
EXTENDS Integers, Sequences, SequencesExt

CONSTANTS
    None,
    Functions,   \* the functions that wait for the document
    MaxHolds,    \* bound: calls of holdReady(true)
    Unbalanced   \* whether holdReady(false) is called with nothing held

VARIABLES
    isReady,
    readyWait,
    readyList,   \* "none", "pending" or "resolved"
    waiting,     \* the functions in readyList that are still to be called
    firing,      \* firing of the list: its loop is calling them
    bound,       \* the functions bound to the event ready of the document
    listening,   \* whether the two listeners are there
    timer,       \* whether jQuery.ready has been put off to a timer
    document,    \* "loading", "interactive" or "complete"
    stack,       \* the loops that are under way, the innermost last: of the list, for
                 \* resolveWith or for add, or of the event; fn is the function that
                 \* runs, todo are the handlers still to be called
    ran,         \* history: how often each function was called
    held,        \* history: the holds that were not released
    holds        \* the calls of holdReady(true) so far

vars == <<isReady, readyWait, readyList, waiting, firing, bound, listening, timer,
          document, stack, ran, held, holds>>

Init ==
    /\ isReady = FALSE
    /\ readyWait = 1
    /\ readyList = "none"
    /\ waiting = {}
    /\ firing = FALSE
    /\ bound = {}
    /\ listening = FALSE
    /\ timer = FALSE
    /\ document = "loading"
    /\ stack = <<>>
    /\ ran = [f \in Functions |-> 0]
    /\ held = 0
    /\ holds = 0

Unused == {f \in Functions : ran[f] = 0 /\ f \notin waiting \cup bound}

Loop(kind, handlers) == [kind |-> kind, todo |-> handlers, fn |-> None]

\* The page's code runs: by itself, or one of the functions.
PageRuns == stack # <<>> => Last(stack).fn # None

\* readyList.resolveWith, a second time without effect, and then the event.  With no
\* list, an exception is thrown instead.
Execute ==
    CASE readyList = "none" -> UNCHANGED <<readyList, firing, stack>>
      [] readyList = "pending" ->
            /\ readyList' = "resolved"
            /\ firing' = TRUE
            /\ stack' = Append(stack, Loop("resolve", {}))
      [] readyList = "resolved" ->
            /\ stack' = Append(stack, Loop("event", bound))
            /\ UNCHANGED <<readyList, firing>>

\* jQuery.ready: wait says that it is holdReady that calls.
ReadyCall(wait) ==
    IF (wait /\ readyWait # 1) \/ (~wait /\ isReady)
    THEN /\ readyWait' = IF wait THEN readyWait - 1 ELSE readyWait
         /\ UNCHANGED <<isReady, readyList, firing, stack>>
    ELSE /\ readyWait' = readyWait - 1
         /\ isReady' = TRUE
         /\ IF ~wait /\ readyWait > 1 THEN UNCHANGED <<readyList, firing, stack>> ELSE Execute

\* (Mutant: the document is never taken to be there already.)
ListensOnly == listening' = TRUE /\ UNCHANGED timer

\* ready.promise, the first time.
ListenOrPutOff ==
    IF document = "complete" THEN timer' = TRUE /\ UNCHANGED listening
    ELSE listening' = TRUE /\ UNCHANGED timer

\* jQuery(f), and jQuery.fn.ready: done has f called at once if the list is resolved
\* and does not call others.
WaitFor(f) ==
    /\ PageRuns /\ f \in Unused
    /\ waiting' = waiting \cup {f}
    /\ IF readyList = "resolved" /\ ~firing
       THEN firing' = TRUE /\ stack' = Append(stack, Loop("add", {}))
       ELSE UNCHANGED <<firing, stack>>
    /\ IF readyList = "none" THEN readyList' = "pending" /\ ListenOrPutOff
       ELSE UNCHANGED <<readyList, listening, timer>>
    /\ UNCHANGED <<isReady, readyWait, bound, document, ran, held, holds>>

\* jQuery(document).on("ready", f)
Bind(f) ==
    /\ PageRuns /\ f \in Unused
    /\ bound' = bound \cup {f}
    /\ UNCHANGED <<isReady, readyWait, readyList, waiting, firing, listening, timer, document,
                   stack, ran, held, holds>>

\* holdReady(true)
Hold ==
    /\ PageRuns
    /\ holds < MaxHolds
    /\ holds' = holds + 1
    /\ held' = held + 1
    /\ readyWait' = readyWait + 1
    /\ UNCHANGED <<isReady, readyList, waiting, firing, bound, listening, timer, document,
                   stack, ran>>

\* holdReady(false)
Release ==
    /\ PageRuns
    /\ IF Unbalanced THEN readyWait > -MaxHolds ELSE held > 0
    /\ held' = IF held > 0 THEN held - 1 ELSE 0
    /\ ReadyCall(TRUE)
    /\ UNCHANGED <<waiting, bound, listening, timer, document, ran, holds>>

\* DOMContentLoaded and load: completed removes both listeners.
DocumentChanges ==
    /\ stack = <<>>
    /\ document # "complete"
    /\ document' = IF document = "loading" THEN "interactive" ELSE "complete"
    /\ listening' = FALSE
    /\ IF listening THEN ReadyCall(FALSE)
       ELSE UNCHANGED <<isReady, readyWait, readyList, firing, stack>>
    /\ UNCHANGED <<waiting, bound, timer, ran, held, holds>>

TimerEnds ==
    /\ stack = <<>>
    /\ timer
    /\ timer' = FALSE
    /\ ReadyCall(FALSE)
    /\ UNCHANGED <<waiting, bound, listening, document, ran, held, holds>>

InLoop(kinds) == stack # <<>> /\ Last(stack).fn = None /\ Last(stack).kind \in kinds

Runs(f, handlers) ==
    /\ stack' = Append(Front(stack), [Last(stack) EXCEPT !.fn = f, !.todo = handlers])
    /\ ran' = [ran EXCEPT ![f] = @ + 1]

\* The loop of the list calls the next function, also one that was added since it
\* began.  Their order is left open.
CallNext ==
    /\ InLoop({"resolve", "add"})
    /\ \E f \in waiting : waiting' = waiting \ {f} /\ Runs(f, {})
    /\ UNCHANGED <<isReady, readyWait, readyList, firing, bound, listening, timer, document,
                   held, holds>>

\* There are no more; after resolveWith the event comes.
ListEnds ==
    /\ InLoop({"resolve", "add"})
    /\ waiting = {}
    /\ firing' = FALSE
    /\ stack' = IF Last(stack).kind = "add" THEN Front(stack)
                ELSE Append(Front(stack), Loop("event", bound))
    /\ UNCHANGED <<isReady, readyWait, readyList, waiting, bound, listening, timer, document,
                   ran, held, holds>>

\* The event calls the handlers there were when it was triggered.
CallHandler ==
    /\ InLoop({"event"})
    /\ \E f \in Last(stack).todo : Runs(f, Last(stack).todo \ {f})
    /\ UNCHANGED <<isReady, readyWait, readyList, waiting, firing, bound, listening, timer,
                   document, held, holds>>

\* off("ready")
EventEnds ==
    /\ InLoop({"event"})
    /\ Last(stack).todo = {}
    /\ bound' = {}
    /\ stack' = Front(stack)
    /\ UNCHANGED <<isReady, readyWait, readyList, waiting, firing, listening, timer, document,
                   ran, held, holds>>

FunctionReturns ==
    /\ stack # <<>> /\ Last(stack).fn # None
    /\ stack' = [stack EXCEPT ![Len(stack)].fn = None]
    /\ UNCHANGED <<isReady, readyWait, readyList, waiting, firing, bound, listening, timer,
                   document, ran, held, holds>>

\* Nobody catches what a function throws: all that is under way is left as it is.
FunctionThrows ==
    /\ stack # <<>> /\ Last(stack).fn # None
    /\ stack' = <<>>
    /\ UNCHANGED <<isReady, readyWait, readyList, waiting, firing, bound, listening, timer,
                   document, ran, held, holds>>

Continue ==
    CallNext \/ ListEnds \/ CallHandler \/ EventEnds \/ FunctionReturns \/ FunctionThrows

Next ==
    \/ \E f \in Functions : WaitFor(f) \/ Bind(f)
    \/ Hold
    \/ Release
    \/ DocumentChanges
    \/ TimerEnds
    \/ Continue

Spec == Init /\ [][Next]_vars

\* The document is loaded in the end, timers end, and so does every function.
FairSpec == Spec /\ WF_vars(DocumentChanges) /\ WF_vars(TimerEnds) /\ WF_vars(Continue)
-----------------------------------------------------------------------------
\* The counter counts the document, until it is there, and the holds; a loop of the
\* list is firing it, unless it was left by an exception.
TypeOK ==
    /\ isReady \in BOOLEAN
    /\ readyWait = held + (IF isReady THEN 0 ELSE 1)
    /\ readyList \in {"none", "pending", "resolved"}
    /\ \A f \in waiting : ran[f] = 0
    /\ listening => readyList = "pending"
    /\ (\E i \in DOMAIN stack : stack[i].kind # "event") => firing
    /\ firing => readyList = "resolved"

\* "Is the DOM ready to be used?  Set to true once it occurs."
ReadyMeansDocument == isReady => document # "loading"

\* The functions that wait for the document, since whenever, are called from the
\* moment on when the document is there and nothing holds them back.
HeldBack ==
    /\ [][readyList = "pending" /\ readyList' = "resolved" =>
              document' # "loading" /\ held' = 0]_vars
    /\ [][(\E f \in waiting : ran'[f] > ran[f]) => readyList = "resolved"]_vars

\* The list was left in the middle of a call: a function threw.
LeftFiring == firing /\ stack = <<>>

\* And every one of them runs, however late ready was first called and whatever the
\* others do meanwhile: only a hold that is never released, or a function that
\* throws, keeps it waiting.
WaitingRun ==
    \A f \in Functions : f \in waiting ~> ran[f] = 1 \/ [](held > 0) \/ LeftFiring

\* A page that holds ready back in pairs is never ready too early.
ReadyInv == TypeOK /\ ReadyMeansDocument

\* What jQuery.ready promises: functions run when the document is there and
\* nothing holds them back, none before, and all of them in the end.
RunsWhenReady == HeldBack /\ WaitingRun /\ []ReadyInv
=============================================================================
