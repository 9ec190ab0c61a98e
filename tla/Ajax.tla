-------------------------------- MODULE Ajax --------------------------------
(***************************************************************************)
(* jQuery.ajax with the XMLHttpRequest transport: the life of every        *)
(* request, the timer that aborts it, and the counter jQuery.active behind *)
(* the events ajaxStart and ajaxStop.                                      *)
(*                                                                         *)
(* JavaScript is single threaded, but the call ajax() and the function     *)
(* done() call handlers, and a handler may start and abort requests.  The  *)
(* calls under way form a stack of frames <<request, point>>; the handlers *)
(* of the innermost point are the code that runs.                          *)
(***************************************************************************)
EXTENDS Integers, Sequences, FiniteSets, SequencesExt

CONSTANTS
    Requests,       \* the requests the page makes, each once
    Options,        \* the settings a request may have: see OptionRecords
    AbortPoints,    \* bound: where handlers abort the request that calls them
    ThrowPoints,    \* bound: where handlers throw
    None

\* global: the request fires global events; beforeSend: it has that setting;
\* timed: its timeout is positive; async: it is asynchronous.
OptionRecords == [global : BOOLEAN, beforeSend : BOOLEAN, timed : BOOLEAN, async : BOOLEAN]

CallPoints == {"prefilter", "ajaxStart", "beforeSend", "ajaxSend", "send"}
DonePoints == {"settle", "ajaxResult", "complete", "ajaxComplete", "ajaxStop"}
Points == CallPoints \cup DonePoints

ASSUME AjaxAssumption ==
    /\ Options \subseteq OptionRecords
    /\ AbortPoints \subseteq Points
    /\ ThrowPoints \subseteq Points
    /\ None \notin OptionRecords
    /\ IsFiniteSet(Requests)

VARIABLES
    q,          \* the closure variables of each request
    active,     \* jQuery.active
    stack,
    shown,      \* history: the ajaxStart events minus the ajaxStop events
    completes,  \* history: the ajaxComplete events of each request
    thrown      \* history: a handler has thrown

vars == <<q, active, stack, shown, completes, thrown>>

\* opt is None before the request is made; callback stands for the closure's
\* callback and its entry in xhrCallbacks; result is the statusText that done
\* settles the request with.
Fresh == [opt |-> None, state |-> 0, fireGlobals |-> FALSE, transport |-> FALSE,
          strAbort |-> "canceled", timer |-> FALSE,
          callback |-> FALSE, xhr |-> "unsent", result |-> None]

Init ==
    /\ q = [r \in Requests |-> Fresh]
    /\ active = 0
    /\ stack = <<>>
    /\ shown = 0
    /\ completes = [r \in Requests |-> 0]
    /\ thrown = FALSE

Idle == stack = <<>>
Top == Last(stack)
At(r, p) == ~Idle /\ Top = <<r, p>>
Goto(r, p) == stack' = Append(Front(stack), <<r, p>>)
Return == stack' = Front(stack)

\* Whether handlers run at point p of request r.
HandlersAt(r, p) ==
    CASE p = "beforeSend" -> q[r].opt.beforeSend
      [] p \in {"ajaxSend", "ajaxResult", "ajaxComplete"} -> q[r].fireGlobals
      [] p = "send" -> FALSE
      [] OTHER -> TRUE

\* Code of the page runs: outside of every request, or as a handler.
PageRuns == ~Idle => HandlersAt(Top[1], Top[2])

Within(r) == {stack[i][2] : i \in {j \in DOMAIN stack : stack[j][1] = r}}

\* (Mutant: done does not check the state.)
DoneAgain(r, x, cause) ==
    <<[x EXCEPT !.state = 2, !.timer = FALSE, !.transport = FALSE, !.result = cause],
      <<<<r, "settle">>>> >>

\* (Mutant: done leaves the timer running.)
DoneTimerOn(r, x, cause) ==
    IF x.state = 2 THEN <<x, <<>>>>
    ELSE <<[x EXCEPT !.state = 2, !.transport = FALSE, !.result = cause],
           <<<<r, "settle">>>> >>

\* done, up to the first handlers: the closure variables x of request r after
\* it, and the frame, if any, of what is left to do.  A request that settled
\* once keeps its result in its Deferred, whatever done does.
Done(r, x, cause) ==
    IF x.state = 2 THEN <<x, <<>>>>
    ELSE <<[x EXCEPT !.state = 2, !.timer = FALSE, !.transport = FALSE, !.result = cause],
           <<<<r, "settle">>>> >>

\* The abort of the transport: the handlers of the XMLHttpRequest go, and it
\* is aborted.
TransportAbort(x) ==
    IF x.callback THEN [x EXCEPT !.callback = FALSE, !.xhr = "over"] ELSE x

\* jqXHR.abort
AbortOf(r, x, cause) == Done(r, IF x.transport THEN TransportAbort(x) ELSE x, cause)

\* Request r becomes what step says, and its frame goes on top of s.
Take(r, s, step) == q' = [q EXCEPT ![r] = step[1]] /\ stack' = s \o step[2]

-----------------------------------------------------------------------------
\* The page calls ajax; the prefilters are called.
Call(r, opt) ==
    /\ PageRuns
    /\ q[r].opt = None
    /\ q' = [q EXCEPT ![r].opt = opt]
    /\ stack' = Append(stack, <<r, "prefilter">>)
    /\ UNCHANGED <<active, shown, completes, thrown>>

\* The page aborts a request it has made, perhaps one that is done.
Abort(r) ==
    /\ PageRuns
    /\ q[r].opt # None
    /\ Within(r) \subseteq AbortPoints
    /\ Take(r, stack, AbortOf(r, q[r], q[r].strAbort))
    /\ UNCHANGED <<active, shown, completes, thrown>>

\* A handler throws, and nothing catches it: the calls under way are left.
\* (A throw out of the send of the transport is thrown on by ajax, because the
\* request is done.)
HandlerThrows ==
    /\ ~Idle
    /\ PageRuns
    /\ Top[2] \in ThrowPoints
    /\ stack' = <<>>
    /\ thrown' = TRUE
    /\ UNCHANGED <<q, active, shown, completes>>

-----------------------------------------------------------------------------

\* The prefilters are through: the request is counted.
Count(r) ==
    /\ At(r, "prefilter")
    /\ q[r].state # 2
    /\ q' = [q EXCEPT ![r].fireGlobals = q[r].opt.global]
    /\ active' = IF q[r].opt.global THEN active + 1 ELSE active
    /\ IF q[r].opt.global /\ active = 0
       THEN Goto(r, "ajaxStart") /\ shown' = shown + 1
       ELSE Goto(r, "beforeSend") /\ UNCHANGED shown
    /\ UNCHANGED <<completes, thrown>>

\* A prefilter has aborted the request.
StopEarly(r) ==
    /\ At(r, "prefilter")
    /\ q[r].state = 2
    /\ Return
    /\ UNCHANGED <<q, active, shown, completes, thrown>>

\* The URL and the headers are prepared; beforeSend is called.
Prepare(r) ==
    /\ At(r, "ajaxStart")
    /\ Goto(r, "beforeSend")
    /\ UNCHANGED <<q, active, shown, completes, thrown>>

\* beforeSend returns false, or has aborted the request.
Cancel(r) ==
    /\ At(r, "beforeSend")
    /\ q[r].opt.beforeSend
    /\ Take(r, Front(stack), AbortOf(r, q[r], q[r].strAbort))
    /\ UNCHANGED <<active, shown, completes, thrown>>

\* The callbacks are installed and a transport is sought.
SetUp(r) ==
    /\ At(r, "beforeSend")
    /\ q[r].opt.beforeSend => q[r].state # 2
    /\ LET x == [q[r] EXCEPT !.strAbort = "abort"] IN
        \/ q' = [q EXCEPT ![r] = [x EXCEPT !.transport = TRUE]] /\ Goto(r, "ajaxSend")
        \/ Take(r, Front(stack), Done(r, x, "error"))
    /\ UNCHANGED <<active, shown, completes, thrown>>

\* (Mutant: only requests with a beforeSend get their timer.)
SendUntimed(r) ==
    /\ At(r, "ajaxSend")
    /\ LET x == [q[r] EXCEPT !.timer = q[r].opt.timed /\ q[r].opt.beforeSend, !.state = 1] IN
        IF x.transport
        THEN q' = [q EXCEPT ![r] = x] /\ Goto(r, "send")
        ELSE Take(r, Front(stack), Done(r, x, "error"))
    /\ UNCHANGED <<active, shown, completes, thrown>>

\* The timer is started and the transport called, which done may have removed:
\* then the call throws, and the exception becomes an error of the request.
Send(r) ==
    /\ At(r, "ajaxSend")
    /\ LET x == [q[r] EXCEPT !.timer = q[r].opt.async /\ q[r].opt.timed, !.state = 1] IN
        IF x.transport
        THEN q' = [q EXCEPT ![r] = x] /\ Goto(r, "send")
        ELSE Take(r, Front(stack), Done(r, x, "error"))
    /\ UNCHANGED <<active, shown, completes, thrown>>

\* The send of the XMLHttpRequest transport, of an asynchronous request.
SendAsync(r) ==
    /\ At(r, "send")
    /\ q[r].opt.async
    /\ q' = [q EXCEPT ![r].callback = TRUE, ![r].xhr = "out"]
    /\ Return
    /\ UNCHANGED <<active, shown, completes, thrown>>

\* Of a synchronous one, whose answer comes before send returns.
SendSync(r, answer) ==
    /\ At(r, "send")
    /\ ~q[r].opt.async
    /\ Take(r, Front(stack), Done(r, [q[r] EXCEPT !.xhr = "over"], answer))
    /\ UNCHANGED <<active, shown, completes, thrown>>

\* The XMLHttpRequest throws from its open, or from its send: then the entry in
\* xhrCallbacks stays.
SendThrows(r) ==
    /\ At(r, "send")
    /\ \E opened \in BOOLEAN :
        Take(r, Front(stack),
             Done(r, [q[r] EXCEPT !.xhr = "over", !.callback = opened], "error"))
    /\ UNCHANGED <<active, shown, completes, thrown>>

-----------------------------------------------------------------------------
\* The answers of the XMLHttpRequest: a response that can or cannot be
\* converted, an unsuccessful status, and no response.
Answers == {"success", "parsererror", "error"}

\* The XMLHttpRequest loads or fails.
XhrAnswers(r, answer) ==
    /\ Idle
    /\ q[r].xhr = "out"
    /\ LET x == [q[r] EXCEPT !.xhr = "over", !.callback = FALSE] IN
        IF q[r].callback
        THEN Take(r, <<>>, Done(r, x, answer))
        ELSE q' = [q EXCEPT ![r] = x] /\ UNCHANGED stack
    /\ UNCHANGED <<active, shown, completes, thrown>>

\* The timer of the request aborts it.
TimesOut(r) ==
    /\ Idle
    /\ q[r].timer
    /\ Take(r, <<>>, AbortOf(r, [q[r] EXCEPT !.timer = FALSE], "timeout"))
    /\ UNCHANGED <<active, shown, completes, thrown>>

-----------------------------------------------------------------------------
\* The handlers of the outcome are through, and those of the status code.
ReportResult(r) ==
    /\ At(r, "settle")
    /\ Goto(r, "ajaxResult")
    /\ UNCHANGED <<q, active, shown, completes, thrown>>

\* completeDeferred is fired.
Complete(r) ==
    /\ At(r, "ajaxResult")
    /\ Goto(r, "complete")
    /\ UNCHANGED <<q, active, shown, completes, thrown>>

ReportComplete(r) ==
    /\ At(r, "complete")
    /\ Goto(r, "ajaxComplete")
    /\ completes' = IF q[r].fireGlobals THEN [completes EXCEPT ![r] = @ + 1] ELSE completes
    /\ UNCHANGED <<q, active, shown, thrown>>

\* (Mutant: the counter goes down for requests that were not counted.)
DiscountAll(r) ==
    /\ At(r, "ajaxComplete")
    /\ active' = active - 1
    /\ IF active = 1
       THEN Goto(r, "ajaxStop") /\ shown' = shown - 1
       ELSE Return /\ UNCHANGED shown
    /\ UNCHANGED <<q, completes, thrown>>

\* The request is no longer counted; the last one fires ajaxStop.
Discount(r) ==
    /\ At(r, "ajaxComplete")
    /\ active' = IF q[r].fireGlobals THEN active - 1 ELSE active
    /\ IF q[r].fireGlobals /\ active = 1
       THEN Goto(r, "ajaxStop") /\ shown' = shown - 1
       ELSE Return /\ UNCHANGED shown
    /\ UNCHANGED <<q, completes, thrown>>

Stopped(r) ==
    /\ At(r, "ajaxStop")
    /\ Return
    /\ UNCHANGED <<q, active, shown, completes, thrown>>

-----------------------------------------------------------------------------
\* What ajax and done do next for request r.
Continue(r) ==
    \/ Count(r) \/ StopEarly(r) \/ Prepare(r) \/ Cancel(r) \/ SetUp(r) \/ Send(r)
    \/ SendAsync(r) \/ (\E answer \in Answers : SendSync(r, answer)) \/ SendThrows(r)
    \/ ReportResult(r) \/ Complete(r) \/ ReportComplete(r) \/ Discount(r) \/ Stopped(r)

Next ==
    \/ \E r \in Requests :
        \/ \E opt \in Options : Call(r, opt)
        \/ Abort(r)
        \/ Continue(r)
        \/ TimesOut(r)
        \/ \E answer \in Answers : XhrAnswers(r, answer)
    \/ HandlerThrows

Spec == Init /\ [][Next]_vars

\* Handlers return, JavaScript goes on, and a timer that is set comes due.
\* Nothing is assumed of the server.
FairSpec ==
    /\ Spec
    /\ \A r \in Requests : WF_vars(Continue(r)) /\ WF_vars(TimesOut(r))
-----------------------------------------------------------------------------
\* The values of the closures, and stack frames of requests only.
TypeOK ==
    /\ \A r \in Requests :
        /\ q[r].opt \in Options \cup {None}
        /\ q[r].state \in 0..2
        /\ q[r].xhr \in {"unsent", "out", "over"}
        /\ q[r].result \in Answers \cup {None, "canceled", "abort", "timeout"}
    /\ active \in 0..Cardinality(Requests)
    /\ stack \in Seq(Requests \X Points)

\* "Counter for holding the number of active queries": between two turns of the
\* event loop, active is the number of requests that are out and fire global
\* events, and an ajaxStart is open exactly when there is one.
ActiveCounts ==
    /\ Idle => active = Cardinality({r \in Requests : q[r].fireGlobals /\ q[r].state = 1})
    /\ Idle => shown = (IF active > 0 THEN 1 ELSE 0)
    /\ shown \in 0..1

\* "Called once": the work of done is done once for a request.
CompleteOnce == \A r \in Requests : completes[r] <= 1

\* Between two turns, a request is waiting exactly when its XMLHttpRequest is
\* out and can be aborted; when it is done nothing of it is left behind: no
\* timer, no transport, and no XMLHttpRequest that is still running.
NothingLeftBehind ==
    Idle => \A r \in Requests :
        /\ q[r].state = 1 <=> q[r].xhr = "out"
        /\ q[r].state = 1 => q[r].transport /\ q[r].callback
        /\ q[r].timer => q[r].state = 1

\* What each request may rely on: it is completed once, and leaves nothing behind
\* (done and abort).
RequestInv == TypeOK /\ CompleteOnce /\ NothingLeftBehind

\* Whatever comes first, the answer, the timeout or an abort, decides the
\* result; what comes later changes nothing.
FirstCauseWins ==
    [][\A r \in Requests : q[r].result # None => q'[r].result = q[r].result]_vars

\* A request with a timeout ends, even if the server never answers.
TimedRequestsEnd ==
    \A r \in Requests :
        q[r].state = 1 /\ q[r].opt.timed /\ q[r].opt.async ~> q[r].state = 2

\* A request that ended has its ajaxComplete, and when there is none left the
\* ajaxStop has been fired.
EndedRequestsReport ==
    \A r \in Requests : q[r].state = 2 /\ q[r].fireGlobals ~> completes[r] >= 1 /\ Idle
=============================================================================
