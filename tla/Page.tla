-------------------------------- MODULE Page --------------------------------
(***************************************************************************)
(* The page of Prime Tester in a browser, engine.js, and the REST          *)
(* endpoints it talks to.  The frontend's actors are those of TaskLedger;  *)
(* the endpoints put messages into their mailboxes and answer when the     *)
(* actors do, or after two seconds.                                        *)
(*                                                                         *)
(* Each time the user sends a number the page posts it and, once it knows  *)
(* the task, listens to an event stream of the task until it has its       *)
(* result.  A browser connects a broken event stream again.                *)
(***************************************************************************)
EXTENDS TaskLedger, Sequences, FiniteSets

CONSTANTS
    Presses,        \* the times the user sends a number, 1..n
    MaxGets,        \* bound: GET requests for one press
    MaxFaults,      \* bound: broken streams and asks that time out
    MaxLives        \* bound: restarts of the frontend

ASSUME PageAssumption ==
    /\ Presses \subseteq Nat \ {0}
    /\ MaxGets \in Nat /\ MaxFaults \in Nat /\ MaxLives \in Nat
    /\ Null \notin Presses

VARIABLES
    sent,        \* the number of each press
    post,        \* the POST of each press: see below
    task,        \* the task id the page was told
    source,      \* the EventSource: "none", "connecting", "open", "broken", "closed"
    feed,        \* the events on their way to the page
    subscribed,  \* TaskStorage.subscriptions: the press whose stream it is
    gets,        \* the GET requests of each press: their stage, and the number a
                 \* redirect sent them to
    rows,        \* what the page displays for each press
    result,      \* the number of the result that was displayed
    faults,
    listeners,   \* the controls that have a handler
    manual       \* what came of the button for getting a result by hand

pageVars == <<sent, post, task, source, feed, subscribed, gets, rows, result,
              faults, listeners, manual>>
vars == <<ledgerVars, pageVars>>

\* A POST is "none", in TaskStorage's mailbox with a client that waits ("asked")
\* or was told of the timeout ("late"), or its reply is under way ("replied"),
\* displayed ("shown") or lost ("failed").  A GET is with TaskStorage ("status"),
\* or after the redirect with ResultStorage ("result"), or it has its answer:
\* "ok", "missing", "error", or none for ever ("hung").

At(stage) == [stage |-> stage, number |-> Null]

EachNull == [p \in Presses |-> Null]

\* The elements of the page: getResultBtn is no jQuery object but the element
\* itself, whose click takes no handler and clicks.
Init ==
    /\ LedgerInit
    /\ sent = EachNull
    /\ post = [p \in Presses |-> "none"]
    /\ task = EachNull
    /\ source = [p \in Presses |-> "none"]
    /\ feed = [p \in Presses |-> <<>>]
    /\ subscribed = [t \in TaskIds |-> Null]
    /\ gets = [p \in Presses |-> <<>>]
    /\ rows = [p \in Presses |-> {}]
    /\ result = EachNull
    /\ faults = 0
    /\ listeners = {"sendBtn", "numberInput"}
    /\ manual = "idle"

-----------------------------------------------------------------------------
Fault == faults < MaxFaults /\ faults' = faults + 1

Display(p, row) == rows' = [rows EXCEPT ![p] = @ \cup {row}]

\* The user clicks sendBtn, or types Enter: sendNumber.
SendNumber(p, s) ==
    /\ post[p] = "none"
    /\ \A q \in Presses : q < p => post[q] # "none"
    /\ post' = [post EXCEPT ![p] = "asked"]
    /\ sent' = [sent EXCEPT ![p] = s]
    /\ UNCHANGED <<ledgerVars, task, source, feed, subscribed, gets, rows, result,
                   faults, listeners, manual>>

\* TaskStorage takes the message, whether or not its client still waits.
TaskIsQueued(p) ==
    /\ post[p] \in {"asked", "late"}
    /\ Queue(sent[p])
    /\ post' = [post EXCEPT ![p] = IF @ = "asked" THEN "replied" ELSE "failed"]
    /\ task' = [task EXCEPT ![p] = counter + 1]
    /\ UNCHANGED <<sent, source, feed, subscribed, gets, rows, result, faults, listeners, manual>>

\* (Mutant: the message is withdrawn when its ask times out.)
PostWithdrawn(p) ==
    /\ post[p] = "asked"
    /\ Fault
    /\ post' = [post EXCEPT ![p] = "failed"]
    /\ UNCHANGED <<ledgerVars, sent, task, source, feed, subscribed, gets, rows,
                   result, listeners, manual>>

\* The ask times out: the client gets an ErrorResource, which the page does not
\* display, but nobody takes the message back.
PostTimesOut(p) ==
    /\ post[p] = "asked"
    /\ Fault
    /\ post' = [post EXCEPT ![p] = "late"]
    /\ UNCHANGED <<ledgerVars, sent, task, source, feed, subscribed, gets, rows,
                   result, listeners, manual>>

\* success of the POST: subscribeForNotifications.
PostSucceeds(p) ==
    /\ post[p] = "replied"
    /\ post' = [post EXCEPT ![p] = "shown"]
    /\ Display(p, "queued")
    /\ source' = [source EXCEPT ![p] = "connecting"]
    /\ UNCHANGED <<ledgerVars, sent, task, feed, subscribed, gets, result, faults, listeners, manual>>

-----------------------------------------------------------------------------
\* The frontend.

\* An event for the stream that is registered for task t; it is lost if the
\* connection is.
Tell(t, event, subs) ==
    feed' = [p \in Presses |->
                IF subs[t] = p /\ source'[p] = "open" THEN Append(feed[p], event) ELSE feed[p]]

\* (Mutant: a stream that comes late is told nothing.)
CatchUpNothing(p) == feed' = feed

\* The status a new stream is told at once.
CatchUp(p) ==
    IF status[task[p]] \in {"STARTED", "FINISHED"}
    THEN Tell(task[p], status[task[p]], subscribed')
    ELSE UNCHANGED feed

\* RegisterForNotifications reaches TaskStorage: the stream replaces another one.
\* A task it does not know makes it throw, and it starts anew with empty maps.
Registers(p) ==
    /\ source[p] = "connecting"
    /\ source' = [source EXCEPT ![p] = "open"]
    /\ IF status[task[p]] # Null
       THEN /\ subscribed' = [subscribed EXCEPT ![task[p]] = p]
            /\ CatchUp(p)
            /\ UNCHANGED ledgerVars
       ELSE /\ Forget /\ verdicts' = verdicts
            /\ subscribed' = [t \in TaskIds |-> Null]
            /\ UNCHANGED feed
    /\ UNCHANGED <<sent, post, task, gets, rows, result, faults, listeners, manual>>

\* What an event of an earlier life does to a task counts as a fault.
Expected(t) == IF status[t] \in {"QUEUED", "STARTED"} THEN UNCHANGED faults ELSE Fault

TaskStarts(t) ==
    /\ status[t] # "STARTED" /\ Start(t)
    /\ Expected(t)
    /\ source' = source
    /\ Tell(t, "STARTED", subscribed)
    /\ UNCHANGED <<sent, post, task, subscribed, gets, rows, result, listeners, manual>>

\* The result may be stored before or after: it comes to another mailbox.
TaskFinishes(t) ==
    /\ status[t] # "FINISHED" /\ Finish(t)
    /\ Expected(t)
    /\ source' = source
    /\ Tell(t, "FINISHED", subscribed)
    /\ UNCHANGED <<sent, post, task, subscribed, gets, rows, result, listeners, manual>>

ResultIsRecorded(t) ==
    /\ number[t] # Null
    /\ number[t] \notin verdicts
    /\ Record(number[t])
    /\ UNCHANGED pageVars

\* The process starts again: connections break, and requests fail.
FrontendRestarts ==
    /\ lives < MaxLives
    /\ Forget /\ verdicts' = {}
    /\ subscribed' = [t \in TaskIds |-> Null]
    /\ source' = [p \in Presses |->
                     IF source[p] \in {"none", "closed"} THEN source[p] ELSE "broken"]
    /\ feed' = [p \in Presses |-> <<>>]
    /\ post' = [p \in Presses |->
                   IF post[p] \in {"asked", "late", "replied"} THEN "failed" ELSE post[p]]
    /\ gets' = [p \in Presses |-> [i \in DOMAIN gets[p] |->
                   IF gets[p][i].stage \in {"status", "result", "hung"}
                   THEN At("error") ELSE gets[p][i]]]
    /\ UNCHANGED <<sent, task, rows, result, faults, listeners, manual>>

-----------------------------------------------------------------------------
\* The event stream in the browser.

ConnectionBreaks(p) ==
    /\ source[p] = "open"
    /\ Fault
    /\ source' = [source EXCEPT ![p] = "broken"]
    /\ feed' = [feed EXCEPT ![p] = <<>>]
    /\ UNCHANGED <<ledgerVars, sent, post, task, subscribed, gets, rows, result, listeners, manual>>

\* The browser connects again, after onerror.
Reconnects(p) ==
    /\ source[p] = "broken"
    /\ source' = [source EXCEPT ![p] = "connecting"]
    /\ Display(p, "error")
    /\ UNCHANGED <<ledgerVars, sent, post, task, feed, subscribed, gets, result, faults, listeners, manual>>

\* The listeners for STARTED and FINISHED.  A stream that is closed delivers
\* nothing more.
HandleStarted(p) ==
    /\ source[p] = "open" /\ feed[p] # <<>> /\ Head(feed[p]) = "STARTED"
    /\ feed' = [feed EXCEPT ![p] = Tail(@)]
    /\ Display(p, "started")
    /\ UNCHANGED <<ledgerVars, sent, post, task, source, subscribed, gets, result, faults, listeners, manual>>

HandleFinished(p) ==
    /\ source[p] = "open" /\ feed[p] # <<>> /\ Head(feed[p]) = "FINISHED"
    /\ Len(gets[p]) < MaxGets
    /\ feed' = [feed EXCEPT ![p] = Tail(@)]
    /\ Display(p, "finished")
    /\ gets' = [gets EXCEPT ![p] = Append(@, At("status"))]
    /\ UNCHANGED <<ledgerVars, sent, post, task, source, subscribed, result, faults, listeners, manual>>

Get(p, i, from, to) ==
    /\ i \in DOMAIN gets[p] /\ gets[p][i].stage = from
    /\ gets' = [gets EXCEPT ![p][i] = to]

\* success of the GET: the answer is displayed, and the stream is closed.
Success(p, shown) ==
    /\ Display(p, "result")
    /\ result' = [result EXCEPT ![p] = shown]
    /\ source' = [source EXCEPT ![p] = "closed"]
    /\ feed' = [feed EXCEPT ![p] = <<>>]

\* (Mutant: the redirect has the number of the latest task.)
RedirectToLatest(t) == [stage |-> "result", number |-> number[counter]]

\* The redirect carries the number that TaskStorage answered with the status.
RedirectTo(t) == [stage |-> "result", number |-> number[t]]

\* GetStatusCallback: 404, a redirect, or the status.  A FINISHED task without a
\* number makes it throw, and the request is never answered.
StatusReply(t) ==
    IF status[t] = Null THEN At("missing")
    ELSE IF status[t] # "FINISHED" THEN At("ok")
    ELSE IF number[t] = Null THEN At("hung")
    ELSE RedirectTo(t)

GetStatus(p, i) ==
    /\ Get(p, i, "status", StatusReply(task[p]))
    /\ IF StatusReply(task[p]).stage = "ok"
       THEN Success(p, Null)
       ELSE UNCHANGED <<rows, result, source, feed>>
    /\ UNCHANGED <<ledgerVars, sent, post, task, subscribed, faults, listeners, manual>>

\* ResultCallback, for the number in the redirect.
GetResult(p, i) ==
    LET s == gets[p][i].number
        found == s \in verdicts IN
    /\ Get(p, i, "result", At(IF found THEN "ok" ELSE "missing"))
    /\ IF found THEN Success(p, s) ELSE UNCHANGED <<rows, result, source, feed>>
    /\ UNCHANGED <<ledgerVars, sent, post, task, subscribed, faults, listeners, manual>>

\* There is no handler for errors.
GetTimesOut(p, i) ==
    /\ Fault
    /\ Get(p, i, "status", At("error")) \/ Get(p, i, "result", At("error"))
    /\ UNCHANGED <<ledgerVars, sent, post, task, source, feed, subscribed, rows, result, listeners, manual>>

\* The button "Get test results (manually)".
PressManually ==
    /\ manual = "idle"
    /\ manual' = IF "getResultBtn" \in listeners THEN "answered" ELSE "ignored"
    /\ UNCHANGED <<ledgerVars, sent, post, task, source, feed, subscribed, gets, rows,
                   result, faults, listeners>>

-----------------------------------------------------------------------------
Next ==
    \/ \E p \in Presses :
        \/ \E s \in Numbers : SendNumber(p, s)
        \/ TaskIsQueued(p) \/ PostTimesOut(p) \/ PostSucceeds(p)
        \/ Registers(p) \/ ConnectionBreaks(p) \/ Reconnects(p)
        \/ HandleStarted(p) \/ HandleFinished(p)
        \/ \E i \in 1..MaxGets : GetStatus(p, i) \/ GetResult(p, i) \/ GetTimesOut(p, i)
    \/ \E t \in TaskIds : TaskStarts(t) \/ TaskFinishes(t) \/ ResultIsRecorded(t)
    \/ FrontendRestarts
    \/ PressManually

PageSpec == Init /\ [][Next]_vars

\* The actors take the messages of the endpoints, browsers connect again and
\* answers arrive.  Users, faults and restarts may stay away, and so may the end
\* of a task, which the router or a worker can lose, and its result.
FairPageSpec ==
    /\ PageSpec
    /\ \A p \in Presses :
        /\ WF_vars(TaskIsQueued(p)) /\ WF_vars(PostSucceeds(p))
        /\ WF_vars(Registers(p)) /\ WF_vars(Reconnects(p))
        /\ WF_vars(HandleStarted(p)) /\ WF_vars(HandleFinished(p))
        /\ \A i \in 1..MaxGets : WF_vars(GetStatus(p, i)) /\ WF_vars(GetResult(p, i))
-----------------------------------------------------------------------------
\* The result that is displayed for a press is the one of the number sent with
\* it, as long as the frontend lives on.
OwnResult ==
    lives = 0 => \A p \in Presses : "result" \in rows[p] => result[p] = sent[p]

\* The open stream that is registered for a task has its status as the last event
\* on its way, or handled, however often it broke and was replaced before.
InformedWhileOpen ==
    \A t \in TaskIds, p \in Presses :
        subscribed[t] = p /\ source[p] = "open" /\ status[t] \in {"STARTED", "FINISHED"} =>
            IF feed[p] # <<>> THEN feed[p][Len(feed[p])] = status[t]
            ELSE (IF status[t] = "STARTED" THEN "started" ELSE "finished") \in rows[p]

\* A number that was posted becomes a task, also if its sender is told that this
\* has failed, and will send it again: there may be more tasks than are known.
PostedIsQueued ==
    \A p \in Presses : post[p] \in {"asked", "late"} ~> task[p] # Null \/ lives > 0

\* Once the task of a press is FINISHED the page displays its result, whatever
\* its stream missed while it was broken and whoever took its place.  It stays
\* without one, as it handles no errors and asks but once per event, if a GET
\* timed out or came before the result was stored, or the frontend restarted.
\* That a task is FINISHED, and its result stored, is up to the actors.
ResultIsShown ==
    \A p \in Presses :
        post[p] = "shown" /\ status[task[p]] = "FINISHED" ~>
            \/ "result" \in rows[p]
            \/ \E i \in DOMAIN gets[p] : gets[p][i].stage \in {"error", "missing"}
            \/ lives > 0

\* "If needed, you can Get test results (manually)".
ManualWorks == manual # "ignored"
=============================================================================
