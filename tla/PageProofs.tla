----------------------------- MODULE PageProofs -----------------------------
(***************************************************************************)
(* A page shows each number its own result, and an open event stream is up *)
(* to date, for all values of the constants.                               *)
(***************************************************************************)
EXTENDS Page, SequenceTheorems, TLAPS

\* The events of a stream, the stages of a GET, and the rows of the page.
FeedEvents == {"STARTED", "FINISHED"}
Stages == {"status", "result", "ok", "missing", "error", "hung"}
Requests == [stage : Stages, number : Numbers \cup {Null}]
Rows == {"queued", "started", "finished", "result", "error"}

\* The values of the variables.
TypeOK ==
    /\ counter \in Nat
    /\ lives \in Nat
    /\ status \in [TaskIds -> {"QUEUED", "STARTED", "FINISHED", Null}]
    /\ number \in [TaskIds -> Numbers \cup {Null}]
    /\ verdicts \subseteq Numbers
    /\ sent \in [Presses -> Numbers \cup {Null}]
    /\ post \in [Presses -> {"none", "asked", "late", "replied", "shown", "failed"}]
    /\ task \in [Presses -> TaskIds \cup {Null}]
    /\ source \in [Presses -> {"none", "connecting", "open", "broken", "closed"}]
    /\ feed \in [Presses -> Seq(FeedEvents)]
    /\ subscribed \in [TaskIds -> Presses \cup {Null}]
    /\ gets \in [Presses -> Seq(Requests)]
    /\ rows \in [Presses -> SUBSET Rows]
    /\ result \in [Presses -> Numbers \cup {Null}]

\* A stream is opened for a press whose task the page was told.
StreamHasTask ==
    \A p \in Presses :
        /\ post[p] \in {"replied", "shown"} => task[p] \in TaskIds
        /\ source[p] # "none" => post[p] = "shown"
        /\ gets[p] # <<>> => post[p] = "shown"
        /\ feed[p] # <<>> => source[p] = "open"

\* The stream that is registered for a task was opened for it.
SubscribedToOwn ==
    \A t \in TaskIds, p \in Presses :
        subscribed[t] = p => source[p] # "none" /\ task[p] = t

\* The invariant that event streams rest on.
Streams == TypeOK /\ StreamHasTask /\ SubscribedToOwn /\ InformedWhileOpen

\* In the first life, the task the page was told is the one its number was given.
OwnTask ==
    \A p \in Presses :
        post[p] \in {"replied", "shown"} =>
            /\ task[p] \in 1..counter
            /\ number[task[p]] = sent[p]

\* A page that is told, or has asked, only after its task was finished.
ToldWhenFinished ==
    \A p \in Presses :
        /\ \A k \in DOMAIN feed[p] : feed[p][k] = "FINISHED" => status[task[p]] = "FINISHED"
        /\ gets[p] # <<>> => status[task[p]] = "FINISHED"

\* What is displayed as a result is the one of the number that was sent.
OwnRows ==
    \A p \in Presses :
        "result" \in rows[p] => post[p] = "shown" /\ result[p] = sent[p]

\* A redirect carries the number that was sent.
OwnRedirects ==
    \A p \in Presses : \A i \in DOMAIN gets[p] :
        gets[p][i].stage = "result" => gets[p][i].number = sent[p]

FirstLife == lives = 0 => OwnTask /\ ToldWhenFinished /\ OwnRows

-----------------------------------------------------------------------------
(* The types.                                                              *)

LEMMA TypeInit == Init => TypeOK
BY DEF Init, LedgerInit, TypeOK, NoTask, EachNull

\* An event for the registered stream.
LEMMA TellType ==
    ASSUME TypeOK, NEW t, NEW event \in FeedEvents, NEW subs, Tell(t, event, subs)
    PROVE  feed' \in [Presses -> Seq(FeedEvents)]
BY DEF TypeOK, Tell

\* The answer of a GET takes the place of its stage.
LEMMA GetType ==
    ASSUME TypeOK, NEW p \in Presses, NEW i, NEW from, NEW to \in Requests,
           Get(p, i, from, to)
    PROVE  gets' \in [Presses -> Seq(Requests)]
<1>1. gets[p] \in Seq(Requests) /\ i \in 1..Len(gets[p])
  BY DEF TypeOK, Get
<1>2. [gets[p] EXCEPT ![i] = to] \in Seq(Requests)
  BY <1>1, ExceptSeq
<1>3. QED
  BY <1>2 DEF TypeOK, Get

\* The success handler of a POST or of a result keeps the types of what it writes.
LEMMA SuccessType ==
    ASSUME TypeOK, NEW p \in Presses, NEW shown \in Numbers \cup {Null}, Success(p, shown)
    PROVE  /\ rows' \in [Presses -> SUBSET Rows]
           /\ result' \in [Presses -> Numbers \cup {Null}]
           /\ source' \in [Presses -> {"none", "connecting", "open", "broken", "closed"}]
           /\ feed' \in [Presses -> Seq(FeedEvents)]
BY DEF TypeOK, Success, Display, Rows

\* The steps of one press keep the types, given that streams have tasks.
LEMMA PressTypes ==
    ASSUME TypeOK, StreamHasTask, NEW p \in Presses,
           \/ \E s \in Numbers : SendNumber(p, s)
           \/ TaskIsQueued(p) \/ PostTimesOut(p) \/ PostSucceeds(p)
           \/ Registers(p) \/ ConnectionBreaks(p) \/ Reconnects(p)
           \/ HandleStarted(p) \/ HandleFinished(p)
           \/ \E i \in 1..MaxGets : GetStatus(p, i) \/ GetResult(p, i) \/ GetTimesOut(p, i)
    PROVE  TypeOK'
<1> USE DEF ledgerVars
<1>1. ASSUME NEW s \in Numbers, SendNumber(p, s) PROVE TypeOK'
  BY <1>1 DEF TypeOK, SendNumber
<1>2. CASE TaskIsQueued(p)
  <2>1. counter + 1 \in TaskIds
    BY <1>2 DEF TaskIsQueued, Queue
  <2>2. sent[p] \in Numbers \cup {Null} /\ counter + 1 \in Nat
    BY DEF TypeOK
  <2>3. counter' \in Nat /\ status' \in [TaskIds -> {"QUEUED", "STARTED", "FINISHED", Null}]
        /\ number' \in [TaskIds -> Numbers \cup {Null}] /\ lives' = lives
    BY <1>2, <2>1, <2>2 DEF TaskIsQueued, Queue, TypeOK
  <2>4. /\ post' \in [Presses -> {"none", "asked", "late", "replied", "failed", "shown"}]
        /\ task' \in [Presses -> TaskIds \cup {Null}]
    BY <1>2, <2>1 DEF TaskIsQueued, TypeOK
  <2>5. UNCHANGED <<verdicts, sent, source, feed, subscribed, gets, rows, result, faults,
                    listeners, manual>>
    BY <1>2 DEF TaskIsQueued, Queue
  <2>6. QED
    BY <2>3, <2>4, <2>5 DEF TypeOK
<1>3. CASE PostTimesOut(p)
  BY <1>3 DEF TypeOK, PostTimesOut
<1>4. CASE PostSucceeds(p)
  BY <1>4 DEF TypeOK, PostSucceeds, Display, Rows
<1>5. CASE Registers(p)
  <2>1. task[p] \in TaskIds
    BY <1>5 DEF Registers, StreamHasTask
  <2>2. CASE status[task[p]] # Null
    <3>1. feed' \in [Presses -> Seq(FeedEvents)]
      BY <1>5, <2>2, TellType, ZenonT(40) DEF Registers, CatchUp, FeedEvents, TypeOK
    <3>2. QED
      BY <1>5, <2>1, <2>2, <3>1 DEF Registers, TypeOK
  <2>3. CASE status[task[p]] = Null
    BY <1>5, <2>1, <2>3 DEF Registers, TypeOK, Forget, NoTask
  <2>4. QED
    BY <2>2, <2>3
<1>6. CASE ConnectionBreaks(p)
  BY <1>6 DEF TypeOK, ConnectionBreaks
<1>7. CASE Reconnects(p)
  BY <1>7 DEF TypeOK, Reconnects, Display, Rows
<1>8. CASE HandleStarted(p)
  BY <1>8 DEF TypeOK, HandleStarted, Display, Rows
<1>9. CASE HandleFinished(p)
  <2>1. At("status") \in Requests
    BY DEF At, Requests, Stages
  <2>2. QED
    BY <1>9, <2>1 DEF TypeOK, HandleFinished, Display, Rows
<1>10. ASSUME NEW i \in 1..MaxGets, GetStatus(p, i) PROVE TypeOK'
  <2>1. StatusReply(task[p]) \in Requests
    <3>1. \A stage \in Stages : At(stage) \in Requests
      BY DEF At, Requests
    <3>2. ASSUME status[task[p]] = "FINISHED"
          PROVE  RedirectTo(task[p]) \in Requests
      <4>1. task[p] \in TaskIds
        BY <1>10 DEF GetStatus, Get, StreamHasTask, TypeOK
      <4>2. QED
        BY <4>1 DEF TypeOK, RedirectTo, Requests, Stages
    <3>3. QED
      BY <3>1, <3>2 DEF StatusReply, Stages
  <2>2. gets' \in [Presses -> Seq(Requests)]
    BY <1>10, <2>1, GetType DEF GetStatus
  <2>3. CASE StatusReply(task[p]).stage = "ok"
    BY <1>10, <2>2, <2>3, SuccessType DEF TypeOK, GetStatus
  <2>4. CASE StatusReply(task[p]).stage # "ok"
    BY <1>10, <2>2, <2>4 DEF TypeOK, GetStatus
  <2>5. QED
    BY <2>3, <2>4
<1>11. ASSUME NEW i \in 1..MaxGets, GetResult(p, i) PROVE TypeOK'
  <2>1. gets' \in [Presses -> Seq(Requests)]
    <3>1. At("ok") \in Requests /\ At("missing") \in Requests
      BY DEF At, Requests, Stages
    <3>2. QED
      BY <1>11, <3>1, GetType DEF GetResult
  <2>2. CASE gets[p][i].number \in verdicts
    <3>1. gets[p][i].number \in Numbers \cup {Null}
      BY <2>2 DEF TypeOK
    <3>2. QED
      BY <1>11, <2>1, <2>2, <3>1, SuccessType DEF TypeOK, GetResult
  <2>3. CASE gets[p][i].number \notin verdicts
    BY <1>11, <2>1, <2>3 DEF TypeOK, GetResult
  <2>4. QED
    BY <2>2, <2>3
<1>12. ASSUME NEW i \in 1..MaxGets, GetTimesOut(p, i) PROVE TypeOK'
  <2>1. At("error") \in Requests
    BY DEF At, Requests, Stages
  <2>2. gets' \in [Presses -> Seq(Requests)]
    BY <1>12, <2>1, GetType DEF GetTimesOut
  <2>3. QED
    BY <1>12, <2>2 DEF TypeOK, GetTimesOut, Fault
<1>13. QED
  BY <1>1, <1>2, <1>3, <1>4, <1>5, <1>6, <1>7, <1>8, <1>9, <1>10, <1>11, <1>12

\* So do those of a task.
LEMMA TaskTypes ==
    ASSUME TypeOK, NEW t \in TaskIds,
           TaskStarts(t) \/ TaskFinishes(t) \/ ResultIsRecorded(t)
    PROVE  TypeOK'
<1>1. CASE TaskStarts(t)
  <2>1. feed' \in [Presses -> Seq(FeedEvents)]
    BY <1>1, TellType DEF TaskStarts, FeedEvents
  <2>2. QED
    BY <1>1, <2>1 DEF TypeOK, TaskStarts, Start, Expected, Fault
<1>2. CASE TaskFinishes(t)
  <2>1. feed' \in [Presses -> Seq(FeedEvents)]
    BY <1>2, TellType DEF TaskFinishes, FeedEvents
  <2>2. QED
    BY <1>2, <2>1 DEF TypeOK, TaskFinishes, Finish, Expected, Fault
<1>3. CASE ResultIsRecorded(t)
  <2>1. number[t] \in Numbers
    BY <1>3 DEF TypeOK, ResultIsRecorded
  <2>2. QED
    BY <1>3, <2>1 DEF TypeOK, ResultIsRecorded, Record, pageVars
<1>4. QED
  BY <1>1, <1>2, <1>3

\* And a restart.
LEMMA RestartTypes ==
    ASSUME TypeOK, FrontendRestarts
    PROVE  TypeOK'
<1>1. gets' \in [Presses -> Seq(Requests)]
  <2>1. ASSUME NEW p \in Presses
        PROVE  [i \in DOMAIN gets[p] |->
                   IF gets[p][i].stage \in {"status", "result", "hung"}
                   THEN At("error") ELSE gets[p][i]]
                   \in Seq(Requests)
    <3>1. gets[p] \in Seq(Requests) /\ DOMAIN gets[p] = 1..Len(gets[p]) /\ Len(gets[p]) \in Nat
      BY DEF TypeOK
    <3>2. \A i \in 1..Len(gets[p]) :
              (IF gets[p][i].stage \in {"status", "result", "hung"}
               THEN At("error") ELSE gets[p][i]) \in Requests
      <4>1. At("error") \in Requests
        BY DEF At, Requests, Stages
      <4>2. \A i \in 1..Len(gets[p]) : gets[p][i] \in Requests
        BY <3>1, ElementOfSeq
      <4>3. QED
        BY <4>1, <4>2
    <3>3. QED
      BY <3>1, <3>2, IsASeq
  <2>2. QED
    BY <2>1 DEF FrontendRestarts
<1>2. QED
  BY <1>1 DEF TypeOK, FrontendRestarts, Forget, NoTask

\* Every step keeps the types.
LEMMA NextTypes == TypeOK /\ StreamHasTask /\ [Next]_vars => TypeOK'
<1> SUFFICES ASSUME TypeOK, StreamHasTask, [Next]_vars PROVE TypeOK'
  OBVIOUS
<1>1. CASE UNCHANGED vars
  BY <1>1 DEF TypeOK, vars, ledgerVars, pageVars
<1>2. CASE PressManually
  BY <1>2 DEF TypeOK, PressManually, ledgerVars
<1>3. QED
  BY <1>1, <1>2, PressTypes, TaskTypes, RestartTypes DEF Next

-----------------------------------------------------------------------------
(* Streams belong to presses, and are up to date.                          *)

\* Taking an event from a feed leaves its last one, or was the last one.
LEMMA LastOfTail ==
    ASSUME NEW s \in Seq(FeedEvents), s # <<>>
    PROVE  /\ Tail(s) \in Seq(FeedEvents)
           /\ Tail(s) # <<>> => Tail(s)[Len(Tail(s))] = s[Len(s)]
           /\ Tail(s) = <<>> => Head(s) = s[Len(s)]
<1>1. /\ Len(s) \in Nat \ {0}
      /\ Head(s) = s[1]
      /\ Tail(s) \in Seq(FeedEvents)
      /\ Len(Tail(s)) = Len(s) - 1
      /\ \A i \in 1..Len(Tail(s)) : Tail(s)[i] = s[i + 1]
  BY HeadTailProperties, EmptySeq
<1>2. Tail(s) = <<>> <=> Len(Tail(s)) = 0
  BY <1>1, EmptySeq
<1>3. Tail(s) # <<>> => Tail(s)[Len(Tail(s))] = s[Len(s)]
  BY <1>1, <1>2
<1>4. QED
  BY <1>1, <1>2, <1>3

\* A step that only closes streams and displays more leaves them up to date.
LEMMA InformedFrame ==
    ASSUME InformedWhileOpen,
           UNCHANGED <<status, subscribed>>,
           \A p \in Presses :
               /\ source'[p] = "open" => source[p] = "open" /\ feed'[p] = feed[p]
               /\ rows[p] \subseteq rows'[p]
    PROVE  InformedWhileOpen'
BY DEF InformedWhileOpen

\* The event that tells of a task's new status makes its stream up to date.
LEMMA InformedByTell ==
    ASSUME TypeOK, SubscribedToOwn, InformedWhileOpen,
           NEW t \in TaskIds, NEW event \in FeedEvents,
           status' = [status EXCEPT ![t] = event],
           UNCHANGED <<source, subscribed, rows>>,
           Tell(t, event, subscribed)
    PROVE  InformedWhileOpen'
<1> SUFFICES ASSUME NEW u \in TaskIds, NEW p \in Presses,
                    subscribed[u] = p, source[p] = "open",
                    status'[u] \in {"STARTED", "FINISHED"}
             PROVE  IF feed'[p] # <<>> THEN feed'[p][Len(feed'[p])] = status'[u]
                    ELSE (IF status'[u] = "STARTED" THEN "started" ELSE "finished") \in rows[p]
  BY DEF InformedWhileOpen
<1>1. feed[p] \in Seq(FeedEvents)
  BY DEF TypeOK
<1>2. CASE u = t
  <2>1. feed'[p] = Append(feed[p], event) /\ status'[u] = event
    BY <1>2 DEF Tell, TypeOK
  <2>2. feed'[p] # <<>> /\ feed'[p][Len(feed'[p])] = event
    BY <1>1, <2>1
  <2>3. QED
    BY <2>1, <2>2
<1>3. CASE u # t
  <2>1. subscribed[t] # p
    BY <1>3 DEF SubscribedToOwn
  <2>2. feed'[p] = feed[p] /\ status'[u] = status[u]
    BY <1>3, <2>1 DEF Tell, TypeOK
  <2>3. QED
    BY <2>2 DEF InformedWhileOpen
<1>4. QED
  BY <1>2, <1>3

\* A new stream is told the status there is.
LEMMA InformedByRegistration ==
    ASSUME Streams, NEW p \in Presses, Registers(p)
    PROVE  InformedWhileOpen'
<1>1. task[p] \in TaskIds /\ feed[p] \in Seq(FeedEvents)
  BY DEF Streams, TypeOK, StreamHasTask, Registers
<1>2. CASE status[task[p]] # Null
  <2> SUFFICES ASSUME NEW u \in TaskIds, NEW q \in Presses,
                      subscribed'[u] = q, source'[q] = "open",
                      status[u] \in {"STARTED", "FINISHED"}
               PROVE  IF feed'[q] # <<>> THEN feed'[q][Len(feed'[q])] = status[u]
                      ELSE (IF status[u] = "STARTED" THEN "started" ELSE "finished") \in rows[q]
    BY <1>2 DEF InformedWhileOpen, Registers, ledgerVars
  <2>1. /\ source' = [source EXCEPT ![p] = "open"]
        /\ subscribed' = [subscribed EXCEPT ![task[p]] = p]
        /\ CatchUp(p)
        /\ UNCHANGED rows
    BY <1>2 DEF Registers
  <2>2. CASE u = task[p]
    <3>1. q = p
      BY <1>1, <2>1, <2>2 DEF Streams, TypeOK
    <3>2. feed'[p] = Append(feed[p], status[u])
      BY <1>1, <2>1, <2>2, <3>1 DEF CatchUp, Tell, Streams, TypeOK
    <3>3. feed'[p] # <<>> /\ feed'[p][Len(feed'[p])] = status[u]
      BY <1>1, <3>2 DEF FeedEvents
    <3>4. QED
      BY <3>1, <3>3
  <2>3. CASE u # task[p]
    <3>1. subscribed[u] = q
      BY <2>1, <2>3 DEF Streams, TypeOK
    <3>2. q # p
      BY <2>3, <3>1 DEF Streams, SubscribedToOwn
    <3>3. source[q] = "open" /\ feed'[q] = feed[q]
      BY <1>1, <2>1, <3>2 DEF CatchUp, Tell, Streams, TypeOK
    <3>4. QED
      BY <2>1, <3>1, <3>3 DEF Streams, InformedWhileOpen
  <2>4. QED
    BY <2>2, <2>3
<1>3. CASE status[task[p]] = Null
  BY <1>3, PageAssumption DEF Registers, InformedWhileOpen
<1>4. QED
  BY <1>2, <1>3

\* Handling an event displays it, so that the last one may leave the feed.
LEMMA InformedByHandling ==
    ASSUME TypeOK, InformedWhileOpen, NEW p \in Presses,
           HandleStarted(p) \/ HandleFinished(p)
    PROVE  InformedWhileOpen'
<1> DEFINE Row(e) == IF e = "STARTED" THEN "started" ELSE "finished"
<1>1. /\ UNCHANGED <<status, subscribed, source>>
      /\ feed[p] \in Seq(FeedEvents) /\ feed[p] # <<>> /\ Head(feed[p]) \in FeedEvents
      /\ feed' = [feed EXCEPT ![p] = Tail(@)]
      /\ rows' = [rows EXCEPT ![p] = @ \cup {Row(Head(feed[p]))}]
  BY DEF HandleStarted, HandleFinished, Display, ledgerVars, TypeOK, FeedEvents
<1> SUFFICES ASSUME NEW u \in TaskIds, NEW q \in Presses,
                    subscribed[u] = q, source[q] = "open",
                    status[u] \in {"STARTED", "FINISHED"}
             PROVE  IF feed'[q] # <<>> THEN feed'[q][Len(feed'[q])] = status[u]
                    ELSE Row(status[u]) \in rows'[q]
  BY <1>1 DEF InformedWhileOpen
<1>2. IF feed[q] # <<>> THEN feed[q][Len(feed[q])] = status[u] ELSE Row(status[u]) \in rows[q]
  BY DEF InformedWhileOpen
<1> HIDE DEF Row
<1>3. CASE q = p
  <2>1. feed'[p] = Tail(feed[p]) /\ Row(Head(feed[p])) \in rows'[p]
    BY <1>1 DEF TypeOK
  <2>2. QED
    BY <1>1, <1>2, <1>3, <2>1, LastOfTail
<1>4. CASE q # p
  BY <1>1, <1>2, <1>4 DEF TypeOK
<1>5. QED
  BY <1>3, <1>4

\* There is no stream at first.
LEMMA StreamsInit == Init => Streams
<1> SUFFICES ASSUME Init PROVE Streams
  OBVIOUS
<1>1. TypeOK
  BY TypeInit
<1>2. QED
  BY <1>1, PageAssumption
     DEF Init, Streams, StreamHasTask, SubscribedToOwn, InformedWhileOpen

\* Steps that are neither of the page nor of its streams.
LEMMA StreamsByTask ==
    ASSUME Streams, TypeOK', NEW t \in TaskIds,
           TaskStarts(t) \/ TaskFinishes(t) \/ ResultIsRecorded(t)
    PROVE  Streams'
<1>1. CASE ResultIsRecorded(t)
  BY <1>1 DEF Streams, ResultIsRecorded, Record, pageVars, StreamHasTask,
              SubscribedToOwn, InformedWhileOpen
<1>2. CASE TaskStarts(t) \/ TaskFinishes(t)
  <2>1. PICK event \in FeedEvents :
            /\ status' = [status EXCEPT ![t] = event]
            /\ Tell(t, event, subscribed)
    BY <1>2 DEF TaskStarts, TaskFinishes, Start, Finish, FeedEvents
  <2>2. UNCHANGED <<post, task, source, subscribed, gets, rows>>
    BY <1>2 DEF TaskStarts, TaskFinishes
  <2>3. InformedWhileOpen'
    BY <2>1, <2>2, InformedByTell DEF Streams
  <2>4. StreamHasTask'
    BY <2>1, <2>2 DEF Tell, Streams, StreamHasTask
  <2>5. SubscribedToOwn'
    BY <2>2 DEF Streams, SubscribedToOwn
  <2>6. QED
    BY <2>3, <2>4, <2>5 DEF Streams
<1>3. QED
  BY <1>1, <1>2

\* The frontend stops: every stream breaks, and none is registered.
LEMMA StreamsByRestart ==
    ASSUME Streams, TypeOK', FrontendRestarts
    PROVE  Streams'
<1>1. SubscribedToOwn' /\ InformedWhileOpen'
  BY PageAssumption DEF FrontendRestarts, SubscribedToOwn, InformedWhileOpen
<1>2. ASSUME NEW p \in Presses, gets'[p] # <<>>
      PROVE  gets[p] # <<>>
  <2>1. SUFFICES ASSUME gets[p] = <<>> PROVE FALSE
    OBVIOUS
  <2>2. gets'[p] \in Seq(Requests)
    BY DEF TypeOK
  <2>3. DOMAIN gets'[p] = DOMAIN gets[p]
    BY DEF FrontendRestarts
  <2>4. DOMAIN gets[p] = {}
    BY <2>1
  <2>5. ASSUME NEW s \in Seq(Requests), DOMAIN s = {}
        PROVE  s = <<>>
    BY <2>5, EmptySeq
  <2>6. QED
    BY <1>2, <2>2, <2>3, <2>4, <2>5
<1>3. StreamHasTask'
  BY <1>2 DEF FrontendRestarts, Streams, StreamHasTask, TypeOK
<1>4. QED
  BY <1>1, <1>3 DEF Streams

\* The steps of one press keep the streams of all.
LEMMA StreamsByPress ==
    ASSUME Streams, TypeOK', NEW p \in Presses,
           \/ \E s \in Numbers : SendNumber(p, s)
           \/ TaskIsQueued(p) \/ PostTimesOut(p) \/ PostSucceeds(p)
           \/ Registers(p) \/ ConnectionBreaks(p) \/ Reconnects(p)
           \/ HandleStarted(p) \/ HandleFinished(p)
    PROVE  Streams'
<1> USE DEF Streams, ledgerVars
<1>1. ASSUME NEW s \in Numbers, SendNumber(p, s) PROVE Streams'
  <2>1. StreamHasTask'
    BY <1>1 DEF SendNumber, StreamHasTask, TypeOK
  <2>2. SubscribedToOwn' /\ InformedWhileOpen'
    BY <1>1 DEF SendNumber, SubscribedToOwn, InformedWhileOpen
  <2>3. QED
    BY <2>1, <2>2
<1>2. CASE TaskIsQueued(p)
  <2>1. /\ source[p] = "none" /\ counter + 1 \in TaskIds
        /\ \A t \in TaskIds : status'[t] = status[t] \/ status'[t] = "QUEUED"
    BY <1>2 DEF TaskIsQueued, Queue, StreamHasTask, TypeOK
  <2>2. StreamHasTask'
    BY <1>2, <2>1 DEF TaskIsQueued, StreamHasTask, TypeOK
  <2>3. SubscribedToOwn'
    BY <1>2, <2>1 DEF TaskIsQueued, SubscribedToOwn, TypeOK
  <2>4. InformedWhileOpen'
    BY <1>2, <2>1 DEF TaskIsQueued, InformedWhileOpen
  <2>5. QED
    BY <2>2, <2>3, <2>4
<1>3. CASE PostTimesOut(p)
  <2>1. StreamHasTask'
    BY <1>3 DEF PostTimesOut, StreamHasTask, TypeOK
  <2>2. SubscribedToOwn' /\ InformedWhileOpen'
    BY <1>3 DEF PostTimesOut, SubscribedToOwn, InformedWhileOpen
  <2>3. QED
    BY <2>1, <2>2
<1>4. CASE PostSucceeds(p)
  <2>1. StreamHasTask' /\ SubscribedToOwn'
    BY <1>4 DEF PostSucceeds, StreamHasTask, SubscribedToOwn, TypeOK
  <2>2. InformedWhileOpen'
    BY <1>4, InformedFrame DEF PostSucceeds, Display, TypeOK
  <2>3. QED
    BY <2>1, <2>2
<1>5. CASE Registers(p)
  <2>1. StreamHasTask'
    BY <1>5 DEF Registers, CatchUp, Tell, StreamHasTask, TypeOK
  <2>2. SubscribedToOwn'
    BY <1>5, PageAssumption DEF Registers, SubscribedToOwn, StreamHasTask, TypeOK
  <2>3. QED
    BY <1>5, <2>1, <2>2, InformedByRegistration
<1>6. CASE ConnectionBreaks(p)
  <2>1. StreamHasTask' /\ SubscribedToOwn'
    BY <1>6 DEF ConnectionBreaks, StreamHasTask, SubscribedToOwn, TypeOK
  <2>2. InformedWhileOpen'
    BY <1>6, InformedFrame DEF ConnectionBreaks, TypeOK
  <2>3. QED
    BY <2>1, <2>2
<1>7. CASE Reconnects(p)
  <2>1. StreamHasTask' /\ SubscribedToOwn'
    BY <1>7 DEF Reconnects, StreamHasTask, SubscribedToOwn, TypeOK
  <2>2. InformedWhileOpen'
    BY <1>7, InformedFrame DEF Reconnects, Display, TypeOK
  <2>3. QED
    BY <2>1, <2>2
<1>8. CASE HandleStarted(p) \/ HandleFinished(p)
  <2>1. StreamHasTask' /\ SubscribedToOwn'
    BY <1>8 DEF HandleStarted, HandleFinished, StreamHasTask, SubscribedToOwn, TypeOK
  <2>2. QED
    BY <1>8, <2>1, InformedByHandling
<1>9. QED
  BY <1>1, <1>2, <1>3, <1>4, <1>5, <1>6, <1>7, <1>8

\* An answer changes one stage, and the display if it is a success.
LEMMA AnswerShape ==
    ASSUME Streams, NEW p \in Presses, NEW i \in 1..MaxGets,
           GetStatus(p, i) \/ GetResult(p, i) \/ GetTimesOut(p, i)
    PROVE  /\ UNCHANGED <<ledgerVars, sent, post, task, subscribed>>
           /\ gets[p] # <<>>
           /\ \A q \in Presses : q # p => gets'[q] = gets[q]
           /\ \/ UNCHANGED <<rows, result, source, feed>>
              \/ /\ StatusReply(task[p]).stage = "ok" /\ GetStatus(p, i)
                 /\ Success(p, Null)
              \/ /\ i \in DOMAIN gets[p] /\ gets[p][i].stage = "result"
                 /\ Success(p, gets[p][i].number)
<1>1. CASE GetStatus(p, i)
  BY <1>1 DEF GetStatus, Get, Streams, TypeOK
<1>2. CASE GetResult(p, i)
  BY <1>2 DEF GetResult, Get, Streams, TypeOK
<1>3. CASE GetTimesOut(p, i)
  BY <1>3 DEF GetTimesOut, Get, Streams, TypeOK
<1>4. QED
  BY <1>1, <1>2, <1>3

\* The answers of GETs leave the streams alone.
LEMMA StreamsByAnswer ==
    ASSUME Streams, TypeOK', NEW p \in Presses, NEW i \in 1..MaxGets,
           GetStatus(p, i) \/ GetResult(p, i) \/ GetTimesOut(p, i)
    PROVE  Streams'
<1>1. /\ UNCHANGED <<ledgerVars, sent, post, task, subscribed>>
      /\ gets[p] # <<>> /\ \A q \in Presses : q # p => gets'[q] = gets[q]
      /\ \/ UNCHANGED <<rows, result, source, feed>>
         \/ \E shown : Success(p, shown)
  BY AnswerShape
<1>2. StreamHasTask' /\ SubscribedToOwn'
  BY <1>1 DEF Streams, Success, StreamHasTask, SubscribedToOwn, TypeOK
<1>3. InformedWhileOpen'
  BY <1>1, InformedFrame DEF Streams, Success, Display, TypeOK, ledgerVars
<1>4. QED
  BY <1>2, <1>3 DEF Streams

\* Every step keeps the streams up to date.
LEMMA StreamsStep == Streams /\ [Next]_vars => Streams'
<1> SUFFICES ASSUME Streams, [Next]_vars PROVE Streams'
  OBVIOUS
<1>1. TypeOK'
  BY NextTypes DEF Streams
<1>2. CASE UNCHANGED vars \/ PressManually
  BY <1>1, <1>2 DEF Streams, StreamHasTask, SubscribedToOwn, InformedWhileOpen,
                    vars, pageVars, ledgerVars, PressManually
<1>3. QED
  BY <1>1, <1>2, StreamsByPress, StreamsByAnswer, StreamsByTask, StreamsByRestart DEF Next

\* The streams are well-typed, belong to the tasks of their presses, and are up
\* to date: for any number of presses, tasks, faults and restarts.
THEOREM StreamsAreInformed == PageSpec => []InformedWhileOpen
<1>1. PageSpec => []Streams
  BY StreamsInit, StreamsStep, PTL DEF PageSpec
<1>2. Streams => InformedWhileOpen
  BY DEF Streams
<1>3. QED
  BY <1>1, <1>2, PTL

-----------------------------------------------------------------------------
(* The result that is displayed.                                           *)

\* The invariant that results rest on, until the frontend is started again.
FirstLifeInv == Streams /\ FirstLife /\ (lives = 0 => OwnRedirects)

LEMMA FirstLifeInit == Init => FirstLife /\ OwnRedirects
BY DEF Init, FirstLife, OwnTask, ToldWhenFinished, OwnRows, OwnRedirects

\* In its first life the frontend forgets nothing: the step is not a restart.
LEMMA NoForgetting ==
    ASSUME TypeOK, Forget
    PROVE  lives' # 0
BY DEF TypeOK, Forget

\* A task that is finished stays so, and the streams of others are not told.
LEMMA FirstLifeByTask ==
    ASSUME FirstLifeInv, lives = 0, NEW t \in TaskIds,
           TaskStarts(t) \/ TaskFinishes(t) \/ ResultIsRecorded(t)
    PROVE  FirstLife'
<1> USE DEF FirstLifeInv, Streams, FirstLife
<1>1. CASE ResultIsRecorded(t)
  BY <1>1 DEF ResultIsRecorded, Record, pageVars, OwnTask, ToldWhenFinished, OwnRows
<1>2. CASE TaskStarts(t) \/ TaskFinishes(t)
  <2>1. UNCHANGED <<counter, number, sent, post, task, gets, rows, result>>
    BY <1>2 DEF TaskStarts, TaskFinishes, Start, Finish
  <2>2. OwnTask' /\ OwnRows'
    BY <2>1 DEF OwnTask, OwnRows
  <2>3. \A u \in TaskIds : status[u] = "FINISHED" => status'[u] = "FINISHED"
    BY <1>2 DEF TaskStarts, TaskFinishes, Start, Finish, TypeOK
  <2>4. PICK event \in FeedEvents :
            status'[t] = event /\ Tell(t, event, subscribed)
    BY <1>2 DEF TaskStarts, TaskFinishes, Start, Finish, FeedEvents, TypeOK
  <2>5. ASSUME NEW p \in Presses
        PROVE  /\ \A k \in DOMAIN feed'[p] :
                      feed'[p][k] = "FINISHED" => status'[task[p]] = "FINISHED"
               /\ gets[p] # <<>> => status'[task[p]] = "FINISHED"
    <3>1. /\ feed[p] # <<>> \/ gets[p] # <<>> => task[p] \in TaskIds
          /\ feed[p] \in Seq(FeedEvents)
      BY DEF StreamHasTask, TypeOK
    <3>2. gets[p] # <<>> => status'[task[p]] = "FINISHED"
      BY <2>3, <3>1 DEF ToldWhenFinished
    <3>3. CASE feed'[p] = feed[p]
      BY <2>3, <3>1, <3>2, <3>3 DEF ToldWhenFinished
    <3>4. CASE feed'[p] = Append(feed[p], event) /\ subscribed[t] = p
      <4>1. task[p] = t
        BY <3>4 DEF SubscribedToOwn
      <4>2. SUFFICES ASSUME NEW k \in DOMAIN feed'[p], feed'[p][k] = "FINISHED"
                     PROVE  status'[t] = "FINISHED"
        BY <3>2, <4>1
      <4>3. CASE k \in DOMAIN feed[p]
        BY <2>3, <3>1, <3>4, <4>1, <4>2, <4>3 DEF ToldWhenFinished
      <4>4. CASE k = Len(feed[p]) + 1
        BY <2>4, <3>1, <3>4, <4>2, <4>4
      <4>5. QED
        BY <3>1, <3>4, <4>2, <4>3, <4>4
    <3>5. QED
      BY <2>4, <3>3, <3>4 DEF Tell
  <2>6. ToldWhenFinished'
    BY <2>1, <2>5 DEF ToldWhenFinished
  <2>7. QED
    BY <2>2, <2>6
<1>3. QED
  BY <1>1, <1>2

\* An answer that is not "FINISHED" comes only to a page that had no reason to ask.
LEMMA FirstLifeByAnswer ==
    ASSUME FirstLifeInv, lives = 0, NEW p \in Presses, NEW i \in 1..MaxGets,
           GetStatus(p, i) \/ GetResult(p, i) \/ GetTimesOut(p, i)
    PROVE  FirstLife'
<1> USE DEF FirstLifeInv, Streams, FirstLife
<1>1. /\ UNCHANGED <<ledgerVars, sent, post, task, subscribed>>
      /\ gets[p] # <<>>
      /\ \A q \in Presses : q # p => gets'[q] = gets[q]
  BY AnswerShape
<1>2. post[p] = "shown" /\ number[task[p]] = sent[p] /\ status[task[p]] = "FINISHED"
  BY <1>1 DEF StreamHasTask, OwnTask, ToldWhenFinished
<1>3. OwnTask'
  BY <1>1 DEF OwnTask, ledgerVars
<1>4. UNCHANGED <<rows, result, feed>> \/ Success(p, sent[p])
  <2>1. task[p] \in TaskIds
    BY <1>2 DEF StreamHasTask
  <2>2. StatusReply(task[p]).stage # "ok"
    BY <1>2, <2>1 DEF StatusReply, At, RedirectTo
  <2>3. ASSUME i \in DOMAIN gets[p], gets[p][i].stage = "result"
        PROVE  gets[p][i].number = sent[p]
    BY <2>3 DEF OwnRedirects
  <2>4. QED
    BY <2>2, <2>3, AnswerShape
<1>5. OwnRows'
  <2>1. ASSUME NEW q \in Presses, "result" \in rows'[q]
        PROVE  post'[q] = "shown" /\ result'[q] = sent'[q]
    <3>1. CASE UNCHANGED <<rows, result>>
      BY <1>1, <2>1, <3>1 DEF OwnRows
    <3>2. CASE Success(p, sent[p]) /\ q # p
      BY <1>1, <2>1, <3>2 DEF OwnRows, Success, Display, TypeOK
    <3>3. CASE Success(p, sent[p]) /\ q = p
      BY <1>1, <1>2, <3>3 DEF Success, TypeOK
    <3>4. QED
      BY <1>4, <3>1, <3>2, <3>3
  <2>2. QED
    BY <2>1 DEF OwnRows
<1>6. ToldWhenFinished'
  <2>1. ASSUME NEW q \in Presses
        PROVE  feed'[q] = feed[q] \/ feed'[q] = <<>>
    BY <1>4 DEF Success, TypeOK
  <2>2. QED
    BY <1>1, <1>2, <2>1 DEF ToldWhenFinished, ledgerVars
<1>7. QED
  BY <1>3, <1>5, <1>6

\* Displaying something else shows no result.
LEMMA DisplayKeepsResult ==
    ASSUME TypeOK, NEW p \in Presses, NEW row, row # "result", Display(p, row)
    PROVE  \A q \in Presses : "result" \in rows'[q] <=> "result" \in rows[q]
BY DEF TypeOK, Display

\* The steps of one press that are neither GETs nor their answers.
LEMMA FirstLifeByPress ==
    ASSUME FirstLifeInv, lives = 0, lives' = 0, NEW p \in Presses,
           \/ \E s \in Numbers : SendNumber(p, s)
           \/ TaskIsQueued(p) \/ PostTimesOut(p) \/ PostSucceeds(p)
           \/ Registers(p) \/ ConnectionBreaks(p) \/ Reconnects(p)
           \/ HandleStarted(p) \/ HandleFinished(p)
    PROVE  FirstLife'
<1> USE DEF FirstLifeInv, Streams, FirstLife, ledgerVars
<1>1. ASSUME NEW s \in Numbers, SendNumber(p, s) PROVE FirstLife'
  <2>1. OwnTask' /\ OwnRows'
    BY <1>1 DEF SendNumber, OwnTask, OwnRows, TypeOK
  <2>2. ToldWhenFinished'
    BY <1>1 DEF SendNumber, ToldWhenFinished
  <2>3. QED
    BY <2>1, <2>2
<1>2. CASE TaskIsQueued(p)
  <2>1. /\ counter \in Nat /\ counter + 1 \in TaskIds /\ counter' = counter + 1
        /\ status' = [status EXCEPT ![counter + 1] = "QUEUED"]
        /\ number' = [number EXCEPT ![counter + 1] = sent[p]]
        /\ post[p] \in {"asked", "late"} /\ task' = [task EXCEPT ![p] = counter + 1]
        /\ post' = [post EXCEPT ![p] = IF @ = "asked" THEN "replied" ELSE "failed"]
        /\ UNCHANGED <<sent, feed, gets, rows, result>>
    BY <1>2 DEF TaskIsQueued, Queue, TypeOK
  <2>2. OwnRows'
    BY <2>1 DEF OwnRows, TypeOK
  <2>3. OwnTask'
    <3>1. SUFFICES ASSUME NEW q \in Presses, post'[q] \in {"replied", "shown"}
                   PROVE  task'[q] \in 1..counter' /\ number'[task'[q]] = sent[q]
      BY <2>1 DEF OwnTask
    <3>2. CASE q = p
      BY <2>1, <3>2 DEF TypeOK
    <3>3. CASE q # p
      <4>1. task[q] \in 1..counter /\ task[q] \in TaskIds /\ number[task[q]] = sent[q]
        BY <2>1, <3>1, <3>3 DEF OwnTask, StreamHasTask, TypeOK
      <4>2. task'[q] = task[q] /\ number'[task[q]] = number[task[q]]
        BY <2>1, <3>3, <4>1 DEF TypeOK
      <4>3. QED
        BY <2>1, <4>1, <4>2
    <3>4. QED
      BY <3>2, <3>3
  <2>4. ToldWhenFinished'
    <3>1. ASSUME NEW q \in Presses, feed[q] # <<>> \/ gets[q] # <<>>
          PROVE  task'[q] = task[q] /\ status'[task[q]] = status[task[q]]
      <4>1. post[q] = "shown"
        BY <3>1 DEF StreamHasTask
      <4>2. q # p /\ task[q] \in 1..counter /\ task[q] \in TaskIds
        BY <2>1, <4>1 DEF OwnTask, StreamHasTask
      <4>3. QED
        BY <2>1, <4>2 DEF TypeOK
    <3>2. \A q \in Presses : feed[q] \in Seq(FeedEvents)
      BY DEF TypeOK
    <3>3. QED
      BY <2>1, <3>1, <3>2 DEF ToldWhenFinished
  <2>5. QED
    BY <2>2, <2>3, <2>4
<1>3. CASE PostTimesOut(p) \/ PostSucceeds(p)
  <2>1. OwnTask'
    BY <1>3 DEF PostTimesOut, PostSucceeds, OwnTask, TypeOK
  <2>2. OwnRows'
    BY <1>3, DisplayKeepsResult DEF PostTimesOut, PostSucceeds, OwnRows, TypeOK
  <2>3. ToldWhenFinished'
    BY <1>3 DEF PostTimesOut, PostSucceeds, ToldWhenFinished
  <2>4. QED
    BY <2>1, <2>2, <2>3
<1>4. CASE Registers(p)
  <2>1. task[p] \in TaskIds /\ status[task[p]] # Null
    BY <1>4, NoForgetting DEF Registers, StreamHasTask
  <2>2. /\ UNCHANGED <<counter, status, number, sent, post, task, gets, rows, result>>
        /\ subscribed' = [subscribed EXCEPT ![task[p]] = p]
        /\ CatchUp(p)
    BY <1>4, <2>1 DEF Registers
  <2>3. OwnTask' /\ OwnRows'
    BY <2>2 DEF OwnTask, OwnRows
  <2>4. ASSUME NEW q \in Presses
        PROVE  \/ feed'[q] = feed[q]
               \/ q = p /\ status[task[p]] \in FeedEvents /\ feed'[q] = Append(feed[q], status[task[p]])
    BY <2>1, <2>2 DEF CatchUp, Tell, TypeOK, FeedEvents
  <2>5. ASSUME NEW q \in Presses, NEW k \in DOMAIN feed'[q], feed'[q][k] = "FINISHED"
        PROVE  status[task[q]] = "FINISHED"
    <3>1. feed[q] \in Seq(FeedEvents)
      BY DEF TypeOK
    <3>2. CASE feed'[q] = feed[q]
      BY <2>5, <3>2 DEF ToldWhenFinished
    <3>3. CASE q = p /\ feed'[q] = Append(feed[q], status[task[p]])
      <4>1. CASE k \in DOMAIN feed[q]
        BY <2>5, <3>1, <3>3, <4>1 DEF ToldWhenFinished
      <4>2. CASE k \notin DOMAIN feed[q]
        BY <2>5, <3>1, <3>3, <4>2
      <4>3. QED
        BY <4>1, <4>2
    <3>4. QED
      BY <2>4, <3>2, <3>3
  <2>6. ToldWhenFinished'
    BY <2>2, <2>5 DEF ToldWhenFinished
  <2>7. QED
    BY <2>3, <2>6
<1>5. CASE ConnectionBreaks(p) \/ Reconnects(p)
  <2>1. OwnTask'
    BY <1>5 DEF ConnectionBreaks, Reconnects, OwnTask
  <2>2. OwnRows'
    BY <1>5, DisplayKeepsResult DEF ConnectionBreaks, Reconnects, OwnRows
  <2>3. \A q \in Presses : feed'[q] = feed[q] \/ feed'[q] = <<>>
    BY <1>5 DEF ConnectionBreaks, Reconnects, TypeOK
  <2>4. ToldWhenFinished'
    BY <1>5, <2>3 DEF ConnectionBreaks, Reconnects, ToldWhenFinished
  <2>5. QED
    BY <2>1, <2>2, <2>4
<1>6. CASE HandleStarted(p) \/ HandleFinished(p)
  <2>1. OwnTask'
    BY <1>6 DEF HandleStarted, HandleFinished, OwnTask
  <2>2. OwnRows'
    BY <1>6, DisplayKeepsResult DEF HandleStarted, HandleFinished, OwnRows
  <2>3. /\ feed[p] \in Seq(FeedEvents) /\ feed[p] # <<>>
        /\ feed' = [feed EXCEPT ![p] = Tail(@)]
        /\ \A q \in Presses : q # p => gets'[q] = gets[q]
        /\ UNCHANGED <<status, task>>
    BY <1>6 DEF HandleStarted, HandleFinished, TypeOK
  <2>4. ASSUME NEW q \in Presses, NEW k \in DOMAIN feed'[q]
        PROVE  \E j \in DOMAIN feed[q] : feed'[q][k] = feed[q][j]
    <3>1. CASE q = p
      <4>1. /\ feed'[p] = Tail(feed[p])
            /\ Len(Tail(feed[p])) = Len(feed[p]) - 1
            /\ \A j \in 1..Len(Tail(feed[p])) : Tail(feed[p])[j] = feed[p][j + 1]
            /\ Tail(feed[p]) \in Seq(FeedEvents)
        BY <2>3, HeadTailProperties DEF TypeOK
      <4>2. k \in 1..Len(Tail(feed[p]))
        BY <2>4, <3>1, <4>1
      <4>3. k + 1 \in DOMAIN feed[p]
        BY <2>3, <4>1, <4>2
      <4>4. QED
        BY <3>1, <4>1, <4>2, <4>3
    <3>2. CASE q # p
      BY <2>3, <3>2 DEF TypeOK
    <3>3. QED
      BY <3>1, <3>2
  <2>5. gets'[p] = gets[p] \/ status[task[p]] = "FINISHED"
    <3>1. HandleFinished(p) => Head(feed[p]) = feed[p][1] /\ 1 \in DOMAIN feed[p]
      BY <2>3
    <3>2. QED
      BY <1>6, <3>1 DEF HandleStarted, HandleFinished, ToldWhenFinished
  <2>6. ToldWhenFinished'
    BY <2>3, <2>4, <2>5 DEF ToldWhenFinished
  <2>7. QED
    BY <2>1, <2>2, <2>6
<1>7. QED
  BY <1>1, <1>2, <1>3, <1>4, <1>5, <1>6

\* Every step of the first life keeps its invariant.
LEMMA FirstLifeStep == FirstLifeInv /\ [Next]_vars => FirstLife'
<1> SUFFICES ASSUME FirstLifeInv, [Next]_vars, lives' = 0 PROVE FirstLife'
  BY DEF FirstLife
<1>1. CASE UNCHANGED vars \/ PressManually
  BY <1>1 DEF FirstLifeInv, FirstLife, OwnTask, ToldWhenFinished, OwnRows,
              vars, pageVars, ledgerVars, PressManually
<1>2. CASE FrontendRestarts
  BY <1>2, NoForgetting DEF FirstLifeInv, Streams, FrontendRestarts
<1>3. CASE \E t \in TaskIds : TaskStarts(t) \/ TaskFinishes(t) \/ ResultIsRecorded(t)
  <2>1. lives = 0
    BY <1>3 DEF TaskStarts, TaskFinishes, ResultIsRecorded, Start, Finish, Record
  <2>2. QED
    BY <1>3, <2>1, FirstLifeByTask
<1>4. ASSUME NEW p \in Presses,
             \/ \E s \in Numbers : SendNumber(p, s)
             \/ TaskIsQueued(p) \/ PostTimesOut(p) \/ PostSucceeds(p)
             \/ Registers(p) \/ ConnectionBreaks(p) \/ Reconnects(p)
             \/ HandleStarted(p) \/ HandleFinished(p)
      PROVE  FirstLife'
  <2>1. lives = 0
    <3>1. lives \in Nat
      BY DEF FirstLifeInv, Streams, TypeOK
    <3>2. lives' = lives \/ lives' = lives + 1
      BY <1>4 DEF SendNumber, TaskIsQueued, Queue, PostTimesOut, PostSucceeds, Registers,
                  Forget, ConnectionBreaks, Reconnects, HandleStarted, HandleFinished, ledgerVars
    <3>3. QED
      BY <3>1, <3>2
  <2>2. QED
    BY <1>4, <2>1, FirstLifeByPress
<1>5. ASSUME NEW p \in Presses, NEW i \in 1..MaxGets,
             GetStatus(p, i) \/ GetResult(p, i) \/ GetTimesOut(p, i)
      PROVE  FirstLife'
  <2>1. lives = 0
    BY <1>5 DEF GetStatus, GetResult, GetTimesOut, ledgerVars
  <2>2. QED
    BY <1>5, <2>1, FirstLifeByAnswer
<1>6. QED
  BY <1>1, <1>2, <1>3, <1>4, <1>5 DEF Next

\* A GET comes with no redirect, and is redirected to the number of its task.
LEMMA RedirectStep == FirstLifeInv /\ [Next]_vars /\ lives' = 0 => OwnRedirects'
<1> SUFFICES ASSUME FirstLifeInv, [Next]_vars, lives' = 0 PROVE OwnRedirects'
  OBVIOUS
<1> USE DEF FirstLifeInv, Streams
<1>1. lives = 0
  <2>1. lives \in Nat
    BY DEF TypeOK
  <2>2. lives' = lives \/ lives' = lives + 1
    BY DEF Next, vars, ledgerVars, pageVars, SendNumber, TaskIsQueued, Queue, PostTimesOut,
           PostSucceeds, Registers, Forget, ConnectionBreaks, Reconnects, HandleStarted,
           HandleFinished, GetStatus, GetResult, GetTimesOut, TaskStarts, Start, TaskFinishes,
           Finish, ResultIsRecorded, Record, FrontendRestarts, PressManually
  <2>3. QED
    BY <2>1, <2>2
<1>2. OwnRedirects /\ OwnTask
  BY <1>1 DEF FirstLife
<1>3. CASE UNCHANGED <<sent, gets>>
  BY <1>2, <1>3 DEF OwnRedirects
<1>4. ASSUME NEW p \in Presses, NEW s \in Numbers, SendNumber(p, s)
      PROVE  OwnRedirects'
  <2>1. gets[p] = <<>>
    BY <1>4 DEF SendNumber, StreamHasTask
  <2>2. gets' = gets /\ \A q \in Presses : q # p => sent'[q] = sent[q]
    BY <1>4 DEF SendNumber, TypeOK
  <2>3. QED
    BY <1>2, <2>1, <2>2 DEF OwnRedirects
<1>5. ASSUME NEW p \in Presses, HandleFinished(p)
      PROVE  OwnRedirects'
  <2>1. /\ gets[p] \in Seq(Requests) /\ sent' = sent
        /\ gets' = [gets EXCEPT ![p] = Append(@, At("status"))]
    BY <1>5 DEF HandleFinished, TypeOK
  <2>2. At("status").stage # "result"
    BY DEF At
  <2>3. ASSUME NEW i \in DOMAIN gets'[p], gets'[p][i].stage = "result"
        PROVE  gets'[p][i].number = sent[p]
    <3>1. gets'[p] = Append(gets[p], At("status"))
      BY <2>1 DEF TypeOK
    <3>2. i # Len(gets[p]) + 1
      BY <2>1, <2>2, <2>3, <3>1
    <3>3. i \in DOMAIN gets[p] /\ gets'[p][i] = gets[p][i]
      BY <2>1, <2>3, <3>1, <3>2
    <3>4. QED
      BY <1>2, <2>3, <3>3 DEF OwnRedirects
  <2>4. \A q \in Presses : q # p => gets'[q] = gets[q]
    BY <2>1 DEF TypeOK
  <2>5. QED
    BY <1>2, <2>1, <2>3, <2>4 DEF OwnRedirects
<1>6. ASSUME NEW p \in Presses, NEW i, NEW from, NEW to, Get(p, i, from, to), sent' = sent,
             to.stage = "result" => to.number = sent[p]
      PROVE  OwnRedirects'
  <2>1. \A q \in Presses : q # p => gets'[q] = gets[q]
    BY <1>6 DEF Get, TypeOK
  <2>2. gets'[p] = [gets[p] EXCEPT ![i] = to]
    BY <1>6 DEF Get, TypeOK
  <2>3. ASSUME NEW j \in DOMAIN gets'[p], gets'[p][j].stage = "result"
        PROVE  gets'[p][j].number = sent[p]
    <3>1. j \in DOMAIN gets[p] /\ gets'[p][j] = IF j = i THEN to ELSE gets[p][j]
      BY <2>2, <2>3
    <3>2. QED
      BY <1>2, <1>6, <2>3, <3>1 DEF OwnRedirects
  <2>4. QED
    BY <1>2, <1>6, <2>1, <2>3 DEF OwnRedirects
<1>7. ASSUME NEW p \in Presses, NEW i \in 1..MaxGets,
             GetStatus(p, i) \/ GetResult(p, i) \/ GetTimesOut(p, i)
      PROVE  OwnRedirects'
  <2>1. \A stage : At(stage).stage = stage
    BY DEF At
  <2>2. CASE GetStatus(p, i)
    <3>1. post[p] = "shown"
      BY <2>2 DEF GetStatus, Get, StreamHasTask, TypeOK
    <3>2. number[task[p]] = sent[p]
      BY <1>2, <3>1 DEF OwnTask
    <3>3. StatusReply(task[p]).stage = "result" => StatusReply(task[p]).number = sent[p]
      BY <3>2 DEF StatusReply, RedirectTo, At
    <3>4. QED
      BY <1>6, <2>2, <3>3 DEF GetStatus
  <2>3. CASE GetResult(p, i)
    <3>1. PICK stage \in {"ok", "missing"} : Get(p, i, "result", At(stage)) /\ sent' = sent
      BY <2>3 DEF GetResult
    <3>2. QED
      BY <1>6, <2>1, <3>1
  <2>4. CASE GetTimesOut(p, i)
    <3>1. PICK from \in {"status", "result"} : Get(p, i, from, At("error")) /\ sent' = sent
      BY <2>4 DEF GetTimesOut
    <3>2. QED
      BY <1>6, <2>1, <3>1
  <2>5. QED
    BY <1>7, <2>2, <2>3, <2>4
<1>8. ~FrontendRestarts
  BY NoForgetting DEF FrontendRestarts
<1>9. QED
  BY <1>3, <1>4, <1>5, <1>7, <1>8
  DEF Next, vars, pageVars, TaskIsQueued, PostTimesOut, PostSucceeds, Registers,
      ConnectionBreaks, Reconnects, HandleStarted, TaskStarts, TaskFinishes,
      ResultIsRecorded, PressManually

\* As long as the frontend lives on, a page shows each number its own result, for
\* any number of presses, tasks, broken streams and requests that time out.
THEOREM ResultsAreOwn == PageSpec => []OwnResult
<1>1. Init => FirstLifeInv
  BY StreamsInit, FirstLifeInit DEF FirstLifeInv
<1>2. FirstLifeInv /\ [Next]_vars => FirstLifeInv'
  BY StreamsStep, FirstLifeStep, RedirectStep DEF FirstLifeInv
<1>3. FirstLifeInv => OwnResult
  BY DEF FirstLifeInv, FirstLife, OwnRows, OwnResult
<1>4. QED
  BY <1>1, <1>2, <1>3, PTL DEF PageSpec

=============================================================================
