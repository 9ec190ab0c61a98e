# Prime Tester: specifications and proofs

TLA+ modules for Prime Tester, a web application that tests numbers for
primality on a cluster of Akka actors, and for the jQuery 2.0.3 that its page
ships. Paths below are relative to `src/main/java/io/onqi/primetester/`, or to
`src/main/webapp/js/` for `engine.js`; plain line numbers in the jQuery sections
are lines of `jquery-2.0.3.js`.

## The system

A page posts a number and gets a task id back. It opens a server-sent event
stream for the task, is pushed the status changes `STARTED` and `FINISHED`, asks
for the task again, is redirected to the result of the number, and displays it.

```
 engine.js --REST--> TasksEndpoint --> TaskStorage --> ClusterProxy --> router pool
  (jQuery)              |                 ^                                |
    ^      event stream |                 |          topic                 v
    +-------------------+                 +----- statusMessages <------- Worker
    |                                     v                        (on worker nodes)
    +----REST--> ResultsEndpoint --> ResultStorage
```

| part | state it keeps | operations | hard behaviour |
|---|---|---|---|
| `actors/TaskStorage` | id counter, status and number of each task, one broadcaster per task | new task, status change, register a stream, get status | status changes interleave with registration; a registration for an unknown task throws (`TaskStorage.java:105`) and the supervisor replaces the instance, with empty maps and the counter at 0 |
| `actors/ResultStorage` | result by number string | store result, get result | gets each result through its own mailbox, so it can be behind TaskStorage |
| `actors/ClusterProxy` and router pool | the routees on live worker nodes | forward | at most one delivery: no acknowledgement, no retry, dead letters when there is no routee |
| `actors/Worker` | the task at hand | calculate: publish started, test, publish finished | dies between the two messages |
| topic `statusMessages` | subscribers | subscribe, publish | a subscriber that comes late misses events |
| frontend process (`ActorSystemHolder`) | starts the three actors above | start, shutdown | everything is in memory; workers of the last frontend go on publishing about ids that are handed out again |
| `rest/*` | none; asks with a 2 s timeout | create task, status, stream, result | timeouts racing with late answers, redirect before the result is stored, a callback that throws and leaves its request hanging |
| `engine.js` | rows, event streams | send number, follow task, get result, manual button | a stream breaks and reconnects and takes the place of the old one; each GET is tried once, with no handler for errors |
| `WorkerCluster` | none | start worker nodes | the actors it creates under `/user/worker` get no work, as the router is a pool that creates its own |
| jQuery callbacks, deferreds, ready | a list and the indexes of the loop that calls it; three lists; one counter | add, remove, fire, lock, disable, resolve, notify, holdReady | a callback uses the list that is calling it |
| jQuery ajax, conversion, JSONP | closures of each request, `jQuery.active`, names in `window` | send, abort, answer, time out, convert | answer, abort and timeout race; handlers start and abort requests in the middle of others |
| jQuery events | handlers by element and type, counts, `triggered` | on, one, off, trigger, dispatch | handlers rearrange the handlers and trigger events while an event is under way |
| jQuery effects, queue, show and hide | queues with a sentinel, timers and one interval, notes of old styles | animate, delay, stop, finish, promise, clearQueue, show, hide, toggle | who dequeues the next item, when the promise resolves, what a stopped animation leaves |
| jQuery data, manipulation | caches by number; flags of scripts | data, removeData, append, clone, detach, remove | caches outlive and precede nodes; a script is inserted by another script |
| Sizzle | run number, matcher and notes at nodes | find | notes of one search are read by another, and a search runs inside another |

What makes the parts correct:

- Worker: the calculation ends, and is right, for every number.
- TaskStorage: no task is forgotten, its status only moves forward, its stream is
  told the status, every id given out is known.
- ResultStorage: there is a result for every task that is finished, at the latest when its
  mailbox is worked off.
- Page: a number that was posted becomes a task, and the result displayed for it is
  its own.
- jQuery: a function is called as often, in the order and at the time its caller was
  promised, however callbacks use the object that is calling them.

## The modules

| module | models |
|---|---|
| `Primality` | reference definition of what a worker has to answer (`Verdict`) |
| `TrialDivision` | `Worker.checkIsPrime` and `approximateRoot`, one action per loop step |
| `Protocol` | the messages, and the channels between the actors |
| `TaskStorage`, `ResultStorage` | the actors of these names, and the event streams |
| `StatusTopic` | the topic `statusMessages`, modelled from its use (external) |
| `WorkerPool` | `ClusterProxy`, its router pool, and `Worker` around the calculation |
| `PrimeTester` | all actors together, clients, and the restart of the frontend; the properties |
| `TaskLedger` | abstract: tasks and results as clients see them, without actors; `PrimeTester` implements it |
| `Page` | `engine.js` and the REST endpoints, composed with the actions of `TaskLedger` |
| `CallbackRounds` | abstract: what a callback list promises, without indexes |
| `Subsequences` | parts of sequences by the positions they keep, which proofs can count |
| `CallbackList`, `Callbacks` | `jQuery.Callbacks`: its operations, and a list in use by its own callbacks; implements `CallbackRounds` |
| `Promise` | abstract: what a Deferred promises, without lists |
| `Deferred` | `jQuery.Deferred` made of three callback lists; implements `Promise` |
| `Ready` | `jQuery.ready`, `holdReady` and the browser's two events |
| `Ajax`, `AjaxConvert`, `Jsonp` | the life of a request; the conversion of its response; JSONP callbacks |
| `Events` | `jQuery.event`: add, remove, dispatch, trigger |
| `Fx`, `ShowHide` | the fx queue with timers; the styles that show, hide and toggle write |
| `Scripts`, `DataStore` | which scripts `domManip` evaluates; `Data` and `jQuery.fn.data` |
| `Selectors` | Sizzle's compiled matchers and their caches, against what selectors mean |
| `RequestParts`, `CallbackParts`, `DocumentParts` | the parts of a request, of callbacks, and of what elements keep, side by side (see below) |
| `MCTrialDivision`, `MCPrimeTester`, `MCPage`, `MCCallbacks`, `MCRequests`, `MCEvents`, `MCEffects`, `MCDocument`, `MCSelectors` | instances for TLC |
| `SubsequenceProofs` | lemmas on `Subsequences`, for the proofs about callbacks and events |
| `PrimeTesterProofs` (with the calculation of `TrialDivision`), `PageProofs`, `RequestProofs`, `CallbackProofs`, `DocumentProofs`, `EventsProofs`, `FxProofs` | theorems |

A definition whose comment starts with "Mutant" is a wrong variant of the
definition that follows it. It is in no specification; `PROJECT.json` names the
property that TLC finds violated when it takes the place of the right one.

### The actors

**Channels.** Akka orders the messages of one sender to one receiver and nothing
else. `toProxy`, `toWorker[w]` and `mail[storage][w]` are the channels; a mailbox is
the merge of the channels that end in it, so an actor may take the head of any of
them. Requests of clients are handled in any order, so an action is the handling of
one request (`CreateTask`, `Watch`). The requests that only read have no action:
`TaskStatus` and `HasResult` are their replies.

**TaskStorage.** `id`, `statuses`, `tasks` and `subscriptions` are the four fields of
the class; a map is a function with `Null` where it has no entry.
`RecordStateChange` and `RegisterKnown` include the broadcast the handlers end in.
`RegisterUnknown` is the registration that throws: `NewInstance` follows, the
mailbox stays. The new instance's `preStart` subscribes the same actor again, which
changes nothing. `watching` and `events` are the client's side of a stream: what it
was opened for and what it was sent.

**Worker.** `BeginCalculation` and `EndCalculation` are the two halves of
`Worker.calculate`; others may act, and the node may die, in between. A
`CalculationFinished` carries `Verdict` of its number: that the code between the
halves computes `Verdict` is what `TrialDivision` is about.

**Pool.** An element of `Workers` is one routee. `routees` is what the router believes:
it may still hold a routee of a dead node (`ForwardToDeadLetters`), and may have
dropped one that is alive and goes on publishing (`RemoveRoutee`). The choice of the
smallest mailbox is not modelled: mailbox sizes of remote routees are unknown to the
router, so any routee may be chosen.

**Topic.** One message carries an event to the frontend's node, where it goes to those
of the two storages that have subscribed. A loss there hits both.

**History variables.** `lost[s]` holds the tasks of which a message that storage `s`
needs was dropped: the assignment in dead letters, or with a crashed routee, or a
`CalculationFinished` nobody carried. No action looks at it, nor at `faults` and
`restarts` except to bound them. `told` is what clients know.

### What clients see, and the page

**TaskLedger** has one action for each thing that may happen to tasks and results:
`Queue`, `Start`, `Finish`, `Record`, `Forget`. In the first life of the frontend its
guards are the promise (ids without gaps, status forward, results only of numbers that
were submitted); after `Forget` they are weaker, as the code is. `PrimeTester!KeepsLedger`
is the refinement: `counter <- id`, `status <- statuses`, `number <- tasks`,
`verdicts <-` the numbers with a result, `lives <- restarts`.

**Page** has the ledger for a frontend, so that the channels of the actors need not be
explored with the page, and adds the endpoints and the browser. `post` is a POST on its
way through TaskStorage's mailbox, with or without a client that still waits; `gets`
are the GETs of a press, at TaskStorage, after the redirect at ResultStorage, answered,
or never answered (`"hung"`, `rest/TasksEndpoint.java:136`). `source` and `feed` are the
EventSource of a press, `subscribed` the broadcaster that TaskStorage holds for the task.
`Registers` is the handler of the actor with the event it sends at once. `listeners` is
which controls have a handler.

### jQuery

JavaScript runs one thing at a time; the interleaving is re-entrance. Where code of the
page is called (a callback, a handler, a script), the model stops, and any bounded
operation may come before it goes on. What is under way is kept as data: `at` in
`Callbacks`, the stack `running` of lists in `Deferred`, the stack of `<<request, point>>`
in `Ajax`, `frames` in `Events`, the jobs `todo` in `Fx`, the loops `pending` in `Scripts`.

- **Callbacks.** The record `L` has the closure's variables. An index counts from 0 as in
  the code. `at` says whether the loop is between two callbacks or in one. Every
  combination of the four options is an initial state. `KeepsPromise` maps the callbacks of
  the list from `firingIndex` to `firingLength` (`Unvisited`) to those a round has left; it
  also says that a stacked fire waits its turn and is not left waiting. `Pushed` and
  `RemoveAll` say what the loops of `add` and `remove` do: a removed callback takes down
  both bounds of the loop if it is at or before them.
- **Deferred.** Its tuples are three lists; the first callbacks of done and fail
  (`OwnCallbacks`) set the state, disable the other list and lock progress.
- **Ready.** `stack` has the loops that are calling functions: of the list, for `resolveWith`
  or for a later `add`, and of the event `ready`. The functions may wait, bind, hold and release
  themselves, and throw. `LeftFiring` says that one has thrown amid the list: then those behind it
  are never called, as the list believes to be firing.
- **Ajax.** `q[r]` has the closure of request `r`: state, timer, transport, callback.
  `CallPoints` and `DonePoints` are the places at which `ajax()` and `done()` call the
  page. **AjaxConvert** starts from every set of at most two converters and every list of
  types, and does a round of the loop per step. A value is the set of the types it may be taken
  for: the one that made it, and those a declared equivalence (a converter that is `true`) adds;
  a function that is given anything else makes nothing of any type. No responses at all are
  `None`, with which `"*"` stays in the list, and not the same as none that fits. **Jsonp** has
  one name of `window` per request, the names made up, and scripts that arrive when they like: an
  XMLHttpRequest's text is evaluated also if it is that of an error (7350), and a tag's script
  also after its request was aborted. `habits` says whether the page shares names among
  open requests and whether it aborts tags; `JsonpInv` says what is kept with each habit.
- **Events.** An element and its ancestors; a frame is an event on its way, with the
  handlers that were fixed for the element it is at. `native` and `capturing` are the
  browser's listeners. `past` is history: which handlers bound by `one()` ran, which of them
  ran again, and what events still had to call (`Pending`) when a handler triggered another.
- **Fx.** A call is a sequence of jobs; a job that calls a function puts that function's
  jobs in front. `item` is an animation or delay, `timers` and `interval` are
  `jQuery.timers` and `timerId`. A handler is a job of its own, before the call of `dequeue` that
  follows it in `opt.complete`, and `opts.always` one after it. `AnimateEmpty` is `animate` with no
  properties, which runs at once and yet dequeues. A handler that throws ends all jobs;
  `lost` remembers the elements that lost a call. The callbacks `start`, `step` and `progress` are
  not modelled. **ShowHide** has the inline styles and the notes
  `olddisplay` and `fxshow` for one element.
- **Scripts.** `globalEval` is what jQuery noted; the browser evaluates nothing itself, as
  `disableScript` masks the type of every script while it is inserted. A loop of `domManip`
  decides for each script when it gets to it. Scripts are detached and removed one by one or with the
  element that holds them. **DataStore** has the
  caches by number, with the two spellings of a dashed key.
- **Selectors.** `memo` has Sizzle's `dirruns`, `cachedruns` and `outermostContext`, and in
  `cache` the notes at the nodes. A find threads it through, `:has` and `:not` included. `Means` is the reference, in terms of ancestors and siblings only.

## Runs

All runs switch deadlock off: a calculation ends, and a system whose bounded
counters are used up stops.

| run | config | what it shows | bounds |
|---|---|---|---|
| `trial_division` | `MCTrialDivision.cfg` | the worker's loops end (`Termination`), with the right verdict (`VerdictCorrect`), whatever composite numbers `nextProbablePrime` returns on the way; the loop invariants (`CalculationInv`) | all numbers up to 1500: 0, 1, 2, squares of primes, neighbours of squares and powers of two |
| `first_life` | `MCPrimeTester.cfg` | as long as TaskStorage is not restarted: `FinishedHasResult`, `StreamOrdered`, `StatusNeverRegresses`; always: `NoSilentStall`, `SubscriberInformed`; the refinement `KeepsLedger`; the inductive invariant `OrderInv` | 2 tasks, 2 numbers, 2 routees, 2 streams, 1 crash or loss; symmetry of routees and of streams |
| `restarts` | `MCRestarts.cfg` | `NoSilentStall`, `SubscriberInformed` and `KeepsLedger` across restarts of the process and of TaskStorage; an id that the running TaskStorage has given out has a status and a number, so that a status request for it is answered (`ToldIsKnown`) | 1 task per life with 2 numbers, so that id 1 is reused for another number; 1 process restart; a stray id and 2 streams, hence up to 2 restarts of TaskStorage |
| `liveness` | `MCLiveness.cfg` | `TaskFinishes`, `ResultArrives`, `StreamFinishes` | 2 tasks, 1 number, 2 routees, 1 stream, 1 crash or loss; no symmetry |
| `page` | `MCPage.cfg` | results are not mixed up (`OwnResult`), a stream that took the place of another is up to date (`InformedWhileOpen`), a number becomes a task although its ask timed out (`PostedIsQueued`), the result of a task that is FINISHED is displayed although the stream breaks, unless the one GET for it failed (`ResultIsShown`) | 2 presses, 2 numbers, 2 GETs each, 1 broken stream, timeout or stray event, 1 restart |
| `page_manual` | `MCPageManual.cfg` | a finding: `ManualWorks` is violated | as `page`, without faults |
| `callbacks` | `MCCallbacks.cfg` | `ListKeepsPromise`, `DeferredKeepsPromise` (refinements); what waits for the document or a settled Deferred runs in the end (`WaitersRun`) | 2 functions; list: 3 fires, 4 uses, all 16 options; Deferred: 5 uses; ready: 3 holds |
| `requests` | `MCRequests.cfg` | `ActiveCounts`, `RequestInv` (one outcome and one report, nothing left behind), `FirstCauseWins`; `ConversionInv`; `JsonpInv`; all of them end (`RequestsEnd`) | 2 requests with 6 kinds of settings; 3 types, 2 converters; 3 JSONP requests with and without shared names and aborted tags |
| `events` | `MCEvents.cfg` | `NoHandlerMissed`, `EventsInv` (listeners, counts, `one`, `triggered`) | an element and its parent; a plain handler, one by `one()` with a namespace, a delegate; 5 calls, events 3 deep |
| `effects` | `MCEffects.cfg` | `FxInv` (one item at a time, the sentinel, the interval), `EmptyMeansComplete`, `QueuesDrain` | 3 items on 2 elements with handlers that animate; 2 items on 2 elements, and 3 on 1, with stop and finish; `clearQueue` and `animate` with no properties; delays with stop and finish; handlers that throw, among 3 items, and where 2 are stopped and finished |
| `document` | `MCDocument.cfg` | `ScriptInv` (a script is evaluated when it is first inserted, and only then); `DataInv` (data stays with its node and reads as written); `ShowHideInv` (a hidden element is shown as it was), `ToggleReverses` | 3 scripts, 5 calls; 2 elements, a text, 2 values, 7 calls; one element's styles, any number of calls |
| `selectors` | `MCSelectors.cfg` | `SelectorsInv`: a query finds what its selector means, in document order, whatever was noted before | every document of 4 elements with 2 tags; 10 selectors with all combinators, groups, `:not`, and `:has` alone, in the middle and at the left; 2 queries in a row |

Why the bounds are enough for the cases to happen. Two tasks and two routees are the
fewest for tasks to overtake one another and for events of different workers to be
merged in either order; two streams, for one to replace the other on the same task; two
presses, for a redirect to name the number of the wrong task; one fault, for a stream to
miss FINISHED. Three fires are a fire, one from inside it and one from inside that; two
requests are the fewest for one to start or end within the other; three JSONP requests,
for a name to be freed, used and freed again; three items, for one to run, one to wait
and one to be added by a handler; three scripts, for one to act on one before and one
after it. Two queries are the fewest for a note to be stale.
All the bounds are bounds of the model only; the proofs hold for all values of the
constants that the named assumptions allow.

**Parts side by side.** `CallbackParts`, `RequestParts` and `DocumentParts` instantiate
several modules that share no variable of the code, and `MCEffects` one module for several
pages. A behaviour is one of one part, which
`part` names; the others stay as they began. So each part is explored as it would be
alone, and a property of one is checked in all of its behaviours. Interaction is inside a module
where there is any in the code.

**What holds with a proviso.** `FinishedHasResult` says "stored, in ResultStorage's
mailbox, or dropped", not "stored". A client that follows the redirect at once may be
answered 404; `ResultArrives` says the result comes when nothing was dropped.
`NoSilentStall` says that only a dropped message leaves a task QUEUED or STARTED for
ever; nothing in the code detects or repeats one. `StatusNeverRegresses` holds before the first
restart and not after it, as a restarted TaskStorage takes events of old tasks for those of
new ones; `ToldIsKnown` says what is left: they do not take the number from an id that was given
out. `ResultIsShown` is about tasks that are FINISHED, which neither router nor workers guarantee,
and leaves out a GET that timed out or was answered 404 because the result was not stored yet:
the page asks once (engine.js:36). `WaitersRun` leaves out functions that wait behind
one that threw, and `QueuesDrain` the queues of elements that lost a call to a handler that
threw, and promises that wait for a delay `finish` has cleared.

**Finding.** `page_manual`: index.html:43-44 offers "Get test results (manually)", but the
button has no handler. `engine.js:7` keeps the jQuery object in `getResult`;
`engine.js:78` calls `click` on `getResultBtn`, the element itself that browsers put into
`window` under its id, whose `click()` takes no handler.

### What the bounds leave out

Each of these is a behaviour of the code that a bound of a run excludes, and for which the
property named would not hold. The module can express it: the constant in brackets, or a
use that is added to the instance, lets it in.

| where | what happens | bound |
|---|---|---|
| 7300 | a request aborted in ajaxSend goes through `done` twice: `RequestInv` | `Ajax` [`AbortPoints`] |
| 7400 | a handler that throws before the request is uncounted leaves `jQuery.active` too high: `ActiveCounts` | `Ajax` [`ThrowPoints`] |
| 4597 | `trigger` calls the property `on<type>` of each element on the path after its handlers; code there may do what handlers do: `EventsInv` | `Events`: no element has one |
| 4625 | a `trigger` in a listener that is not jQuery's resets `triggered` under the outer trigger: `EventsInv` | `Events` [`ForeignTriggers`] |
| 3664 | `clearQueue` while an item runs drops the sentinel, and the next animation starts beside it: `FxInv` | `Fx` [`PageUses`] |
| 8022 | an unqueued animation of no duration resolves the promise before its complete handler: `EmptyMeansComplete` | `Fx` [`"instant unqueued"`] |
| 8353 | `animate` with no properties dequeues although it was not queued: with a queued item running, the next starts beside it, or the promise resolves: `FxInv`, `EmptyMeansComplete` | `Fx` [`PageUses`: `empty` is not with `animate`] |
| 8371 | `stop(true)` during a delay dequeues first, which removes the hooks with the delay's `stop`; the timeout stays and dequeues a second time: `FxInv` | `Fx` [`PageUses`: `delay` is not with `stop and clear`] |
| 8394 | `stop(false, true)` with an unqueued animation and a delay leaves the queue waiting: `QueuesDrain` | `Fx` [`PageUses`: `delay` and `stop` are not with `unqueued`] |
| 8394 | handlers that animate after a `stop(true)` or `finish`, or stop in their own animation's complete handler: `FxInv` | `Fx` [`HandlerUses`] |
| 3611 | a dashed key set by `.data({...})`, or removed in one spelling, can read as an older value: `DataInv` | `DataStore` [`ObjectKeys`, `RemovedKeys`] |
| 5494 | `remove` drops the flag of a script that was evaluated, and inserting it again evaluates it again: `EvaluatedOnce` | `Scripts` [`removes`]: with it, `ScriptsInv` claims `NoneLeftOut` only |
| 5829 | a script that is moved by another before its turn may never be evaluated: `NoneLeftOut` | `Scripts` [`reentrant`]: with it, `ScriptsInv` claims `EvaluatedOnce` only |
| 386 | `holdReady(false)` with nothing held counts the document off: `WaitersRun` | `Ready` [`Unbalanced`] |
| 2992 | `empty()` inside a callback makes a disabled list live again: `ListKeepsPromise` | `Callbacks` [`EmptyWhileFiring`] |
| 8189 | a toggle that is stopped and followed by `show` takes the size for the direction: `ToggleReverses` is about toggle after toggle | `ShowHide`: `asked` |
| 2661 | `:has` of a selector with `~` or `+`, left of another part, misses elements: `SelectorsInv` | `Selectors` [`Sel`] |

`Selectors` also leaves out positional and child pseudo-classes, attributes, the tokenizer, the
shortcut for ids and `querySelectorAll`; `ShowHide` two animations at once and elements
that are not in the page.

### Fairness

- `FairSpec` of `PrimeTester`: weak fairness for the message handling of each actor (the
  dispatcher schedules an actor with a message), for the end of a calculation
  (`Termination`) and for the subscriptions sent in `preStart`. Clients, faults and
  changes of the pool have none.
- `FairPageSpec`: messages at the endpoints are handled; a browser connects again after a
  broken stream and handles the events it has. Users, broken connections, timeouts and
  restarts have none, and neither have the steps of the tasks: that a task starts,
  finishes and has its result stored is not assumed.
- `AllSpec` of the jQuery instances: code that was called goes on (JavaScript is not
  suspended), a handler, a function or a script returns or throws, a timer comes due, the document loads. The timers
  of `Fx` have strong fairness, since they come due only between two turns. Nothing is
  assumed of a server: that a request ends is promised only for those with a timeout, an
  abort or an answer.

## Proofs

`tlapm` checks the eight proof modules, for every value of the constants.

`PrimeTesterProofs`, on the calculation of a worker (`TrialDivision`): `CalculationCorrect`
says that `checkIsPrime` answers `Verdict(n)` for every natural number. The invariant behind
it, `CalculationInv`: while the root is halved,
`(2 * half + 1)^2 > n`, so `(root + 1)^2 > n` afterwards; and nothing from 2 up to the
current divider divides `n`. The least divider of a composite number is at most its
square root, hence at most `root`, so the loop does not stop before it. The root is
even and at most `n`, so an odd prime is above it and is not taken for its own
divider. Going to the next probable prime skips only composites, whose least divisor
was tried before.

On the actors, in the same module: `Inductive` proves `IInv`, and each safety theorem follows from it.
The properties are not inductive by themselves; `IInv` adds

- `StartIsFollowed`, for `NoSilentStall`: a `CalculationStarted` in TaskStorage's mailbox
  has its `CalculationFinished` behind it in the same channel, or the task is still
  running there, or the finish was dropped. Without it, handling the start could leave a
  STARTED task with nothing to come;
- `SubscriptionIsWatched`, for `SubscriberInformed`: one stream is registered for at most
  one task, so a broadcast for one task is no event of another;
- `IdsAreNumbered`, for `ToldIsKnown`: in every life the ids up to the counter, and no others,
  have a number, and they have a status;
- `AssignmentsMatch`, `FinishesMatch`, `TasksAreKnown` and `FinishHasResult`, for
  `FinishedHasResult` and for what `ToldIsKnown` says of the first life: before the first restart, what travels about a
  task carries the number TaskStorage recorded for it, and a finish on its way to
  TaskStorage has its counterpart at ResultStorage or in `lost`.

Theorems: `TypeCorrect`, `Inductive`, `NothingStalls`, `SubscribersAreInformed`, `FinishedTasksHaveResults`, `ToldTasksAreKnown`.

The order in which things happen to a task: `OrderInductive` proves
`OrderInv`, which is `IInv` and, until the first restart,

- `OnePlace`: a task is on its way to the router, in the mailbox of one routee, in that
  routee's calculation, or finished on its way back, never in two of these;
- `StartIsAhead` and `ChannelsInOrder`: while its start is on its way, a task is QUEUED and
  nowhere but where the start came from, and its finish, if any, is behind the start in
  the same channel. Two channels can deliver in any order, but they never carry
  events of one task;
- `StatusInStep` and `StreamsInStep`: the status is not ahead of the place, and a stream
  has been sent no more than the status allows.

So a start is only handled for a QUEUED task and a finish for one that is not FINISHED.
From that `StreamsAreOrdered` and `StatusesNeverRegress`, and `ImplementsLedger`: every
step is a step of `TaskLedger` or leaves what clients see as it was. A restart is
`Forget`, after which the ledger promises little.

`PageProofs`: the page, with the tasks behind it.

- `StreamsAreInformed` (`InformedWhileOpen`), from `Streams`: `StreamHasTask` (a stream is
  opened for a press whose task the page was told, and only an open one has events) and
  `SubscribedToOwn` (the stream registered for a task was opened for that task, so what a
  status change sends is about the task of the press that gets it).
- `ResultsAreOwn` (`OwnResult`), from `Streams` and `FirstLife`, which holds until the
  first restart: the task the page was told is the one its number was given (`OwnTask`),
  a GET follows FINISHED (`ToldWhenFinished`), a redirect keeps the number the task had when its
  status was read, which is that of the task (`OwnRedirects`), and the rows are written from
  it (`OwnRows`).

`RequestProofs`: any number of requests, that start, abort and end inside one another's
handlers. `AjaxInv` says what a closure holds before, while and after its request is on its
way (`StatesInv`), what is known of a request that is inside a handler, by the place
(`FramesInv`), that no request is inside `ajax()` or `done()` twice (`FramesOnce`), that
what is further in was called by a handler (`CalledByHandlers`), that `jQuery.active` is the
number of requests that were counted and are not yet uncounted (`CounterInv`, with
`StopsLast` for ajaxStop), and that a request with an outcome is completed or about to be
(`CompletesInv`). From it `RequestsAreCounted`, `RequestsCleanUp` and `FirstCauseDecides`.
The hypothesis `CarefulHandlers` (no abort in ajaxStart or ajaxSend; only ajaxStop handlers
throw) is what lines 7300 and 7400 above require; without it the properties are false.

In the same module, `ConversionIsSound`, from `WayInv`: the types still to come are the rest of
those that were asked for, those behind were linked by converters (`OnTheWay`), and the value
may be taken for the type `current` (`ValueOfCurrentType`). A function that is given a value
of another type makes the empty set of types of it, which is of no type; so the invariant says
that this happens at no round. A response is missing only if the transport had none.

`CallbacksAreLent`, from `LendingInv`, for any number of JSONP requests and with every choice of
`habits`. What `window` holds under a name, what the requests remember as overwritten, and
the names that may be lent again, determine one another (`Lender`, `Lent`); no name is lent
twice. `Delivery` counts where a response is: it is still in its script, or in one container, or
one request ended with it, or the page was told, so that no two get it. Each request gets its own
if names are not shared and tags not aborted; a shared name is put back by the request that
ends first (7721), and the script of an aborted tag calls whatever has the name by then
(7729), so with these habits less is claimed, as the properties say one by one.

`CallbackProofs`: `ListIsKept`, that `Callbacks` implements `CallbackRounds` for every
set of functions. `ListInv` says that `firingLength` is the length of the list while it is called,
that `firingIndex` stays where the loop can go on from (`LoopOK`), and that the stack has
later values, in order, and only while the list is being called (`ListOK`). Each method is a
step of the rounds or none; lemmas on `Rank`, `Place` and `Without`, in `SubsequenceProofs`, show that
a callback taken out moves the index by as many as were before it, so that what is left
of a round is what was left, without the callback. The hypothesis is `~EmptyWhileFiring`
(line 2992 above).

In the same module, `DeferredIsKept`, that `Deferred` implements `Promise` for every set of
handlers, which may use the Deferred while it calls them, or throw. `DeferredInv` has four
parts. `PhaseInv`: the Deferred is `Pending` (both lists of outcomes unfired, their own
callbacks in front), `Settling` (its innermost list is at own callback 0, 1 or 2, and the
other list and the progress list are as far as the callbacks before that have taken
them) or `Settled` (the other list is disabled, the progress list fired or dead and its
stack gone). `ListsInv`: a list that is being called and is not the innermost one is at a
handler (`AtHandler`), and one whose handler threw stays so. `RunningInv`: the lists being
called are different ones. `ProgressInv`: no value in the progress list, remembered,
waiting or being passed, is late; without the stack, a notify made while a handler settles
the Deferred could bring one in. `OwnFirstOwes`, `OpenOwes` and the lemmas after them say
what `Handlers` of the rest of a list is in each phase: an own callback does not change it, a
call takes its head, and an add appends to it.

`DocumentProofs`: `DataIsKept` (`DataInv`), for every set of elements and texts. `StoreInv`:
the numbers given out are as many as the elements that have one, so that the next is
nobody's and an entry that is there belongs to one element; `cleanData` takes the entry
and leaves the number. `Agrees`: an entry has a dashed copy only beside the camel one,
and both hold what the history says they should read. Each method changes the entry of
one owner (`KeepNode`), and none of a text (`KeepText`). The hypothesis `OneSpelling` is what
line 3611 above requires: keys set by object are in camel case and those removed are
dashed; without it the property is false.

`ScriptsTakeTurns` (`ScriptInv`), for every set of scripts, in the same module. On a page
that does not remove, `KeptInv`: a script that was evaluated is flagged, or is in the page,
where the next method to move it will flag it, and waits in no loop; one without the flag
waits in one place of one loop, and was inserted already, unless it went into a holder that is out
of the page and its loop is the innermost (`Placed`). So what a loop evaluates was not
evaluated. On a page whose scripts do not call jQuery, `TurnInv`: what is flagged was
evaluated, and so was what is in the page, or a script with its content waits.

`StylesAreRestored` (`ShowHideInv`) and `TogglesAlternate` (`ToggleReverses`), in the same
module, for any number of calls. The properties speak of an element at rest; the invariant
says how it gets there. `DisplayInv`: what is displayed, or noted as `olddisplay`, is a
display the element may have, and only an inline element is hidden without a note (`Noted`).
`SizeInv`: the size of before is in the note `fxshow` from the beginning of an animation until it is
done, stopped or not. `AskedInv`: after a toggle, its direction is in the note if it was not
done, and in the display if it was, so that the next toggle can turn it about.

`EventsProofs`: `jQuery.event`, for every path of elements, every set of bindings, any
number of calls and any depth of events.

- `BaseInv` holds whoever triggers events. `ListensInv`: handlers are bound once each, delegates are in
  front, and `native`, `attaches` and `capturing` are what the handlers require; `attaches`
  is the cardinality of a set of elements, so `add`, `remove` and `cleanData` have to change it exactly
  when a list becomes empty or ceases to be. `FramesOK`: of every event under way, what was
  due where it is has been called or is in the queue, not both (`QueueInv`), and no
  handler is in the queue twice (`ProperQueue`). The queue is cut out of the list of
  handlers, once per element below and once for the element itself; `SubsequenceProofs` says
  that the pieces together are the list. From `BaseInv`, `ListenersFollow` (`TypeOK`,
  `ListensWhileBound` and `DelegatesInFront`) and `NoHandlerIsMissed` (`NoHandlerMissed`), with no hypothesis.
- `EventsAreKept` (`EventsInv`) needs to know how events are nested. `StackInv`: under an
  event there is a handler that triggered it, or the native method that `trigger` called, which is then
  the last but one, and the event it fires finds its type in `triggered`; so a native event
  repeats no handler of the one it comes from. `SeenInv`: the path is left element by
  element and not entered again, and what was seen at this element was called there.
  `HistoryInv`: what was bound by `one()` and has run is bound no more, and is in no queue
  but those of events in which a handler triggered another. The hypothesis is
  `~ForeignTriggers` (line 4625 above): with it a handler does run twice.

Stating `HistoryInv` for any number of events showed that an earlier form of the history was too
coarse: one flag said that some handler had triggered an event at some time, so that after the
first nested event `OneRunsOnce` claimed nothing any more. `past.nested` now holds the handlers concerned, and
`OneRunsOnce` keeps its meaning for the others.

`FxProofs`: `FxCorrect` (`FxInv`), for any elements, any finite set of animations and delays,
and any number of ticks. `FxInv` speaks of the time between two turns, when no job is left; the
invariant (`IInv` of `Fx`, proved by `Inductive`) says what holds in the middle of them.

- The jobs are always some short ones, above at most one loop: of the tick, of stop or
  of finish (`Turn`). A short job (`ShortOK`) calls no loop; a start is only on top.
- The right to go on with the queue of an element: `R` counts the queued items that run,
  `T` is 1 when a start of one is next, `D` counts the calls of `dequeue` to come.
  Where nobody stops anything (`Ordinary`), `R + T + D = 1` for a queue that is not
  empty, with the sentinel in front unless the call of `dequeue` is next; for an empty one
  only calls of `dequeue` are left, and nothing comes to the queue before they are done.
  Every short step passes the right on (`Move`), so that the same few lemmas serve all of
  them.
- The loops of stop and finish take the right away from what they stop. Before they are at
  timer `k`, all that still runs for their element has a timer at or below `k`
  (`Halting`); stop gives the right back when it ends, with its call of `dequeue`, unless an
  animation that it brought to its end has dequeued (`Stops`); finish starts what was in
  the old queue and forces it to end at once, one item at a time (`FinishesOld`).
- The tick and the loops remove a timer by its position after handlers have run. `TimersOK`
  and `Over` say that it is still the one they meant: handlers only append.
- `CountOK`: the hooks count at least the unqueued animations that run or are about to
  end, so that the count never falls below 0.

`HandlersComeFirst` (`EmptyMeansComplete`): when the hooks of an element are removed, which
resolves its promises, and nobody is stopping it, none of its animations runs and none of their
completion handlers is still to be called. From `IInv` alone, nothing runs: the call of `dequeue` that
finds the queue empty has the right to go on, so no queued item has it, and the hooks count
the unqueued ones. That no handler is left needs to be known of the order of the jobs (`EndsInv`):

- after the handler of a queued animation comes the call of `dequeue` that goes on, and neither
  such a call nor the end of an unqueued animation is before it; after the handler of an
  unqueued one comes its end (`GoesOn`). A job replaced by others keeps this if they
  contain no call ahead of a handler that waits (`PushFits`, `Undisturbed`); whoever has
  the right to go on has no handler waiting below it (`NoCallNoHandler`).
- It is not claimed of an element that is being stopped (`BeingStopped`), whose queue `stop(true)`
  and `finish` empty before they stop what runs; so an animation is forced to its end only
  while its element is in `finishing` (`Fit`).
- The second hypothesis, `OrderlyUses`, excludes unqueued animations of no duration: those are
  resolved by their first tick and end before their complete handler is attached (line 8022
  above). It also excludes `animate` with no properties together with handlers that dequeue
  themselves, as then such a call may come while a handler further out is still to be called.

The hypothesis `CarefulUses` says what lines 3664, 8353, 8371, 8394 and 8506 require of a page:
handlers do not throw, stop or finish anything, and queue nothing where the page stops or
finishes; a page that uses `delay` does not call `stop`; where anything is queued, queues are not
cleared and `animate` is not called with no properties. Each clause is there because TLC finds a
queue started twice or stuck without it: a handler that calls `stop`, or both animates and
finishes; `stop(true)` with handlers that animate, `finish` with handlers that animate and delay;
`stop` with a delay and an unqueued animation; `clearQueue`, or `animate({})`, while something
queued runs. A clause may exclude more than that: `finish` or `stop(true)` in handlers that queue
nothing does no harm on three animations, and is not covered by the proof.

The pages of the run `effects` named "queues", "stops", "stops one" and "clears" satisfy both
hypotheses. Those named "delays" (which has `stop` without unqueued animations), "throws" and
"throws two" do not: what they show is model-checked only, and with exceptions for elements in
`lost`.

The proof needed two assumptions the model had not stated: `Items` is finite, or `unqueued`
has no bound, and `None` is not a kind of item.

Assumed: `ConstantsAssumption`, `NullAssumption` (`Null` is none of the values it stands
beside), `InputsAssumption` of `TrialDivision`, `PageAssumption`, `AjaxAssumption`,
`CallbacksAssumption`, `ScriptsAssumption`, `StylesAssumption`, `EventsAssumption`, `FxAssumption` and the three
`PartsAssumption`: bounds are numbers, the sets that are counted are finite, `None` is none of the
values it stands beside, and no element is its own ancestor.

Only model-checked:

- liveness, out of the prover's reach: `Termination`, `TaskFinishes`, `ResultArrives`,
  `StreamFinishes`, `PostedIsQueued`, `ResultIsShown`, `RequestsEnd`, `QueuesDrain`,
  `WaitersRun`;
- `SelectorsInv`: the matchers are recursive operators, and what they compute for every
  selector is an induction over selectors; both are out of the prover's reach.

## Not modelled

- Logging and build configuration: no behaviour of this program.
- `test/ClusterClient`, `test/SameJvm`: programs run by hand.
- Growth of the maps, which are never cleaned: a finite model has no limit they could reach.
- Cluster membership and gossip: a routee appears, disappears or dies.
- Two frontends on one topic, whose ids collide: two instances of `PrimeTester` are more
  than TLC explores, and the code starts one.
- jQuery: `then` and `when`, which chain Deferreds; css, attributes, dimensions, offsets,
  serialization, parsing of HTML and traversing, which are conversions and
  workarounds without state of their own.

## Plan

1. `then` and `when` on top of `Deferred`.
2. Two frontends that share the topic, on top of `TaskLedger` instead of `PrimeTester`.
