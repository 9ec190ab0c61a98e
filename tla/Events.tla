------------------------------- MODULE Events -------------------------------
(***************************************************************************)
(* jQuery.event: the handlers bound to elements, and the events that visit *)
(* an element and its ancestors, fired by the browser or by trigger.       *)
(*                                                                         *)
(* Handlers run inside of the event that calls them; they bind and unbind, *)
(* remove elements and trigger further events.  The events under way form  *)
(* a stack of frames.  "click" stands for the event types with a native    *)
(* method, "focusin" for the types that listen through special.setup.      *)
(***************************************************************************)
EXTENDS Subsequences, SequencesExt

CONSTANTS
    Elements,        \* an element and its ancestors, innermost first
    Bindings,        \* what handlers are bound: see BindingRecords
    Functions,       \* the functions bound, by their guid
    Namespaces,
    MaxUses,         \* bound: calls by the page
    MaxDepth,        \* bound: events under way at a time
    ForeignTriggers, \* bound: whether listeners that are not jQuery's trigger
    None

Types == {"click", "focusin"}
Node == ToSet(Elements)

\* fn is called for events at selector or below it, within the element it is
\* bound to; bound by one(), it unbinds itself before it runs.
BindingRecords ==
    [fn : Functions, selector : Node \cup {None}, one : BOOLEAN, namespace : SUBSET Namespaces]

ASSUME EventsAssumption ==
    /\ Elements \in Seq(Node) /\ Elements # <<>> /\ IsInjective(Elements)
    /\ Bindings \subseteq BindingRecords
    /\ None \notin Node
    /\ MaxUses \in Nat /\ MaxDepth \in Nat
    /\ ForeignTriggers \in BOOLEAN

VARIABLES
    events,     \* the handlers of each element and type
    native,     \* the types each element has jQuery's listener for
    attaches,   \* elements with handlers for focusin
    capturing,  \* the document listens for focus
    triggered,  \* jQuery.event.triggered
    frames,
    uses,
    past        \* history: see PastRecords

vars == <<events, native, attaches, capturing, triggered, frames, uses, past>>

\* Where a handler is bound.
Places == Node \X Types \X Bindings

\* ran: the bindings made by one() that have run; twice: those of them that ran
\* again; nested: what an event still had to call when a handler triggered
\* another one; again: a handler ran twice for one trigger.
PastRecords ==
    [ran : SUBSET Places, twice : SUBSET Places, nested : SUBSET Places, again : BOOLEAN]

Init ==
    /\ events = [e \in Node |-> [t \in Types |-> [list |-> <<>>, delegateCount |-> 0]]]
    /\ native = [e \in Node |-> {}]
    /\ attaches = 0
    /\ capturing = FALSE
    /\ triggered = None
    /\ frames = <<>>
    /\ uses = 0
    /\ past = [ran |-> {}, twice |-> {}, nested |-> {}, again |-> FALSE]

-----------------------------------------------------------------------------
Depth(e) == CHOOSE i \in DOMAIN Elements : Elements[i] = e
PathFrom(e) == SubSeq(Elements, Depth(e), Len(Elements))
Bound(e, t) == events[e][t].list # <<>>

\* special.setup of focusin, or addEventListener.
Listen(e, t) ==
    IF t = "focusin"
    THEN attaches' = attaches + 1 /\ capturing' = TRUE /\ UNCHANGED native
    ELSE native' = [native EXCEPT ![e] = @ \cup {t}] /\ UNCHANGED <<attaches, capturing>>

\* special.teardown, or removeEvent.
Unlisten(e, t) ==
    IF t = "focusin"
    THEN attaches' = attaches - 1 /\ capturing' = (attaches > 1) /\ UNCHANGED native
    ELSE native' = [native EXCEPT ![e] = @ \ {t}] /\ UNCHANGED <<attaches, capturing>>

\* Delegates go in front of the others.
Insert(h, b) ==
    IF b.selector # None
    THEN [list |-> InsertAt(h.list, h.delegateCount + 1, b), delegateCount |-> h.delegateCount + 1]
    ELSE [h EXCEPT !.list = Append(@, b)]

Unbound(h, gone) ==
    LET kept == {i \in DOMAIN h.list : h.list[i] \notin gone}
        delegates == {i \in DOMAIN h.list : h.list[i].selector # None}
    IN [list |-> Subsequence(h.list, kept),
        delegateCount |-> h.delegateCount - Cardinality(delegates \ kept)]

\* jQuery.event.add
Add(e, t, b) ==
    /\ events' = [events EXCEPT ![e][t] = Insert(@, b)]
    /\ IF Bound(e, t) THEN UNCHANGED <<native, attaches, capturing>> ELSE Listen(e, t)

\* The condition of jQuery.event.remove; an argument left out is None.
Matches(b, fn, namespace, selector) ==
    /\ fn # None => b.fn = fn
    /\ namespace \subseteq b.namespace
    /\ selector # None => b.selector = selector

\* jQuery.event.remove
RemoveFrom(e, t, fn, namespace, selector) ==
    LET h == Unbound(events[e][t], {b \in Bindings : Matches(b, fn, namespace, selector)}) IN
    /\ events' = [events EXCEPT ![e][t] = h]
    /\ IF Bound(e, t) /\ h.list = <<>>
       THEN Unlisten(e, t)
       ELSE UNCHANGED <<native, attaches, capturing>>

-----------------------------------------------------------------------------
\* An event of type t at e.  left is what is left of its path; at the element
\* "at", queue holds what its dispatch still has to call, as pairs of an
\* element and its handlers; due and called are history of that dispatch, seen
\* of the whole event.
EventAt(e, t, trigger, namespace) ==
    [type |-> t, trigger |-> trigger, namespace |-> namespace, target |-> e,
     left |-> PathFrom(e), at |-> None, queue |-> <<>>, step |-> "walk",
     stopped |-> FALSE, immediate |-> FALSE, prevented |-> FALSE,
     due |-> {}, called |-> {}, seen |-> {}]

Idle == frames = <<>>
Top == Last(frames)
Become(f) == frames' = Append(Front(frames), f)

\* Code of the page: outside of every event, as a handler, or as a listener
\* that is not jQuery's.
PageRuns == ~Idle => Top.step \in {"handler", "foreign"}

Use ==
    /\ PageRuns
    /\ uses < MaxUses
    /\ uses' = uses + 1

On(e, t, b) ==
    /\ Use
    /\ ~Contains(events[e][t].list, b)
    /\ Add(e, t, b)
    /\ past' = [past EXCEPT !.ran = @ \ {<<e, t, b>>}]
    /\ UNCHANGED <<triggered, frames>>

Off(e, t, fn, namespace, selector) ==
    /\ Use
    /\ RemoveFrom(e, t, fn, namespace, selector)
    /\ UNCHANGED <<triggered, frames, past>>

\* What f still has to call at the element it is at.
Pending(f) ==
    {<<f.at, f.type, b>> : b \in UNION {ToSet(f.queue[n][2]) : n \in DOMAIN f.queue}}

\* $(e).trigger(t)
Trigger(e, t, namespace) ==
    /\ Use
    /\ Len(frames) < MaxDepth
    /\ ~Idle => Top.step = "handler" \/ ForeignTriggers
    /\ frames' = Append(frames, EventAt(e, t, TRUE, namespace))
    /\ past' = [past EXCEPT !.nested = @ \cup UNION {Pending(frames[i]) : i \in DOMAIN frames}]
    /\ UNCHANGED <<events, native, attaches, capturing, triggered>>

\* The browser fires a click.
Clicked(e) ==
    /\ Idle
    /\ uses < MaxUses
    /\ uses' = uses + 1
    /\ frames' = <<EventAt(e, "click", FALSE, {})>>
    /\ UNCHANGED <<events, native, attaches, capturing, triggered, past>>

\* e gets the focus: while the document listens, focusin is simulated.
Focused(e) ==
    /\ Idle
    /\ capturing
    /\ uses < MaxUses
    /\ uses' = uses + 1
    /\ frames' = <<EventAt(e, "focusin", TRUE, {})>>
    /\ UNCHANGED <<events, native, attaches, capturing, triggered, past>>

-----------------------------------------------------------------------------
\* The positions of the delegates of h that select c, and the elements from the
\* target of f up to e that some delegate selects.
Selecting(h, c) == {i \in 1..h.delegateCount : h.list[i].selector = c}
Matched(f, e, h) ==
    LET below == SubSeq(Elements, Depth(f.target), Depth(e) - 1)
    IN Subsequence(below, {i \in DOMAIN below : Selecting(h, below[i]) # {}})

\* The handlers of h for the elements s.
Delegates(s, h) == [i \in DOMAIN s |-> <<s[i], Subsequence(h.list, Selecting(h, s[i]))>>]

\* (Mutant: directly bound handlers are left out where there are delegates.)
HandlersOrDelegates(f, e) ==
    LET h == events[e][f.type]
    IN Delegates(Matched(f, e, h), h)
       \o IF h.delegateCount = 0 THEN <<<<e, h.list>>>> ELSE <<>>

\* jQuery.event.handlers: for every element from the target up to e the
\* delegates that select it, and then the handlers of e itself.
Handlers(f, e) ==
    LET h == events[e][f.type]
        direct == SubSeq(h.list, h.delegateCount + 1, Len(h.list))
    IN Delegates(Matched(f, e, h), h)
       \o IF direct = <<>> THEN <<>> ELSE <<<<e, direct>>>>

\* What the event should call at e, said without the queue.
Due(f, e) ==
    LET bound == ToSet(events[e][f.type].list) IN
    {<<e, b>> : b \in {d \in bound : d.selector = None}}
    \cup {<<b.selector, b>> :
            b \in {d \in bound : d.selector \in ToSet(PathFrom(f.target)) \ {None}
                                 /\ d.selector # e
                                 /\ Contains(SubSeq(Elements, 1, Depth(e)), d.selector)}}

\* dispatch: the handlers are determined once, when the event reaches e.
Dispatch(f, e) ==
    [f EXCEPT !.left = Tail(@), !.at = e, !.step = "run", !.immediate = FALSE,
              !.queue = Handlers(f, e), !.due = Due(f, e), !.called = {}]

\* The main handler of e discards the event that a trigger causes natively.
Visit ==
    /\ ~Idle
    /\ Top.step = "walk"
    /\ Top.left # <<>>
    /\ ~Top.stopped
    /\ LET e == Head(Top.left) IN
        IF (IF Top.trigger THEN Bound(e, Top.type) ELSE Top.type \in native[e])
           /\ triggered # Top.type
        THEN Become(Dispatch(Top, e))
        ELSE Become([Top EXCEPT !.left = Tail(@)])
    /\ UNCHANGED <<events, native, attaches, capturing, triggered, uses, past>>

\* A native event also calls listeners that are not jQuery's.
VisitForeign ==
    /\ ~Idle
    /\ Top.step = "walk"
    /\ ~Top.trigger
    /\ Top.left # <<>>
    /\ Head(Top.left) = Top.target
    /\ ~Top.stopped
    /\ Become([Top EXCEPT !.step = "foreign"])
    /\ UNCHANGED <<events, native, attaches, capturing, triggered, uses, past>>

ForeignReturns ==
    /\ ~Idle
    /\ Top.step = "foreign"
    /\ LET e == Head(Top.left) IN
        IF Top.type \in native[e] /\ triggered # Top.type
        THEN Become(Dispatch(Top, e))
        ELSE Become([Top EXCEPT !.left = Tail(@), !.step = "walk"])
    /\ UNCHANGED <<events, native, attaches, capturing, triggered, uses, past>>

\* Whether the dispatch of f calls no more: nothing is left, a handler has
\* stopped it, or has stopped it beyond the element whose handlers are called.
DispatchOver(f) ==
    f.queue # <<>> =>
        \/ f.immediate
        \/ f.stopped /\ \A c \in f.called : c[1] # Head(f.queue)[1]

LeaveElement ==
    /\ ~Idle
    /\ Top.step = "run"
    /\ DispatchOver(Top)
    /\ Become([Top EXCEPT !.step = "walk", !.queue = <<>>, !.due = {}, !.called = {}])
    /\ UNCHANGED <<events, native, attaches, capturing, triggered, uses, past>>

\* The trigger an event belongs to: the native event that a trigger causes,
\* right above it, is the same to handlers.
SeenBefore ==
    Top.seen \cup
    (IF Len(frames) > 1 /\ ~Top.trigger THEN frames[Len(frames) - 1].seen ELSE {})

Allowed(b) == Top.namespace \subseteq b.namespace

\* dispatch has taken the next handler, b for element e, from its queue.
NextCall(e, b) ==
    LET rest == IF Len(Head(Top.queue)[2]) > 1
                THEN <<<<e, Tail(Head(Top.queue)[2])>>>> \o Tail(Top.queue)
                ELSE Tail(Top.queue)
        key == <<Top.at, Top.type, b>>
    IN /\ Become([Top EXCEPT !.queue = rest,
                             !.called = @ \cup {<<e, b>>},
                             !.step = IF Allowed(b) THEN "handler" ELSE "run",
                             !.seen = IF Allowed(b) THEN @ \cup {key} ELSE @])
       /\ past' = IF ~Allowed(b) THEN past
                  ELSE [past EXCEPT !.again = @ \/ key \in SeenBefore,
                                    !.twice = @ \cup ({key} \cap past.ran),
                                    !.ran = IF b.one THEN @ \cup {key} ELSE @]

\* (Mutant: a handler bound by one() stays bound while it runs.)
CallOneStays ==
    /\ ~Idle
    /\ Top.step = "run"
    /\ ~DispatchOver(Top)
    /\ NextCall(Head(Top.queue)[1], Head(Head(Top.queue)[2]))
    /\ UNCHANGED <<events, native, attaches, capturing, triggered, uses>>

\* dispatch takes the next handler, and calls it if the namespace of the event
\* allows it; a handler bound by one() is unbound first.
CallHandler ==
    /\ ~Idle
    /\ Top.step = "run"
    /\ ~DispatchOver(Top)
    /\ LET e == Head(Top.queue)[1]
           b == Head(Head(Top.queue)[2])
       IN /\ NextCall(e, b)
          /\ IF b.one /\ Allowed(b)
             THEN RemoveFrom(Top.at, Top.type, b.fn, b.namespace, b.selector)
             ELSE UNCHANGED <<events, native, attaches, capturing>>
    /\ UNCHANGED <<triggered, uses>>

\* The handler returns, perhaps after it has stopped the event or prevented its
\* default; to return false does both.
HandlerReturns ==
    /\ ~Idle
    /\ Top.step = "handler"
    /\ \E stops, now, prevents \in BOOLEAN :
        /\ now => stops
        /\ Become([Top EXCEPT !.step = "run", !.stopped = @ \/ stops,
                              !.immediate = @ \/ now, !.prevented = @ \/ prevents])
    /\ UNCHANGED <<events, native, attaches, capturing, triggered, uses, past>>

\* The handler throws.  The triggers that called it are left; the browser goes
\* on with the next listener of a native event.
HandlerThrows ==
    /\ ~Idle
    /\ Top.step = "handler"
    /\ LET natives == {i \in DOMAIN frames : ~frames[i].trigger} IN
        IF natives = {} THEN frames' = <<>>
        ELSE LET k == Max(natives) IN
             frames' = Append(SubSeq(frames, 1, k - 1),
                              IF frames[k].step = "foreign" THEN frames[k]
                              ELSE [frames[k] EXCEPT !.step = "walk", !.queue = <<>>,
                                                     !.due = {}, !.called = {}])
    /\ UNCHANGED <<events, native, attaches, capturing, triggered, uses, past>>

WalkOver(f) == f.step = "walk" /\ (f.left = <<>> \/ f.stopped)

HasDefault(f) == f.trigger /\ ~f.prevented /\ f.type = "click"

\* trigger calls the native method of the target, which fires the event again.
Default ==
    /\ ~Idle
    /\ WalkOver(Top)
    /\ HasDefault(Top)
    /\ triggered' = Top.type
    /\ frames' = Append(Append(Front(frames), [Top EXCEPT !.step = "native"]),
                        EventAt(Top.target, Top.type, FALSE, {}))
    /\ UNCHANGED <<events, native, attaches, capturing, uses, past>>

EndEvent ==
    /\ ~Idle
    /\ Top.step = "native" \/ (WalkOver(Top) /\ ~HasDefault(Top))
    /\ frames' = Front(frames)
    /\ triggered' = IF Top.step = "native" THEN None ELSE triggered
    /\ UNCHANGED <<events, native, attaches, capturing, uses, past>>

\* jQuery.cleanData for an element that is removed from the document.
CleanData(e) ==
    /\ Use
    /\ events' = [events EXCEPT ![e] = [t \in Types |-> [list |-> <<>>, delegateCount |-> 0]]]
    /\ native' = [native EXCEPT ![e] = {}]
    /\ IF Bound(e, "focusin")
       THEN attaches' = attaches - 1 /\ capturing' = (attaches > 1)
       ELSE UNCHANGED <<attaches, capturing>>
    /\ UNCHANGED <<triggered, frames, past>>

-----------------------------------------------------------------------------
\* What jQuery and the browser do next for the events under way.
Continue ==
    \/ Visit \/ VisitForeign \/ ForeignReturns \/ LeaveElement \/ CallHandler
    \/ HandlerReturns \/ HandlerThrows \/ Default \/ EndEvent

PageActs ==
    \E e \in Node :
        \/ \E t \in Types :
            \/ \E b \in Bindings : On(e, t, b)
            \/ \E b \in Bindings : Off(e, t, b.fn, b.namespace, b.selector)
            \/ Off(e, t, None, {}, None)
            \/ \E ns \in SUBSET Namespaces : Trigger(e, t, ns)
        \/ CleanData(e)

Next ==
    \/ PageActs
    \/ \E e \in Node : Clicked(e) \/ Focused(e)
    \/ Continue

Spec == Init /\ [][Next]_vars

-----------------------------------------------------------------------------
\* Only bindings are bound, and counts are not negative.
TypeOK ==
    /\ \A e \in Node, t \in Types :
        /\ events[e][t].list \in Seq(Bindings)
        /\ events[e][t].delegateCount \in Nat
    /\ native \in [Node -> SUBSET Types]
    /\ attaches \in Nat
    /\ triggered \in Types \cup {None}
    /\ past \in PastRecords

\* jQuery's listener is on an element exactly for the types it has handlers
\* for, and the document listens for focus exactly while somebody wants
\* focusin, whatever was unbound, removed or called once in between.
ListensWhileBound ==
    /\ \A e \in Node : "click" \in native[e] <=> Bound(e, "click")
    /\ capturing <=> \E e \in Node : Bound(e, "focusin")
    /\ attaches = Cardinality({e \in Node : Bound(e, "focusin")})

\* "Run delegates first": delegateCount tells the delegates from the handlers
\* bound to the element itself.
DelegatesInFront ==
    \A e \in Node, t \in Types :
        \A i \in DOMAIN events[e][t].list :
            i <= events[e][t].delegateCount <=> events[e][t].list[i].selector # None

\* An event that nobody stopped has called, when it leaves an element, every
\* handler that was due there when it came, even those unbound meanwhile.
NoHandlerMissed ==
    ~Idle /\ Top.step = "run" /\ DispatchOver(Top) /\ ~Top.stopped => Top.called = Top.due

\* A handler bound by one() runs once, unless a handler triggered an event in
\* an event that had it in its queue.
OneRunsOnce == past.twice \subseteq past.nested

\* "Prevent re-triggering of the same event, since we already bubbled it
\* above": no handler runs twice for one trigger.
AlreadyBubbled == ~past.again

\* Outside of events, nothing is suppressed.
NothingSuppressed == Idle => triggered = None

\* What add, remove, dispatch and trigger keep, whatever handlers do in between.
EventsInv ==
    /\ TypeOK
    /\ ListensWhileBound
    /\ DelegatesInFront
    /\ OneRunsOnce
    /\ AlreadyBubbled
    /\ NothingSuppressed
=============================================================================
