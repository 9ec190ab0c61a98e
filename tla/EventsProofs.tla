---------------------------- MODULE EventsProofs ----------------------------
(***************************************************************************)
(* jQuery.event, for every path of elements, every set of bindings and any *)
(* number of uses: the listeners follow the handlers, no handler is        *)
(* missed, and, where only handlers trigger, none runs twice.              *)
(***************************************************************************)
EXTENDS Events, SubsequenceProofs, FiniteSetTheorems, SequenceTheorems, TLAPS

-----------------------------------------------------------------------------
(* The inductive invariant.                                                *)

HandlerLists == [list : Seq(Bindings), delegateCount : Nat]

\* Handlers are bound once each, delegates in front.
ProperList(h) ==
    /\ h \in HandlerLists
    /\ h.delegateCount <= Len(h.list)
    /\ \A i \in 1..Len(h.list) : i <= h.delegateCount <=> h.list[i].selector # None
    /\ \A i, j \in 1..Len(h.list) : h.list[i] = h.list[j] => i = j

\* What is bound at e for t.
BoundAt(e, t) == {events[e][t].list[i] : i \in 1..Len(events[e][t].list)}

\* The elements with handlers for focusin.
FocusBound == {e \in Node : Bound(e, "focusin")}

ListensInv ==
    /\ events \in [Node -> [Types -> HandlerLists]]
    /\ \A e \in Node, t \in Types : ProperList(events[e][t])
    /\ native \in [Node -> SUBSET Types]
    /\ \A e \in Node : "click" \in native[e] <=> Bound(e, "click")
    /\ attaches = Cardinality(FocusBound)
    /\ capturing \in BOOLEAN
    /\ capturing <=> attaches # 0

Queues == Seq(Node \X Seq(Bindings))

\* The i-th handler of the n-th element of a queue, of how many, and its call.
Width(s, n) == Len(s[n][2])
At(s, n, i) == s[n][2][i]
Call(s, n, i) == <<s[n][1], At(s, n, i)>>

\* The handlers in a queue, and the calls they make.
Members(s) == {b \in Bindings : \E n \in 1..Len(s) : \E i \in 1..Width(s, n) : b = At(s, n, i)}
Calls(s) ==
    {c \in Node \X Bindings : \E n \in 1..Len(s) : \E i \in 1..Width(s, n) : c = Call(s, n, i)}

\* No element is in a queue for nothing, and no handler is in it twice.
ProperQueue(s) ==
    /\ \A n \in 1..Len(s) : Width(s, n) > 0
    /\ \A n, m \in 1..Len(s) : \A i \in 1..Width(s, n), j \in 1..Width(s, m) :
        At(s, n, i) = At(s, m, j) => n = m /\ i = j

Frames ==
    [type : Types, trigger : BOOLEAN, namespace : SUBSET Namespaces, target : Node,
     left : Seq(Node), at : Node \cup {None}, queue : Queues,
     step : {"walk", "foreign", "run", "handler", "native"},
     stopped : BOOLEAN, immediate : BOOLEAN, prevented : BOOLEAN,
     due : SUBSET (Node \X Bindings), called : SUBSET (Node \X Bindings),
     seen : SUBSET Places]

Runs(f) == f.step \in {"run", "handler"}

\* The path is left element by element, and never entered again.
PathInv(f) ==
    /\ f.immediate => f.stopped
    /\ \A i, j \in 1..Len(f.left) : f.left[i] = f.left[j] => i = j
    /\ \A i \in 1..Len(f.left) : f.left[i] # f.at
    /\ f.step = "foreign" => f.left # <<>>
    /\ Runs(f) => f.at \in Node

\* While handlers run, what was due has been called or is in the queue, and
\* nothing is both.
QueueInv(f) ==
    /\ ProperQueue(f.queue)
    /\ ~Runs(f) => f.queue = <<>>
    /\ Runs(f) => f.due = f.called \cup Calls(f.queue)
    /\ \A c \in f.called : c[2] \notin Members(f.queue)

\* The handlers seen are of elements behind on the path, or have just been
\* called at the element the event is at.
SeenInv(f) ==
    \A k \in f.seen :
        /\ k[2] = f.type
        /\ \A i \in 1..Len(f.left) : f.left[i] # k[1]
        /\ Runs(f) /\ k[1] = f.at => \E c \in f.called : c[2] = k[3]

FrameInv(f) == f \in Frames /\ PathInv(f) /\ QueueInv(f) /\ SeenInv(f)

\* Below the top of s, a handler has triggered the event above, or trigger has
\* called the native method that fired it; an event fired like this finds its
\* type tr in triggered, and calls no handlers.
ProperStack(s, tr) ==
    /\ s \in Seq(Frames)
    /\ \A i \in 1..Len(s) : FrameInv(s[i])
    /\ \A i \in 1..(Len(s) - 1) : s[i].step \in {"handler", "native"}
    /\ \A i \in 1..(Len(s) - 1) :
        s[i].step = "native" =>
            /\ i = Len(s) - 1
            /\ ~Last(s).trigger
            /\ Last(s).step \in {"walk", "foreign"}
            /\ Last(s).type = tr
    /\ \A i \in 2..Len(s) : ~s[i].trigger => s[i - 1].step = "native"
    /\ tr \in Types \cup {None}
    /\ tr # None => \E i \in 1..Len(s) : s[i].step = "native"

StackInv == ProperStack(frames, triggered)

\* What was bound by one() and has run is bound no more, and is in no queue but
\* those of events in which a handler triggered another one.
HistoryInv ==
    /\ past \in PastRecords
    /\ \A e \in Node, t \in Types : \A b \in BoundAt(e, t) : <<e, t, b>> \notin past.ran
    /\ \A i \in 1..Len(frames) : Pending(frames[i]) \cap past.ran \subseteq past.nested
    /\ \A i \in 1..(Len(frames) - 1) : Pending(frames[i]) \subseteq past.nested
    /\ past.twice \subseteq past.nested
    /\ ~past.again

IInv == ListensInv /\ StackInv /\ HistoryInv

-----------------------------------------------------------------------------
(* Handler lists.                                                          *)

\* What is left when the innermost event ends.
LEMMA FrontLast ==
    ASSUME NEW S, NEW s \in Seq(S), s # <<>>
    PROVE  /\ Front(s) \in Seq(S) /\ Len(Front(s)) = Len(s) - 1 /\ Len(s) \in Nat \ {0}
           /\ \A i \in 1..(Len(s) - 1) : Front(s)[i] = s[i]
           /\ Last(s) = s[Len(s)] /\ Last(s) \in S
<1>1. Len(s) \in Nat \ {0}
  BY EmptySeq
<1>2. s[Len(s)] \in S
  BY <1>1, ElementOfSeq
<1>3. QED
  BY <1>1, <1>2, SubSeqProperties DEF Front, Last

\* The types of what is bound.
LEMMA ListFields ==
    ASSUME NEW h \in HandlerLists
    PROVE  /\ h.list \in Seq(Bindings) /\ h.delegateCount \in Nat /\ Len(h.list) \in Nat
           /\ h.list = <<>> <=> Len(h.list) = 0
           /\ \A i \in 1..Len(h.list) : h.list[i] \in Bindings
BY EmptySeq, ElementOfSeq DEF HandlerLists

\* A list stays proper when a handler that is not in it is inserted.
LEMMA InsertKeeps ==
    ASSUME NEW h, ProperList(h), NEW b \in Bindings, ~Contains(h.list, b),
           NEW g, g = Insert(h, b)
    PROVE  /\ ProperList(g) /\ g.list # <<>>
           /\ \A i \in 1..Len(g.list) :
                g.list[i] = b \/ \E j \in 1..Len(h.list) : g.list[i] = h.list[j]
<1>0. PICK s, d : s = h.list /\ d = h.delegateCount
  OBVIOUS
<1>1. /\ h \in HandlerLists /\ s \in Seq(Bindings) /\ d \in Nat /\ Len(s) \in Nat /\ d <= Len(s)
      /\ \A i \in 1..Len(s) : s[i] \in Bindings /\ s[i] # b
      /\ \A i \in 1..Len(s) : i <= d <=> s[i].selector # None
      /\ \A i, j \in 1..Len(s) : s[i] = s[j] => i = j
  BY <1>0, ListFields DEF ProperList, Contains
<1>2. CASE b.selector # None
  <2>1. PICK v : v = SubSeq(s, 1, d)
    OBVIOUS
  <2>2. PICK w : w = SubSeq(s, d + 1, Len(s))
    OBVIOUS
  <2>3. /\ v \in Seq(Bindings) /\ Len(v) = d /\ \A i \in 1..d : v[i] = s[i]
    BY <1>1, <2>1, SubSeqProperties
  <2>4. /\ w \in Seq(Bindings) /\ Len(w) = Len(s) - d
        /\ \A i \in 1..(Len(s) - d) : w[i] = s[d + i]
    <3>1. \A i \in (d + 1)..Len(s) : s[i] \in Bindings
      BY <1>1
    <3>2. d + 1 \in Int /\ Len(s) \in Int
      BY <1>1
    <3>3. \A i \in 1..(Len(s) - d) : d + 1 + i - 1 = d + i
      BY <1>1
    <3>4. QED
      BY <1>1, <2>2, <3>1, <3>2, <3>3, SubSeqProperties
  <2>5. PICK u : u = Append(v, b)
    OBVIOUS
  <2>6. /\ u \in Seq(Bindings) /\ Len(u) = d + 1 /\ u[d + 1] = b
        /\ \A i \in 1..d : u[i] = s[i]
    BY <2>3, <2>5, AppendProperties
  <2>7. PICK l : l = u \o w
    OBVIOUS
  <2>8. /\ l \in Seq(Bindings) /\ Len(l) = Len(s) + 1
        /\ \A i \in 1..(Len(s) + 1) :
            l[i] = IF i <= d THEN s[i] ELSE IF i = d + 1 THEN b ELSE s[i - 1]
    <3>1. /\ l \in Seq(Bindings) /\ Len(l) = Len(u) + Len(w)
          /\ \A i \in 1..(Len(u) + Len(w)) :
               l[i] = IF i <= Len(u) THEN u[i] ELSE w[i - Len(u)]
      BY <2>4, <2>6, <2>7, ConcatProperties
    <3>2. Len(u) = d + 1 /\ Len(u) + Len(w) = Len(s) + 1
      BY <1>1, <2>4, <2>6
    <3>3. ASSUME NEW i \in 1..(Len(s) + 1)
          PROVE  l[i] = IF i <= d THEN s[i] ELSE IF i = d + 1 THEN b ELSE s[i - 1]
      <4>1. l[i] = IF i <= d + 1 THEN u[i] ELSE w[i - (d + 1)]
        BY <3>1, <3>2
      <4>2. CASE i <= d
        BY <1>1, <2>6, <4>1, <4>2
      <4>3. CASE i = d + 1
        BY <1>1, <2>6, <4>1, <4>3
      <4>4. CASE i > d + 1
        <5>1. i - (d + 1) \in 1..(Len(s) - d) /\ d + (i - (d + 1)) = i - 1
          BY <1>1, <4>4
        <5>2. w[i - (d + 1)] = s[i - 1]
          BY <2>4, <5>1
        <5>3. QED
          BY <1>1, <4>1, <4>4, <5>2
      <4>5. QED
        BY <1>1, <4>2, <4>3, <4>4
    <3>4. QED
      BY <3>1, <3>2, <3>3
  <2>9. g = [list |-> l, delegateCount |-> d + 1]
    <3>1. InsertAt(s, d + 1, b) = SubSeq(s, 1, (d + 1) - 1) \o <<b>> \o SubSeq(s, d + 1, Len(s))
      BY Zenon DEF InsertAt
    <3>2. (d + 1) - 1 = d
      BY <1>1
    <3>3. u = v \o <<b>>
      BY <2>3, <2>5, AppendIsConcat
    <3>4. InsertAt(s, d + 1, b) = l
      BY <2>1, <2>2, <2>7, <3>1, <3>2, <3>3, Zenon
    <3>5. QED
      BY <1>0, <1>2, <3>4, Zenon DEF Insert
  <2>10. g.list = l /\ g.delegateCount = d + 1 /\ g \in HandlerLists
    BY <1>1, <2>8, <2>9 DEF HandlerLists
  <2>11. l # <<>>
    BY <1>1, <2>8, EmptySeq
  <2>12. ASSUME NEW i \in 1..Len(l)
         PROVE  i <= d + 1 <=> l[i].selector # None
    <3>1. CASE i <= d
      BY <1>1, <2>8, <3>1
    <3>2. CASE i = d + 1
      BY <1>1, <1>2, <2>8, <3>2
    <3>3. CASE i > d + 1
      <4>1. i - 1 \in 1..Len(s) /\ ~(i - 1 <= d) /\ ~(i <= d + 1) /\ l[i] = s[i - 1]
        BY <1>1, <2>8, <3>3
      <4>2. QED
        BY <1>1, <4>1
    <3>4. QED
      BY <1>1, <2>8, <3>1, <3>2, <3>3
  <2>13. ASSUME NEW i \in 1..Len(l), NEW j \in 1..Len(l), l[i] = l[j]
         PROVE  i = j
    <3>1. /\ i = d + 1 \/ \E k \in 1..Len(s) : l[i] = s[k] /\ k = IF i <= d THEN i ELSE i - 1
          /\ j = d + 1 \/ \E k \in 1..Len(s) : l[j] = s[k] /\ k = IF j <= d THEN j ELSE j - 1
      BY <1>1, <2>8
    <3>2. l[d + 1] = b
      BY <1>1, <2>8
    <3>3. QED
      BY <1>1, <2>13, <3>1, <3>2
  <2>14. \A i \in 1..Len(l) : l[i] = b \/ \E j \in 1..Len(s) : l[i] = s[j]
    BY <1>1, <2>8
  <2>15. d + 1 <= Len(l)
    BY <1>1, <2>8
  <2>16. QED
    BY <1>0, <2>10, <2>11, <2>12, <2>13, <2>14, <2>15 DEF ProperList
<1>3. CASE b.selector = None
  <2>1. PICK l : l = Append(s, b)
    OBVIOUS
  <2>2. /\ l \in Seq(Bindings) /\ l # <<>> /\ Len(l) = Len(s) + 1 /\ l[Len(s) + 1] = b
        /\ \A i \in 1..Len(s) : l[i] = s[i]
    BY <1>1, <2>1, AppendProperties
  <2>3. g = [list |-> l, delegateCount |-> d]
    BY <1>0, <1>1, <1>3, <2>1 DEF Insert, HandlerLists
  <2>4. g.list = l /\ g.delegateCount = d /\ g \in HandlerLists
    BY <1>1, <2>2, <2>3 DEF HandlerLists
  <2>5. \A i \in 1..Len(l) : i <= d <=> l[i].selector # None
    BY <1>1, <1>3, <2>2
  <2>6. \A i, j \in 1..Len(l) : l[i] = l[j] => i = j
    BY <1>1, <2>2
  <2>7. \A i \in 1..Len(l) : l[i] = b \/ \E j \in 1..Len(s) : l[i] = s[j]
    BY <1>1, <2>2
  <2>8. QED
    BY <1>0, <1>1, <2>2, <2>4, <2>5, <2>6, <2>7 DEF ProperList
<1>4. QED
  BY <1>2, <1>3

\* A list stays proper when handlers are taken out, and holds the others.
LEMMA UnboundKeeps ==
    ASSUME NEW h, ProperList(h), NEW gone, NEW g, g = Unbound(h, gone)
    PROVE  /\ ProperList(g)
           /\ \A i \in 1..Len(g.list) :
                g.list[i] \notin gone /\ \E j \in 1..Len(h.list) : g.list[i] = h.list[j]
<1>0. PICK s, d : s = h.list /\ d = h.delegateCount
  OBVIOUS
<1>1. /\ h \in HandlerLists /\ s \in Seq(Bindings) /\ d \in Nat /\ Len(s) \in Nat /\ d <= Len(s)
      /\ DOMAIN s = 1..Len(s)
      /\ \A i \in 1..Len(s) : i <= d <=> s[i].selector # None
      /\ \A i, j \in 1..Len(s) : s[i] = s[j] => i = j
  BY <1>0, ListFields DEF ProperList
<1>2. PICK kept : kept = {i \in 1..Len(s) : s[i] \notin gone}
  OBVIOUS
<1>3. kept \in SUBSET (1..Len(s))
  BY <1>2, Zenon
<1>4. PICK l : l = Subsequence(s, kept)
  OBVIOUS
<1>5. /\ l \in Seq(Bindings) /\ Len(l) = Cardinality(kept) /\ Len(l) \in Nat
      /\ \A k \in 1..Len(l) : Place(kept, k) \in kept /\ l[k] = s[Place(kept, k)]
      /\ \A j, k \in 1..Len(l) : Place(kept, j) = Place(kept, k) => j = k
  BY <1>1, <1>3, <1>4, SubsequenceIs
<1>6. PICK c : c = Rank(kept, d)
  OBVIOUS
<1>7. /\ c \in Nat /\ c <= Len(l)
      /\ \A k \in 1..Len(l) : Place(kept, k) <= d <=> k <= c
  <2>1. d \in 0..Len(s)
    BY <1>1
  <2>2. Ranked(kept, Len(s))
    BY <1>1, <1>3, RankFacts
  <2>3. c \in Nat /\ c <= Cardinality(kept)
    BY <1>6, <2>1, <2>2 DEF Ranked
  <2>4. \A k \in 1..Cardinality(kept) : Place(kept, k) <= d <=> k <= c
    BY <1>1, <1>3, <1>6, <2>1, PlaceUpTo
  <2>5. QED
    BY <1>5, <2>3, <2>4
<1>8. g = [list |-> l, delegateCount |-> c]
  <2>1. {i \in DOMAIN s : s[i].selector # None} = 1..d
    BY <1>1
  <2>2. Cardinality((1..d) \ kept) = d - c
    BY <1>1, <1>3, <1>6, RankOfRest
  <2>3. d - (d - c) = c
    BY <1>1, <1>7
  <2>4. {i \in DOMAIN s : s[i] \notin gone} = kept
    BY <1>1, <1>2, Zenon
  <2>5. g = [list |-> Subsequence(s, kept), delegateCount |-> d - Cardinality((1..d) \ kept)]
    BY <1>0, <2>1, <2>4, Zenon DEF Unbound
  <2>6. QED
    BY <1>4, <2>2, <2>3, <2>5, Zenon
<1>9. g.list = l /\ g.delegateCount = c /\ g \in HandlerLists
  BY <1>5, <1>7, <1>8 DEF HandlerLists
<1>10. \A i \in 1..Len(l) : i <= c <=> l[i].selector # None
  BY <1>1, <1>3, <1>5, <1>7
<1>11. \A i, j \in 1..Len(l) : l[i] = l[j] => i = j
  BY <1>1, <1>3, <1>5
<1>12. \A i \in 1..Len(l) : l[i] \notin gone /\ \E j \in 1..Len(s) : l[i] = s[j]
  BY <1>2, <1>3, <1>5, Zenon
<1>13. QED
  BY <1>0, <1>7, <1>9, <1>10, <1>11, <1>12 DEF ProperList

-----------------------------------------------------------------------------
(* Listeners.                                                              *)

\* The path is finite, and knows where its elements are.
LEMMA PathFacts ==
    /\ Elements \in Seq(Node) /\ Len(Elements) \in Nat \ {0}
    /\ IsFiniteSet(Node)
    /\ \A i \in 1..Len(Elements) : Elements[i] \in Node /\ Depth(Elements[i]) = i
    /\ \A e \in Node : Depth(e) \in 1..Len(Elements) /\ Elements[Depth(e)] = e
<1>1. /\ Elements \in Seq(Node) /\ Len(Elements) \in Nat \ {0}
      /\ DOMAIN Elements = 1..Len(Elements)
  BY EventsAssumption, EmptySeq, LenProperties
<1>2. \A i \in 1..Len(Elements) : Elements[i] \in Node
  BY <1>1, ElementOfSeq
<1>3. \A i, j \in 1..Len(Elements) : Elements[i] = Elements[j] => i = j
  <2>1. \A i, j \in DOMAIN Elements : Elements[i] = Elements[j] => i = j
    BY EventsAssumption, Zenon DEF IsInjective
  <2>2. QED
    BY <1>1, <2>1
<1>4. ASSUME NEW e \in Node
      PROVE  Depth(e) \in 1..Len(Elements) /\ Elements[Depth(e)] = e
  <2>1. \E i \in DOMAIN Elements : Elements[i] = e
    BY Zenon DEF Node, ToSet
  <2>2. Depth(e) \in DOMAIN Elements /\ Elements[Depth(e)] = e
    BY <2>1, Zenon DEF Depth
  <2>3. QED
    BY <1>1, <2>2
<1>5. IsFiniteSet(Node)
  <2>1. IsFiniteSet(1..Len(Elements))
    BY <1>1, FS_Interval
  <2>2. Elements \in Surjection(1..Len(Elements), Node)
    BY <1>1, <1>4, LenProperties DEF Surjection
  <2>3. QED
    BY <2>1, <2>2, FS_Surjection
<1>6. QED
  BY <1>1, <1>2, <1>3, <1>4, <1>5

\* The elements with handlers for focusin, when the handlers of one element and
\* type change.
LEMMA FocusChanges ==
    ASSUME NEW D \in SUBSET Node, NEW D2 \in SUBSET Node, NEW e \in Node,
           \A x \in Node : x # e => (x \in D2 <=> x \in D)
    PROVE  /\ Cardinality(D) \in Nat /\ Cardinality(D2) \in Nat
           /\ (e \in D <=> e \in D2) => Cardinality(D2) = Cardinality(D)
           /\ e \notin D /\ e \in D2 => Cardinality(D2) = Cardinality(D) + 1
           /\ e \in D /\ e \notin D2 => Cardinality(D2) = Cardinality(D) - 1
<1>1. IsFiniteSet(D) /\ IsFiniteSet(D2)
  BY PathFacts, FS_Subset
<1>2. Cardinality(D) \in Nat /\ Cardinality(D2) \in Nat
  BY <1>1, FS_CardinalityType
<1>3. (e \in D <=> e \in D2) => D2 = D
  <2>1. (e \in D <=> e \in D2) => \A x \in Node : x \in D2 <=> x \in D
    BY Zenon
  <2>2. QED
    BY <2>1
<1>4. e \notin D /\ e \in D2 => D2 = D \cup {e}
  BY Zenon
<1>5. e \in D /\ e \notin D2 => D2 = D \ {e}
  BY Zenon
<1>6. Cardinality(D \cup {e}) = IF e \in D THEN Cardinality(D) ELSE Cardinality(D) + 1
  BY <1>1, FS_AddElement
<1>7. Cardinality(D \ {e}) = IF e \in D THEN Cardinality(D) - 1 ELSE Cardinality(D)
  BY <1>1, FS_RemoveElement
<1>8. e \notin D /\ e \in D2 => Cardinality(D2) = Cardinality(D) + 1
  BY <1>4, <1>6
<1>9. e \in D /\ e \notin D2 => Cardinality(D2) = Cardinality(D) - 1
  BY <1>5, <1>7
<1>10. QED
  BY <1>2, <1>3, <1>8, <1>9, Zenon

\* What a step does to the counters of focusin when it binds or unbinds
\* handlers of e.
FocusFollows(e) ==
    \/ (Bound(e, "focusin")' <=> Bound(e, "focusin")) /\ UNCHANGED <<attaches, capturing>>
    \/ Bound(e, "focusin")' /\ ~Bound(e, "focusin") /\ attaches' = attaches + 1 /\ capturing'
    \/ ~Bound(e, "focusin")' /\ Bound(e, "focusin") /\ attaches' = attaches - 1
       /\ (capturing' <=> attaches > 1)

\* A step that changes the handlers of one element.
LEMMA ListensStep ==
    ASSUME ListensInv, NEW e \in Node,
           events' \in [Node -> [Types -> HandlerLists]],
           \A x \in Node, u \in Types : ProperList(events'[x][u]),
           \A x \in Node, u \in Types : x # e => events'[x][u] = events[x][u],
           native' \in [Node -> SUBSET Types],
           \A x \in Node : x # e => native'[x] = native[x],
           "click" \in native'[e] <=> Bound(e, "click")',
           capturing' \in BOOLEAN,
           FocusFollows(e)
    PROVE  ListensInv'
<1>1. /\ native \in [Node -> SUBSET Types] /\ capturing \in BOOLEAN
      /\ \A x \in Node : "click" \in native[x] <=> Bound(x, "click")
      /\ attaches = Cardinality(FocusBound)
      /\ capturing <=> attaches # 0
  BY DEF ListensInv
<1>2. "click" \in Types /\ "focusin" \in Types
  BY DEF Types
<1>3. \A x \in Node, u \in Types : x # e => (Bound(x, u)' <=> Bound(x, u))
  BY Zenon DEF Bound
<1>4. ASSUME NEW x \in Node
      PROVE  "click" \in native'[x] <=> Bound(x, "click")'
  <2>1. CASE x = e
    BY <2>1, Zenon
  <2>2. CASE x # e
    <3>1. native'[x] = native[x]
      BY <2>2, Zenon
    <3>2. Bound(x, "click")' <=> Bound(x, "click")
      BY <1>2, <1>3, <2>2, Zenon
    <3>3. QED
      BY <1>1, <3>1, <3>2, Zenon
  <2>3. QED
    BY <2>1, <2>2
<1>6. PICK D : D = FocusBound
  OBVIOUS
<1>7. PICK D2 : D2 = FocusBound'
  OBVIOUS
<1>8. /\ D \in SUBSET Node /\ D2 \in SUBSET Node
      /\ \A x \in Node : x \in D <=> Bound(x, "focusin")
      /\ \A x \in Node : x \in D2 <=> Bound(x, "focusin")'
  BY <1>6, <1>7, Zenon DEF FocusBound
<1>9. \A x \in Node : x # e => (x \in D2 <=> x \in D)
  BY <1>2, <1>3, <1>8, Zenon
<1>10. /\ Cardinality(D) \in Nat /\ Cardinality(D2) \in Nat
       /\ (e \in D <=> e \in D2) => Cardinality(D2) = Cardinality(D)
       /\ e \notin D /\ e \in D2 => Cardinality(D2) = Cardinality(D) + 1
       /\ e \in D /\ e \notin D2 => Cardinality(D2) = Cardinality(D) - 1
  BY <1>8, <1>9, FocusChanges
<1>11. attaches' = Cardinality(FocusBound)' /\ (capturing' <=> attaches' # 0)
  <2>1. attaches = Cardinality(D) /\ (capturing <=> Cardinality(D) # 0)
    BY <1>1, <1>6, Zenon
  <2>2. attaches' = Cardinality(D2) /\ (capturing' <=> Cardinality(D2) # 0)
    <3>1. CASE (Bound(e, "focusin")' <=> Bound(e, "focusin")) /\ UNCHANGED <<attaches, capturing>>
      <4>1. e \in D <=> e \in D2
        BY <1>8, <3>1, Zenon
      <4>2. QED
        BY <1>10, <2>1, <3>1, <4>1
    <3>2. CASE Bound(e, "focusin")' /\ ~Bound(e, "focusin") /\ attaches' = attaches + 1 /\ capturing'
      <4>1. e \notin D /\ e \in D2
        BY <1>8, <3>2, Zenon
      <4>2. Cardinality(D2) = Cardinality(D) + 1
        BY <1>10, <4>1, Zenon
      <4>3. attaches' = attaches + 1 /\ capturing'
        BY <3>2, Zenon
      <4>4. QED
        BY <1>10, <2>1, <4>2, <4>3
    <3>3. CASE /\ ~Bound(e, "focusin")' /\ Bound(e, "focusin") /\ attaches' = attaches - 1
               /\ capturing' <=> attaches > 1
      <4>1. e \in D /\ e \notin D2
        BY <1>8, <3>3, Zenon
      <4>2. Cardinality(D2) = Cardinality(D) - 1
        BY <1>10, <4>1, Zenon
      <4>3. attaches' = attaches - 1 /\ (capturing' <=> attaches > 1)
        BY <3>3, Zenon
      <4>4. QED
        BY <1>10, <2>1, <4>2, <4>3
    <3>4. QED
      BY <3>1, <3>2, <3>3, Zenon DEF FocusFollows
  <2>3. QED
    BY <1>7, <2>2, Zenon
<1>12. QED
  BY <1>4, <1>11, Zenon DEF ListensInv

\* jQuery begins or ceases to listen for t at e when the handlers become g.
ListenersTurn(e, t, g) ==
    \/ (Bound(e, t) <=> g.list # <<>>) /\ UNCHANGED <<native, attaches, capturing>>
    \/ ~Bound(e, t) /\ g.list # <<>> /\ Listen(e, t)
    \/ Bound(e, t) /\ g.list = <<>> /\ Unlisten(e, t)

\* The handlers of e for t become g, and jQuery listens for t at e if there are
\* any.
LEMMA ListChanges ==
    ASSUME ListensInv, NEW e \in Node, NEW t \in Types, NEW g, ProperList(g),
           events' = [events EXCEPT ![e][t] = g], ListenersTurn(e, t, g)
    PROVE  /\ ListensInv'
           /\ events'[e][t] = g
           /\ \A x \in Node, u \in Types : x # e \/ u # t => events'[x][u] = events[x][u]
<1>1. /\ events \in [Node -> [Types -> HandlerLists]]
      /\ \A x \in Node, u \in Types : ProperList(events[x][u])
      /\ native \in [Node -> SUBSET Types] /\ capturing \in BOOLEAN
      /\ \A x \in Node : "click" \in native[x] <=> Bound(x, "click")
  BY DEF ListensInv
<1>2. g \in HandlerLists
  BY DEF ProperList
<1>3. /\ events' \in [Node -> [Types -> HandlerLists]]
      /\ events'[e][t] = g
      /\ \A x \in Node, u \in Types : x # e \/ u # t => events'[x][u] = events[x][u]
  BY <1>1, <1>2
<1>4. \A x \in Node, u \in Types : ProperList(events'[x][u])
  BY <1>1, <1>3, Zenon
<1>5. Bound(e, t)' <=> g.list # <<>>
  BY <1>3, Zenon DEF Bound
<1>6. \A u \in Types : u # t => (Bound(e, u)' <=> Bound(e, u))
  BY <1>3, Zenon DEF Bound
<1>7. "click" \in Types /\ "focusin" \in Types /\ "click" # "focusin"
      /\ (t = "click" \/ t = "focusin")
  BY DEF Types
<1>8. CASE (Bound(e, t) <=> g.list # <<>>) /\ UNCHANGED <<native, attaches, capturing>>
  <2>1. \A u \in Types : Bound(e, u)' <=> Bound(e, u)
    BY <1>5, <1>6, <1>8, Zenon
  <2>2. FocusFollows(e)
    BY <1>7, <1>8, <2>1, Zenon DEF FocusFollows
  <2>3. "click" \in native'[e] <=> Bound(e, "click")'
    BY <1>1, <1>7, <1>8, <2>1, Zenon
  <2>4. native' \in [Node -> SUBSET Types] /\ native' = native /\ capturing' \in BOOLEAN
    BY <1>1, <1>8, Zenon
  <2>5. QED
    BY <1>3, <1>4, <2>2, <2>3, <2>4, ListensStep, Zenon
<1>9. CASE t = "focusin" /\ ~Bound(e, t) /\ g.list # <<>> /\ Listen(e, t)
  <2>1. attaches' = attaches + 1 /\ capturing' = TRUE /\ native' = native
    BY <1>9, Zenon DEF Listen
  <2>2. FocusFollows(e) /\ capturing' \in BOOLEAN
    BY <1>5, <1>9, <2>1, Zenon DEF FocusFollows
  <2>3. "click" \in native'[e] <=> Bound(e, "click")'
    BY <1>1, <1>6, <1>7, <1>9, <2>1, Zenon
  <2>4. native' \in [Node -> SUBSET Types]
    BY <1>1, <2>1, Zenon
  <2>5. QED
    BY <1>3, <1>4, <2>1, <2>2, <2>3, <2>4, ListensStep, Zenon
<1>10. CASE t = "click" /\ ~Bound(e, t) /\ g.list # <<>> /\ Listen(e, t)
  <2>1. native' = [native EXCEPT ![e] = @ \cup {t}] /\ UNCHANGED <<attaches, capturing>>
    BY <1>7, <1>10, Zenon DEF Listen
  <2>2. FocusFollows(e) /\ capturing' \in BOOLEAN
    BY <1>1, <1>6, <1>7, <1>10, <2>1, Zenon DEF FocusFollows
  <2>3. /\ native' \in [Node -> SUBSET Types] /\ "click" \in native'[e]
        /\ \A x \in Node : x # e => native'[x] = native[x]
    BY <1>1, <1>7, <1>10, <2>1
  <2>4. "click" \in native'[e] <=> Bound(e, "click")'
    BY <1>5, <1>10, <2>3, Zenon
  <2>5. QED
    BY <1>3, <1>4, <2>2, <2>3, <2>4, ListensStep, Zenon
<1>11. CASE t = "focusin" /\ Bound(e, t) /\ g.list = <<>> /\ Unlisten(e, t)
  <2>1. attaches' = attaches - 1 /\ capturing' = (attaches > 1) /\ native' = native
    BY <1>11, Zenon DEF Unlisten
  <2>2. capturing' \in BOOLEAN /\ (capturing' <=> attaches > 1)
    <3>1. capturing' = (attaches > 1)
      BY <2>1, Zenon
    <3>2. capturing' \in BOOLEAN
      BY <3>1, Z3
    <3>3. QED
      BY <3>1, <3>2, Zenon
  <2>3. FocusFollows(e)
    BY <1>5, <1>11, <2>1, <2>2, Zenon DEF FocusFollows
  <2>4. "click" \in native'[e] <=> Bound(e, "click")'
    BY <1>1, <1>6, <1>7, <1>11, <2>1, Zenon
  <2>5. native' \in [Node -> SUBSET Types]
    BY <1>1, <2>1, Zenon
  <2>6. QED
    BY <1>3, <1>4, <2>1, <2>2, <2>3, <2>4, <2>5, ListensStep, Zenon
<1>12. CASE t = "click" /\ Bound(e, t) /\ g.list = <<>> /\ Unlisten(e, t)
  <2>1. native' = [native EXCEPT ![e] = @ \ {t}] /\ UNCHANGED <<attaches, capturing>>
    BY <1>7, <1>12, Zenon DEF Unlisten
  <2>2. FocusFollows(e) /\ capturing' \in BOOLEAN
    BY <1>1, <1>6, <1>7, <1>12, <2>1, Zenon DEF FocusFollows
  <2>3. /\ native' \in [Node -> SUBSET Types] /\ "click" \notin native'[e]
        /\ \A x \in Node : x # e => native'[x] = native[x]
    BY <1>1, <1>7, <1>12, <2>1
  <2>4. "click" \in native'[e] <=> Bound(e, "click")'
    BY <1>5, <1>12, <2>3, Zenon
  <2>5. QED
    BY <1>3, <1>4, <2>2, <2>3, <2>4, ListensStep, Zenon
<1>13. QED
  BY <1>7, <1>8, <1>9, <1>10, <1>11, <1>12, Zenon DEF ListenersTurn

\* jQuery.event.add binds b, and the listeners follow.
LEMMA AddKeeps ==
    ASSUME ListensInv, NEW e \in Node, NEW t \in Types, NEW b \in Bindings,
           ~Contains(events[e][t].list, b), Add(e, t, b)
    PROVE  /\ ListensInv'
           /\ \A x \in Node, u \in Types : \A c \in BoundAt(x, u)' :
                c \in BoundAt(x, u) \/ (x = e /\ u = t /\ c = b)
<1>1. PICK g : g = Insert(events[e][t], b)
  OBVIOUS
<1>2. PICK h : h = events[e][t]
  OBVIOUS
<1>3. ProperList(h) /\ events \in [Node -> [Types -> HandlerLists]]
  BY <1>2 DEF ListensInv
<1>4. /\ ProperList(g) /\ g.list # <<>>
      /\ \A i \in 1..Len(g.list) :
           g.list[i] = b \/ \E j \in 1..Len(h.list) : g.list[i] = h.list[j]
  BY <1>1, <1>2, <1>3, InsertKeeps
<1>5. events' = [events EXCEPT ![e][t] = g]
  BY <1>1, <1>3, Zenon DEF Add
<1>6. ListenersTurn(e, t, g)
  BY <1>4, Zenon DEF Add, ListenersTurn
<1>7. /\ ListensInv'
      /\ events'[e][t] = g
      /\ \A x \in Node, u \in Types : x # e \/ u # t => events'[x][u] = events[x][u]
  BY <1>4, <1>5, <1>6, ListChanges, Zenon
<1>8. ASSUME NEW x \in Node, NEW u \in Types, NEW c \in BoundAt(x, u)'
      PROVE  c \in BoundAt(x, u) \/ (x = e /\ u = t /\ c = b)
  <2>1. CASE x = e /\ u = t
    <3>1. \E i \in 1..Len(g.list) : c = g.list[i]
      BY <1>7, <2>1, Zenon DEF BoundAt
    <3>2. c = b \/ \E j \in 1..Len(h.list) : c = h.list[j]
      BY <1>4, <3>1, Zenon
    <3>3. QED
      BY <1>2, <2>1, <3>2, Zenon DEF BoundAt
  <2>2. CASE x # e \/ u # t
    BY <1>7, <2>2, Zenon DEF BoundAt
  <2>3. QED
    BY <2>1, <2>2
<1>9. QED
  BY <1>7, <1>8

\* jQuery.event.remove leaves nothing that matches, and the listeners follow.
LEMMA RemoveKeeps ==
    ASSUME ListensInv, NEW e \in Node, NEW t \in Types, NEW fn, NEW ns, NEW sel,
           RemoveFrom(e, t, fn, ns, sel)
    PROVE  /\ ListensInv'
           /\ \A x \in Node, u \in Types : \A c \in BoundAt(x, u)' :
                c \in BoundAt(x, u) /\ (x = e /\ u = t => ~Matches(c, fn, ns, sel))
<1>1. PICK gone : gone = {b \in Bindings : Matches(b, fn, ns, sel)}
  OBVIOUS
<1>2. PICK h : h = events[e][t]
  OBVIOUS
<1>3. PICK g : g = Unbound(h, gone)
  OBVIOUS
<1>4. ProperList(h) /\ events \in [Node -> [Types -> HandlerLists]]
  BY <1>2 DEF ListensInv
<1>5. /\ ProperList(g)
      /\ \A i \in 1..Len(g.list) :
           g.list[i] \notin gone /\ \E j \in 1..Len(h.list) : g.list[i] = h.list[j]
  BY <1>3, <1>4, UnboundKeeps
<1>6. /\ events' = [events EXCEPT ![e][t] = g]
      /\ IF Bound(e, t) /\ g.list = <<>>
         THEN Unlisten(e, t)
         ELSE UNCHANGED <<native, attaches, capturing>>
  BY <1>1, <1>2, <1>3, Zenon DEF RemoveFrom
<1>7. ~Bound(e, t) => g.list = <<>>
  <2>1. ASSUME h.list = <<>> PROVE g.list = <<>>
    <3>1. h \in HandlerLists /\ g \in HandlerLists
      BY <1>4, <1>5 DEF ProperList
    <3>2. Len(h.list) = 0 /\ Len(g.list) \in Nat
      BY <2>1, <3>1, ListFields
    <3>3. Len(g.list) = 0
      BY <1>5, <3>2
    <3>4. QED
      BY <3>1, <3>3, ListFields
  <2>2. QED
    BY <1>2, <2>1, Zenon DEF Bound
<1>8. ListenersTurn(e, t, g)
  BY <1>6, <1>7, Zenon DEF ListenersTurn
<1>9. /\ ListensInv'
      /\ events'[e][t] = g
      /\ \A x \in Node, u \in Types : x # e \/ u # t => events'[x][u] = events[x][u]
  <2>1. events' = [events EXCEPT ![e][t] = g] /\ ProperList(g)
    BY <1>5, <1>6, Zenon
  <2>2. QED
    BY <1>8, <2>1, ListChanges, Zenon
<1>10. ASSUME NEW x \in Node, NEW u \in Types, NEW c \in BoundAt(x, u)'
       PROVE  c \in BoundAt(x, u) /\ (x = e /\ u = t => ~Matches(c, fn, ns, sel))
  <2>1. CASE x = e /\ u = t
    <3>1. PICK i \in 1..Len(g.list) : c = g.list[i]
      BY <1>9, <2>1, Zenon DEF BoundAt
    <3>2. c \notin gone /\ \E j \in 1..Len(h.list) : c = h.list[j]
      BY <1>5, <3>1, Zenon
    <3>3. c \in BoundAt(x, u)
      BY <1>2, <2>1, <3>2, Zenon DEF BoundAt
    <3>4. c \in Bindings
      <4>1. g \in HandlerLists
        BY <1>5 DEF ProperList
      <4>2. QED
        BY <3>1, <4>1, ListFields
    <3>5. QED
      BY <1>1, <3>2, <3>3, <3>4, Zenon
  <2>2. CASE x # e \/ u # t
    BY <1>9, <2>2, Zenon DEF BoundAt
  <2>3. QED
    BY <2>1, <2>2
<1>11. QED
  BY <1>9, <1>10

\* jQuery.cleanData leaves nothing at e, and the listeners follow.
LEMMA CleanKeeps ==
    ASSUME ListensInv, NEW e \in Node, CleanData(e)
    PROVE  /\ ListensInv'
           /\ \A x \in Node, u \in Types : \A c \in BoundAt(x, u)' : c \in BoundAt(x, u)
<1>1. PICK g : g = [list |-> <<>>, delegateCount |-> 0]
  OBVIOUS
<1>2. g.list = <<>> /\ g.delegateCount = 0 /\ g \in HandlerLists /\ Len(g.list) = 0
  <2>1. <<>> \in Seq(Bindings) /\ Len(<<>>) = 0
    BY EmptySeq
  <2>2. QED
    BY <1>1, <2>1 DEF HandlerLists
<1>3. ProperList(g)
  BY <1>2 DEF ProperList
<1>4. /\ events \in [Node -> [Types -> HandlerLists]]
      /\ \A x \in Node, u \in Types : ProperList(events[x][u])
      /\ native \in [Node -> SUBSET Types] /\ capturing \in BOOLEAN
  BY DEF ListensInv
<1>5. events' = [events EXCEPT ![e] = [t \in Types |-> g]]
  BY <1>1 DEF CleanData
<1>6. /\ events' \in [Node -> [Types -> HandlerLists]]
      /\ \A u \in Types : events'[e][u] = g
      /\ \A x \in Node, u \in Types : x # e => events'[x][u] = events[x][u]
  BY <1>2, <1>4, <1>5
<1>7. \A x \in Node, u \in Types : ProperList(events'[x][u])
  BY <1>3, <1>4, <1>6, Zenon
<1>8. \A u \in Types : ~Bound(e, u)'
  BY <1>2, <1>6, Zenon DEF Bound
<1>9. native' = [native EXCEPT ![e] = {}]
  BY Zenon DEF CleanData
<1>10. /\ native' \in [Node -> SUBSET Types] /\ "click" \notin native'[e]
       /\ \A x \in Node : x # e => native'[x] = native[x]
  BY <1>4, <1>9
<1>11. FocusFollows(e) /\ capturing' \in BOOLEAN
  <2>1. ~Bound(e, "focusin")'
    BY <1>8 DEF Types
  <2>2. CASE Bound(e, "focusin")
    <3>1. attaches' = attaches - 1 /\ capturing' = (attaches > 1)
      BY <2>2, Zenon DEF CleanData
    <3>2. capturing' = (attaches > 1)
      BY <3>1, Zenon
    <3>3. capturing' \in BOOLEAN
      BY <3>2, Z3
    <3>4. FocusFollows(e)
      BY <2>1, <2>2, <3>1, Zenon DEF FocusFollows
    <3>5. QED
      BY <3>3, <3>4
  <2>3. CASE ~Bound(e, "focusin")
    <3>1. UNCHANGED <<attaches, capturing>>
      BY <2>3, Zenon DEF CleanData
    <3>2. FocusFollows(e)
      BY <2>1, <2>3, <3>1, Zenon DEF FocusFollows
    <3>3. QED
      BY <1>4, <3>1, <3>2, Zenon
  <2>4. QED
    BY <2>2, <2>3
<1>12. ListensInv'
  <2>1. "click" \in native'[e] <=> Bound(e, "click")'
    BY <1>8, <1>10 DEF Types
  <2>2. QED
    BY <1>6, <1>7, <1>10, <1>11, <2>1, ListensStep, Zenon
<1>13. ASSUME NEW x \in Node, NEW u \in Types, NEW c \in BoundAt(x, u)'
       PROVE  c \in BoundAt(x, u)
  <2>1. CASE x = e
    <3>1. \E i \in 1..Len(g.list) : c = g.list[i]
      BY <1>6, <2>1, Zenon DEF BoundAt
    <3>2. QED
      BY <1>2, <3>1
  <2>2. CASE x # e
    BY <1>6, <2>2, Zenon DEF BoundAt
  <2>3. QED
    BY <2>1, <2>2
<1>14. QED
  BY <1>12, <1>13

-----------------------------------------------------------------------------
(* Queues.                                                                 *)

\* The types of what is in a queue.
LEMMA QueueFields ==
    ASSUME NEW s \in Queues
    PROVE  /\ s \in Seq(Node \X Seq(Bindings)) /\ Len(s) \in Nat /\ DOMAIN s = 1..Len(s)
           /\ \A n \in 1..Len(s) :
                /\ s[n] = <<s[n][1], s[n][2]>>
                /\ s[n][1] \in Node /\ s[n][2] \in Seq(Bindings) /\ Width(s, n) \in Nat
                /\ DOMAIN s[n][2] = 1..Width(s, n)
                /\ \A i \in 1..Width(s, n) : At(s, n, i) \in Bindings
<1>1. s \in Seq(Node \X Seq(Bindings)) /\ Len(s) \in Nat /\ DOMAIN s = 1..Len(s)
  BY LenProperties DEF Queues
<1>2. ASSUME NEW n \in 1..Len(s)
      PROVE  /\ s[n] = <<s[n][1], s[n][2]>>
             /\ s[n][1] \in Node /\ s[n][2] \in Seq(Bindings)
  BY <1>1, ElementOfSeq
<1>3. ASSUME NEW n \in 1..Len(s)
      PROVE  /\ Width(s, n) \in Nat
             /\ DOMAIN s[n][2] = 1..Width(s, n)
             /\ \A i \in 1..Width(s, n) : At(s, n, i) \in Bindings
  <2>1. PICK w : w = s[n][2]
    OBVIOUS
  <2>2. w \in Seq(Bindings)
    BY <1>2, <2>1
  <2>3. /\ Len(w) \in Nat /\ DOMAIN w = 1..Len(w)
        /\ \A i \in 1..Len(w) : w[i] \in Bindings
    BY <2>2, LenProperties, ElementOfSeq
  <2>4. QED
    BY <2>1, <2>3, Zenon DEF Width, At
<1>4. QED
  BY <1>1, <1>2, <1>3

\* What is in a queue, by its places there.
LEMMA QueueHolds ==
    ASSUME NEW s \in Queues
    PROVE  /\ \A b : b \in Members(s) <=>
                \E n \in 1..Len(s) : \E i \in 1..Width(s, n) : b = At(s, n, i)
           /\ \A c : c \in Calls(s) <=>
                \E n \in 1..Len(s) : \E i \in 1..Width(s, n) : c = Call(s, n, i)
<1>1. \A n \in 1..Len(s) : s[n][1] \in Node /\ \A i \in 1..Width(s, n) : At(s, n, i) \in Bindings
  BY QueueFields
<1>2. \A n \in 1..Len(s) : \A i \in 1..Width(s, n) : Call(s, n, i) \in Node \X Bindings
  BY <1>1 DEF Call
<1>3. \A b : b \in Members(s) <=>
        \E n \in 1..Len(s) : \E i \in 1..Width(s, n) : b = At(s, n, i)
  BY <1>1, Zenon DEF Members
<1>4. \A c : c \in Calls(s) <=>
        \E n \in 1..Len(s) : \E i \in 1..Width(s, n) : c = Call(s, n, i)
  <2>1. PICK P : P = Node \X Bindings
    OBVIOUS
  <2>2. \A c : c \in Calls(s) <=>
          c \in P /\ \E n \in 1..Len(s) : \E i \in 1..Width(s, n) : c = Call(s, n, i)
    BY <2>1, Zenon DEF Calls
  <2>3. QED
    BY <1>2, <2>1, <2>2, Zenon
<1>5. QED
  BY <1>3, <1>4

\* An empty queue holds nothing.
LEMMA NoQueue ==
    /\ <<>> \in Queues /\ ProperQueue(<<>>)
    /\ Members(<<>>) = {} /\ Calls(<<>>) = {}
<1>1. <<>> \in Queues /\ Len(<<>>) = 0
  BY EmptySeq DEF Queues
<1>2. \A n : n \notin 1..Len(<<>>)
  BY <1>1
<1>3. (\A b : b \notin Members(<<>>)) /\ \A c : c \notin Calls(<<>>)
  BY <1>1, <1>2, QueueHolds, Zenon
<1>4. QED
  BY <1>1, <1>2, <1>3, Zenon DEF ProperQueue

\* What is left of a queue when the first handler of its first element is taken.
LEMMA TakeHandler ==
    ASSUME NEW s \in Queues, ProperQueue(s), NEW r \in Queues, Len(s) > 0, Len(r) = Len(s),
           r[1][1] = s[1][1], Width(r, 1) > 0, Width(r, 1) = Width(s, 1) - 1,
           \A i \in 1..Width(r, 1) : At(r, 1, i) = At(s, 1, i + 1),
           \A n \in 2..Len(s) : r[n] = s[n]
    PROVE  /\ ProperQueue(r)
           /\ \A c \in Members(r) : c \in Members(s) /\ c # At(s, 1, 1)
           /\ Calls(s) = Calls(r) \cup {Call(s, 1, 1)}
<1>1. /\ Len(s) \in Nat
      /\ \A n \in 1..Len(s) : Width(s, n) \in Nat /\ Width(s, n) > 0 /\ Width(r, n) \in Nat
  BY QueueFields DEF ProperQueue
<1>2. \A n, m \in 1..Len(s) : \A i \in 1..Width(s, n), j \in 1..Width(s, m) :
        At(s, n, i) = At(s, m, j) => n = m /\ i = j
  BY Zenon DEF ProperQueue
<1>3. 1 \in 1..Len(s) /\ 1 \in 1..Width(s, 1)
  BY <1>1
<1>4. ASSUME NEW n \in 1..Len(s), n # 1
      PROVE  Width(r, n) = Width(s, n) /\ \A i : At(r, n, i) = At(s, n, i) /\ Call(r, n, i) = Call(s, n, i)
  <2>1. r[n] = s[n]
    BY <1>1, <1>4
  <2>2. QED
    BY <2>1, Zenon DEF Width, At, Call
<1>5. \A n \in 1..Len(s) : Width(r, n) > 0
  BY <1>1, <1>4, Zenon
<1>6. ASSUME NEW n \in 1..Len(s), NEW i \in 1..Width(r, n)
      PROVE  \E k \in 1..Width(s, n) : /\ n = 1 => k = i + 1
                                       /\ n # 1 => k = i
                                       /\ At(r, n, i) = At(s, n, k)
                                       /\ Call(r, n, i) = Call(s, n, k)
  <2>1. CASE n = 1
    <3>1. PICK k : k = i + 1
      OBVIOUS
    <3>2. k \in 1..Width(s, 1) /\ At(r, 1, i) = At(s, 1, k)
      BY <1>1, <1>3, <2>1, <3>1
    <3>3. Call(r, n, i) = Call(s, n, k)
      BY <2>1, <3>2, Zenon DEF Call
    <3>4. QED
      BY <2>1, <3>1, <3>2, <3>3, Zenon
  <2>2. CASE n # 1
    BY <1>4, <2>2, Zenon
  <2>3. QED
    BY <2>1, <2>2
<1>7. ProperQueue(r)
  <2>1. ASSUME NEW n \in 1..Len(s), NEW m \in 1..Len(s),
               NEW i \in 1..Width(r, n), NEW j \in 1..Width(r, m),
               At(r, n, i) = At(r, m, j)
        PROVE  n = m /\ i = j
    <3>1. PICK k \in 1..Width(s, n) : /\ n = 1 => k = i + 1
                                      /\ n # 1 => k = i
                                      /\ At(r, n, i) = At(s, n, k)
      BY <1>6, Zenon
    <3>2. PICK l \in 1..Width(s, m) : /\ m = 1 => l = j + 1
                                      /\ m # 1 => l = j
                                      /\ At(r, m, j) = At(s, m, l)
      BY <1>6, Zenon
    <3>3. At(s, n, k) = At(s, m, l)
      BY <2>1, <3>1, <3>2, Zenon
    <3>4. n = m /\ k = l
      BY <1>2, <3>3
    <3>5. i \in Int /\ j \in Int
      OBVIOUS
    <3>6. QED
      BY <3>1, <3>2, <3>4, <3>5
  <2>2. QED
    BY <1>5, <2>1 DEF ProperQueue
<1>8. ASSUME NEW n \in 1..Len(s), NEW i \in 1..Width(r, n)
      PROVE  /\ At(r, n, i) \in Members(s) /\ At(r, n, i) # At(s, 1, 1)
             /\ Call(r, n, i) \in Calls(s)
  <2>1. PICK k \in 1..Width(s, n) : /\ n = 1 => k = i + 1
                                    /\ At(r, n, i) = At(s, n, k)
                                    /\ Call(r, n, i) = Call(s, n, k)
    BY <1>6, Zenon
  <2>2. ~(n = 1 /\ k = 1)
    BY <2>1
  <2>3. At(s, n, k) # At(s, 1, 1)
    BY <1>2, <1>3, <2>2
  <2>4. QED
    BY <2>1, <2>3, QueueHolds, Zenon
<1>9. ASSUME NEW n \in 1..Len(s), NEW i \in 1..Width(s, n), ~(n = 1 /\ i = 1)
      PROVE  Call(s, n, i) \in Calls(r)
  <2>1. \E j \in 1..Width(r, n) : Call(r, n, j) = Call(s, n, i)
    <3>1. CASE n = 1
      <4>1. PICK j : j = i - 1
        OBVIOUS
      <4>2. j \in 1..Width(r, 1) /\ j + 1 = i
        BY <1>1, <1>3, <1>9, <3>1, <4>1
      <4>3. PICK k \in 1..Width(s, 1) : k = j + 1 /\ Call(r, 1, j) = Call(s, 1, k)
        BY <1>3, <1>6, <4>2, Zenon
      <4>4. QED
        BY <3>1, <4>2, <4>3, Zenon
    <3>2. CASE n # 1
      BY <1>4, <3>2, Zenon
    <3>3. QED
      BY <3>1, <3>2
  <2>2. QED
    BY <2>1, QueueHolds, Zenon
<1>10. Call(s, 1, 1) \in Calls(s)
  BY <1>3, QueueHolds, Zenon
<1>11. Calls(s) = Calls(r) \cup {Call(s, 1, 1)}
  <2>1. ASSUME NEW c \in Calls(s) PROVE c \in Calls(r) \cup {Call(s, 1, 1)}
    <3>1. PICK n \in 1..Len(s) : \E i \in 1..Width(s, n) : c = Call(s, n, i)
      BY QueueHolds
    <3>2. PICK i \in 1..Width(s, n) : c = Call(s, n, i)
      BY <3>1
    <3>3. QED
      BY <1>9, <3>2
  <2>2. ASSUME NEW c \in Calls(r) PROVE c \in Calls(s)
    <3>1. PICK n \in 1..Len(s) : \E i \in 1..Width(r, n) : c = Call(r, n, i)
      BY QueueHolds
    <3>2. QED
      BY <1>8, <3>1
  <2>3. QED
    BY <1>10, <2>1, <2>2
<1>12. ASSUME NEW c \in Members(r)
       PROVE  c \in Members(s) /\ c # At(s, 1, 1)
  <2>1. PICK n \in 1..Len(s) : \E i \in 1..Width(r, n) : c = At(r, n, i)
    BY QueueHolds
  <2>2. QED
    BY <1>8, <2>1
<1>13. QED
  BY <1>7, <1>11, <1>12

\* What is left of a queue when the only handler of its first element is taken.
LEMMA TakeElement ==
    ASSUME NEW s \in Queues, ProperQueue(s), NEW r \in Queues, Len(s) > 0,
           Width(s, 1) = 1, Len(r) = Len(s) - 1, \A n \in 1..Len(r) : r[n] = s[n + 1]
    PROVE  /\ ProperQueue(r)
           /\ \A c \in Members(r) : c \in Members(s) /\ c # At(s, 1, 1)
           /\ Calls(s) = Calls(r) \cup {Call(s, 1, 1)}
<1>1. Len(s) \in Nat /\ Len(r) \in Nat /\ \A n \in 1..Len(s) : Width(s, n) > 0
  BY QueueFields DEF ProperQueue
<1>2. \A n, m \in 1..Len(s) : \A i \in 1..Width(s, n), j \in 1..Width(s, m) :
        At(s, n, i) = At(s, m, j) => n = m /\ i = j
  BY Zenon DEF ProperQueue
<1>3. 1 \in 1..Len(s) /\ 1 \in 1..Width(s, 1) /\ \A i \in 1..Width(s, 1) : i = 1
  BY <1>1
<1>4. ASSUME NEW n \in 1..Len(r)
      PROVE  \E m \in 1..Len(s) : /\ m = n + 1 /\ m # 1 /\ Width(r, n) = Width(s, m)
                                  /\ \A i : /\ At(r, n, i) = At(s, m, i)
                                            /\ Call(r, n, i) = Call(s, m, i)
  <2>1. PICK m : m = n + 1
    OBVIOUS
  <2>2. m \in 1..Len(s) /\ m # 1 /\ r[n] = s[m]
    BY <1>1, <2>1
  <2>3. QED
    BY <2>1, <2>2, Zenon DEF Width, At, Call
<1>5. ProperQueue(r)
  <2>1. ASSUME NEW n \in 1..Len(r), NEW m \in 1..Len(r),
               NEW i \in 1..Width(r, n), NEW j \in 1..Width(r, m),
               At(r, n, i) = At(r, m, j)
        PROVE  n = m /\ i = j
    <3>1. PICK k \in 1..Len(s) : /\ k = n + 1 /\ Width(r, n) = Width(s, k)
                                 /\ At(r, n, i) = At(s, k, i)
      BY <1>4, Zenon
    <3>2. PICK l \in 1..Len(s) : /\ l = m + 1 /\ Width(r, m) = Width(s, l)
                                 /\ At(r, m, j) = At(s, l, j)
      BY <1>4, Zenon
    <3>3. At(s, k, i) = At(s, l, j) /\ i \in 1..Width(s, k) /\ j \in 1..Width(s, l)
      BY <2>1, <3>1, <3>2, Zenon
    <3>4. k = l /\ i = j
      BY <1>2, <3>3
    <3>5. n \in Int /\ m \in Int
      OBVIOUS
    <3>6. QED
      BY <3>1, <3>2, <3>4, <3>5
  <2>2. \A n \in 1..Len(r) : Width(r, n) > 0
    BY <1>1, <1>4, Zenon
  <2>3. QED
    BY <2>1, <2>2, Zenon DEF ProperQueue
<1>6. ASSUME NEW n \in 1..Len(r), NEW i \in 1..Width(r, n)
      PROVE  /\ At(r, n, i) \in Members(s) /\ At(r, n, i) # At(s, 1, 1)
             /\ Call(r, n, i) \in Calls(s)
  <2>1. PICK m \in 1..Len(s) : /\ m # 1 /\ Width(r, n) = Width(s, m)
                               /\ At(r, n, i) = At(s, m, i) /\ Call(r, n, i) = Call(s, m, i)
    BY <1>4, Zenon
  <2>2. i \in 1..Width(s, m)
    BY <2>1, Zenon
  <2>3. At(s, m, i) # At(s, 1, 1)
    BY <1>2, <1>3, <2>1, <2>2
  <2>4. QED
    BY <2>1, <2>2, <2>3, QueueHolds, Zenon
<1>7. ASSUME NEW n \in 1..Len(s), NEW i \in 1..Width(s, n), ~(n = 1 /\ i = 1)
      PROVE  Call(s, n, i) \in Calls(r)
  <2>1. n # 1
    BY <1>3, <1>7, Zenon
  <2>2. PICK m : m = n - 1
    OBVIOUS
  <2>3. m \in 1..Len(r) /\ m + 1 = n
    BY <1>1, <2>1, <2>2
  <2>4. Width(r, m) = Width(s, n) /\ Call(r, m, i) = Call(s, n, i)
    BY <1>4, <2>3, Zenon
  <2>5. i \in 1..Width(r, m)
    BY <2>4, Zenon
  <2>6. QED
    BY <2>3, <2>4, <2>5, QueueHolds, Zenon
<1>8. Call(s, 1, 1) \in Calls(s)
  BY <1>3, QueueHolds, Zenon
<1>9. Calls(s) = Calls(r) \cup {Call(s, 1, 1)}
  <2>1. ASSUME NEW c \in Calls(s) PROVE c \in Calls(r) \cup {Call(s, 1, 1)}
    <3>1. PICK n \in 1..Len(s) : \E i \in 1..Width(s, n) : c = Call(s, n, i)
      BY QueueHolds
    <3>2. PICK i \in 1..Width(s, n) : c = Call(s, n, i)
      BY <3>1
    <3>3. QED
      BY <1>7, <3>2
  <2>2. ASSUME NEW c \in Calls(r) PROVE c \in Calls(s)
    <3>1. PICK n \in 1..Len(r) : \E i \in 1..Width(r, n) : c = Call(r, n, i)
      BY QueueHolds
    <3>2. QED
      BY <1>6, <3>1
  <2>3. QED
    BY <1>8, <2>1, <2>2
<1>10. ASSUME NEW c \in Members(r)
       PROVE  c \in Members(s) /\ c # At(s, 1, 1)
  <2>1. PICK n \in 1..Len(r) : \E i \in 1..Width(r, n) : c = At(r, n, i)
    BY QueueHolds
  <2>2. QED
    BY <1>6, <2>1
<1>11. QED
  BY <1>5, <1>9, <1>10

\* A sequence with a first element put in front of another sequence.
LEMMA PutInFront ==
    ASSUME NEW S, NEW x \in S, NEW u \in Seq(S), NEW r, r = <<x>> \o u
    PROVE  /\ r \in Seq(S) /\ Len(r) = Len(u) + 1 /\ r[1] = x
           /\ \A n \in 1..Len(u) : r[n + 1] = u[n]
<1>1. PICK y : y = <<x>>
  OBVIOUS
<1>2. y \in Seq(S) /\ Len(y) = 1 /\ y[1] = x /\ Len(u) \in Nat
  BY <1>1
<1>3. r = y \o u
  BY <1>1, Zenon
<1>4. /\ r \in Seq(S) /\ Len(r) = Len(y) + Len(u)
      /\ \A n \in 1..(Len(y) + Len(u)) : r[n] = IF n <= Len(y) THEN y[n] ELSE u[n - Len(y)]
  BY <1>2, <1>3, ConcatProperties
<1>5. ASSUME NEW n \in 1..Len(u) PROVE r[n + 1] = u[n]
  <2>1. n + 1 \in 1..(1 + Len(u)) /\ ~(n + 1 <= 1) /\ (n + 1) - 1 = n
    BY <1>2
  <2>2. QED
    BY <1>2, <1>4, <2>1
<1>6. QED
  BY <1>2, <1>4, <1>5

\* What the next handler leaves of the queue s.
RestOf(s) ==
    IF Len(Head(s)[2]) > 1 THEN <<<<Head(s)[1], Tail(Head(s)[2])>>>> \o Tail(s) ELSE Tail(s)

\* The next handler is b for e; the queue r, without it, makes the other calls.
NextIs(s, r, e, b) ==
    /\ e \in Node /\ b \in Bindings /\ b \in Members(s)
    /\ r \in Queues /\ ProperQueue(r)
    /\ \A c \in Members(r) : c \in Members(s) /\ c # b
    /\ Calls(s) = Calls(r) \cup {<<e, b>>}

LEMMA NextInQueue ==
    ASSUME NEW s \in Queues, ProperQueue(s), s # <<>>,
           NEW e, e = Head(s)[1], NEW b, b = Head(Head(s)[2]),
           NEW r, r = RestOf(s)
    PROVE  NextIs(s, r, e, b)
<1>1. PICK P : P = Node \X Seq(Bindings)
  OBVIOUS
<1>2. s \in Seq(P) /\ Len(s) \in Nat \ {0} /\ Len(s) > 0 /\ 1 \in 1..Len(s)
  BY <1>1, QueueFields, EmptySeq
<1>3. PICK v : v = s[1][2]
  OBVIOUS
<1>4. v \in Seq(Bindings) /\ Len(v) \in Nat \ {0} /\ v # <<>> /\ 1 \in 1..Len(v)
  <2>1. v \in Seq(Bindings) /\ Len(v) \in Nat /\ Len(v) > 0
    BY <1>2, <1>3, QueueFields DEF ProperQueue, Width
  <2>2. QED
    BY <2>1, EmptySeq
<1>5. Head(s) = s[1] /\ Head(v) = v[1]
  BY <1>2, <1>4
<1>6. e = s[1][1] /\ b = At(s, 1, 1) /\ e \in Node /\ b \in Bindings
  <2>1. e = s[1][1] /\ b = v[1]
    BY <1>3, <1>5, Zenon
  <2>2. At(s, 1, 1) = v[1] /\ s[1][1] \in Node
    BY <1>2, <1>3, QueueFields DEF At
  <2>3. QED
    BY <1>4, <2>1, <2>2
<1>7. <<e, b>> = Call(s, 1, 1) /\ b \in Members(s)
  <2>1. <<e, b>> = Call(s, 1, 1)
    BY <1>6, Zenon DEF Call
  <2>2. 1 \in 1..Width(s, 1)
    BY <1>3, <1>4 DEF Width
  <2>3. QED
    BY <1>2, <1>6, <2>1, <2>2, QueueHolds
<1>8. PICK u : u = Tail(s)
  OBVIOUS
<1>9. /\ u \in Seq(P) /\ Len(u) = Len(s) - 1
      /\ \A n \in 1..Len(u) : u[n] = s[n + 1]
  BY <1>2, <1>8, HeadTailProperties
<1>10. /\ r \in Queues /\ ProperQueue(r)
       /\ \A c \in Members(r) : c \in Members(s) /\ c # At(s, 1, 1)
       /\ Calls(s) = Calls(r) \cup {Call(s, 1, 1)}
  <2>1. CASE Len(v) > 1
    <3>1. PICK w : w = Tail(v)
      OBVIOUS
    <3>2. /\ w \in Seq(Bindings) /\ Len(w) = Len(v) - 1
          /\ \A i \in 1..Len(w) : w[i] = v[i + 1]
      BY <1>4, <3>1, HeadTailProperties
    <3>3. PICK x : x = <<e, w>>
      OBVIOUS
    <3>4. x \in P /\ x[1] = e /\ x[2] = w
      BY <1>1, <1>6, <3>2, <3>3
    <3>5. r = <<x>> \o u
      BY <1>3, <1>5, <1>8, <2>1, <3>1, <3>3, Zenon DEF RestOf
    <3>6. /\ r \in Seq(P) /\ Len(r) = Len(u) + 1 /\ r[1] = x
          /\ \A n \in 1..Len(u) : r[n + 1] = u[n]
      <4>1. PICK y : y = r
        OBVIOUS
      <4>2. y = <<x>> \o u
        BY <3>5, <4>1, Zenon
      <4>3. /\ y \in Seq(P) /\ Len(y) = Len(u) + 1 /\ y[1] = x
            /\ \A n \in 1..Len(u) : y[n + 1] = u[n]
        BY <1>9, <3>4, <4>2, PutInFront
      <4>4. QED
        BY <4>1, <4>3, Zenon
    <3>7. r \in Queues /\ Len(r) = Len(s)
      BY <1>1, <1>2, <1>9, <3>6 DEF Queues
    <3>8. \A n \in 2..Len(s) : r[n] = s[n]
      <4>1. ASSUME NEW n \in 2..Len(s) PROVE r[n] = s[n]
        <5>1. n - 1 \in 1..Len(u) /\ (n - 1) + 1 = n
          BY <1>2, <1>9
        <5>2. r[(n - 1) + 1] = u[n - 1] /\ u[n - 1] = s[(n - 1) + 1]
          BY <1>9, <3>6, <5>1, Zenon
        <5>3. QED
          BY <5>1, <5>2
      <4>2. QED
        BY <4>1
    <3>9. /\ r[1][1] = s[1][1] /\ Width(r, 1) > 0 /\ Width(r, 1) = Width(s, 1) - 1
          /\ \A i \in 1..Width(r, 1) : At(r, 1, i) = At(s, 1, i + 1)
      <4>1. r[1][1] = s[1][1] /\ r[1][2] = w
        BY <1>6, <3>4, <3>6, Zenon
      <4>2. Len(w) > 0
        BY <1>4, <2>1, <3>2
      <4>3. QED
        BY <1>3, <3>2, <4>1, <4>2, Zenon DEF Width, At
    <3>10. QED
      BY <1>2, <3>7, <3>8, <3>9, TakeHandler, Zenon
  <2>2. CASE ~(Len(v) > 1)
    <3>1. r = u
      BY <1>3, <1>5, <1>8, <2>2, Zenon DEF RestOf
    <3>2. r \in Queues /\ Len(r) = Len(s) - 1 /\ \A n \in 1..Len(r) : r[n] = s[n + 1]
      <4>1. u \in Queues
        BY <1>1, <1>9 DEF Queues
      <4>2. QED
        BY <1>9, <3>1, <4>1, Zenon
    <3>3. Width(s, 1) = 1
      <4>1. \A n \in Nat \ {0} : ~(n > 1) => n = 1
        OBVIOUS
      <4>2. QED
        BY <1>3, <1>4, <2>2, <4>1, Zenon DEF Width
    <3>4. QED
      BY <1>2, <3>2, <3>3, TakeElement, Zenon
  <2>3. QED
    BY <2>1, <2>2
<1>11. QED
  BY <1>6, <1>7, <1>10, Zenon DEF NextIs

-----------------------------------------------------------------------------
(* The handlers of an event.                                               *)

\* The elements from t up to e, without e.
Between(t, e) == {Elements[i] : i \in Depth(t)..(Depth(e) - 1)}

\* A part of the path, from its a-th element to its z-th.
PartOfPath(s, a, z) ==
    /\ s \in Seq(Node) /\ Len(s) \in Nat /\ DOMAIN s = 1..Len(s)
    /\ a <= z => s # <<>>
    /\ \A i, j \in 1..Len(s) : s[i] = s[j] => i = j
    /\ \A x : (\E i \in 1..Len(s) : s[i] = x) <=> \E j \in a..z : x = Elements[j]

LEMMA PathPart ==
    ASSUME NEW a \in 1..Len(Elements), NEW z \in 0..Len(Elements),
           NEW s, s = SubSeq(Elements, a, z)
    PROVE  PartOfPath(s, a, z)
<1>1. /\ Len(Elements) \in Nat \ {0} /\ a \in Int /\ z \in Int
      /\ \A i \in 1..Len(Elements) : Elements[i] \in Node /\ Depth(Elements[i]) = i
  BY PathFacts
<1>2. \A i \in a..z : i \in 1..Len(Elements) /\ Elements[i] \in Node
  BY <1>1
<1>3. PICK q : q = SubSeq(Elements, a, z)
  OBVIOUS
<1>4. /\ q \in Seq(Node)
      /\ Len(q) = IF a <= z THEN z - a + 1 ELSE 0
      /\ \A i \in 1..(z - a + 1) : q[i] = Elements[a + i - 1]
  BY <1>1, <1>2, <1>3, SubSeqProperties
<1>5. Len(q) \in Nat /\ DOMAIN q = 1..Len(q) /\ (a <= z => q # <<>>)
  BY <1>1, <1>4, EmptySeq, LenProperties
<1>6. \A i \in 1..Len(q) : a + i - 1 \in a..z /\ q[i] = Elements[a + i - 1]
  BY <1>1, <1>4
<1>7. ASSUME NEW i \in 1..Len(q), NEW j \in 1..Len(q), q[i] = q[j]
      PROVE  i = j
  <2>1. PICK k \in a..z : k = a + i - 1 /\ q[i] = Elements[k]
    BY <1>6
  <2>2. PICK l \in a..z : l = a + j - 1 /\ q[j] = Elements[l]
    BY <1>6
  <2>3. k = l
    BY <1>1, <1>2, <1>7, <2>1, <2>2
  <2>4. i \in Int /\ j \in Int
    BY <1>5
  <2>5. QED
    BY <1>1, <2>1, <2>2, <2>3, <2>4
<1>8. ASSUME NEW j \in a..z
      PROVE  \E i \in 1..Len(q) : q[i] = Elements[j]
  <2>1. PICK i : i = j - a + 1
    OBVIOUS
  <2>2. i \in 1..Len(q) /\ a + i - 1 = j
    BY <1>1, <1>4, <2>1
  <2>3. QED
    BY <1>6, <2>2
<1>9. \A x : (\E i \in 1..Len(q) : q[i] = x) <=> \E j \in a..z : x = Elements[j]
  <2>1. ASSUME NEW i \in 1..Len(q) PROVE \E j \in a..z : q[i] = Elements[j]
    BY <1>6
  <2>2. QED
    BY <1>8, <2>1, Zenon
<1>10. s = q
  BY <1>3
<1>11. QED
  BY <1>4, <1>5, <1>7, <1>9, <1>10, Zenon DEF PartOfPath

\* The path of an event at t.
LEMMA PathFromIs ==
    ASSUME NEW t \in Node, NEW s, s = PathFrom(t)
    PROVE  /\ s \in Seq(Node) /\ s # <<>>
           /\ \A i, j \in 1..Len(s) : s[i] = s[j] => i = j
           /\ \A x : x \in ToSet(s) <=> \E j \in Depth(t)..Len(Elements) : x = Elements[j]
<1>1. PICK a \in 1..Len(Elements), z \in 0..Len(Elements) :
        a = Depth(t) /\ z = Len(Elements) /\ a <= z
  BY PathFacts
<1>2. s = SubSeq(Elements, a, z)
  BY <1>1, Zenon DEF PathFrom
<1>3. /\ s \in Seq(Node) /\ s # <<>> /\ DOMAIN s = 1..Len(s)
      /\ \A i, j \in 1..Len(s) : s[i] = s[j] => i = j
      /\ \A x : (\E i \in 1..Len(s) : s[i] = x) <=> \E j \in a..z : x = Elements[j]
  <2>1. PartOfPath(s, a, z)
    BY <1>1, <1>2, PathPart
  <2>2. QED
    BY <1>1, <2>1, Zenon DEF PartOfPath
<1>4. \A x : x \in ToSet(s) <=> \E i \in 1..Len(s) : s[i] = x
  <2>1. DOMAIN s = 1..Len(s)
    BY <1>3
  <2>2. QED
    BY <2>1, Zenon DEF ToSet
<1>5. QED
  BY <1>1, <1>3, <1>4, Zenon

\* The two ways to say that an element is between t and e.
LEMMA BetweenIs ==
    ASSUME NEW t \in Node, NEW e \in Node
    PROVE  \A x : x \in Between(t, e) <=>
                    /\ x \in ToSet(PathFrom(t)) \ {None} /\ x # e
                    /\ Contains(SubSeq(Elements, 1, Depth(e)), x)
<1>1. /\ Depth(e) \in 1..Len(Elements) /\ Depth(t) \in 1..Len(Elements) /\ Elements[Depth(e)] = e
      /\ Len(Elements) \in Nat \ {0} /\ 1 \in 1..Len(Elements) /\ Depth(e) \in 0..Len(Elements)
      /\ \A i \in 1..Len(Elements) : Elements[i] \in Node /\ Depth(Elements[i]) = i
  BY PathFacts
<1>2. PICK q : q = SubSeq(Elements, 1, Depth(e))
  OBVIOUS
<1>3. \A x : (\E i \in 1..Len(q) : q[i] = x) <=> \E j \in 1..Depth(e) : x = Elements[j]
  <2>1. PartOfPath(q, 1, Depth(e))
    BY <1>1, <1>2, PathPart
  <2>2. QED
    BY <2>1, Zenon DEF PartOfPath
<1>4. \A x : Contains(q, x) <=> \E j \in 1..Depth(e) : x = Elements[j]
  BY <1>3, Zenon DEF Contains
<1>5. \A x : x \in ToSet(PathFrom(t)) <=> \E j \in Depth(t)..Len(Elements) : x = Elements[j]
  BY PathFromIs
<1>6. ASSUME NEW x \in Between(t, e)
      PROVE  /\ x \in ToSet(PathFrom(t)) \ {None} /\ x # e /\ Contains(q, x)
  <2>1. PICK i \in Depth(t)..(Depth(e) - 1) : x = Elements[i]
    BY DEF Between
  <2>2. /\ i \in 1..Len(Elements) /\ i \in Depth(t)..Len(Elements) /\ i \in 1..Depth(e)
        /\ i # Depth(e)
    BY <1>1
  <2>3. x \in Node /\ x # e
    BY <1>1, <2>1, <2>2
  <2>4. x # None
    BY <2>3, EventsAssumption
  <2>5. QED
    BY <1>4, <1>5, <2>1, <2>2, <2>3, <2>4, Zenon
<1>7. ASSUME NEW x, x \in ToSet(PathFrom(t)), x # e, Contains(q, x)
      PROVE  x \in Between(t, e)
  <2>1. PICK i \in Depth(t)..Len(Elements) : x = Elements[i]
    BY <1>5, <1>7, Zenon
  <2>2. PICK j \in 1..Depth(e) : x = Elements[j]
    BY <1>4, <1>7, Zenon
  <2>3. i \in 1..Len(Elements) /\ j \in 1..Len(Elements)
    BY <1>1
  <2>4. i = j /\ j # Depth(e)
    BY <1>1, <1>7, <2>1, <2>2, <2>3
  <2>5. i \in Depth(t)..(Depth(e) - 1)
    BY <1>1, <2>4
  <2>6. QED
    BY <2>1, <2>5, Zenon DEF Between
<1>8. QED
  BY <1>2, <1>6, <1>7, Zenon

\* The elements that some delegate of h selects.
LEMMA MatchedIs ==
    ASSUME NEW f, NEW e \in Node, f.target \in Node, NEW h, NEW s, s = Matched(f, e, h)
    PROVE  /\ s \in Seq(Node) /\ Len(s) \in Nat
           /\ \A i, j \in 1..Len(s) : s[i] = s[j] => i = j
           /\ \A x : (\E i \in 1..Len(s) : s[i] = x) <=>
                       x \in Between(f.target, e) /\ Selecting(h, x) # {}
<1>1. PICK t \in Node : t = f.target
  OBVIOUS
<1>2. PICK a \in 1..Len(Elements), z \in 0..Len(Elements) : a = Depth(t) /\ z = Depth(e) - 1
  BY PathFacts
<1>3. PICK below : below = SubSeq(Elements, a, z)
  OBVIOUS
<1>4. /\ below \in Seq(Node) /\ Len(below) \in Nat /\ DOMAIN below = 1..Len(below)
      /\ \A i, j \in 1..Len(below) : below[i] = below[j] => i = j
      /\ \A x : (\E i \in 1..Len(below) : below[i] = x) <=>
                  \E j \in a..z : x = Elements[j]
  <2>1. PartOfPath(below, a, z)
    BY <1>2, <1>3, PathPart
  <2>2. QED
    BY <2>1, Zenon DEF PartOfPath
<1>5. \A x : (\E i \in 1..Len(below) : below[i] = x) <=> x \in Between(t, e)
  BY <1>2, <1>4, Zenon DEF Between
<1>6. PICK I : I = {i \in 1..Len(below) : Selecting(h, below[i]) # {}}
  OBVIOUS
<1>7. I \in SUBSET (1..Len(below))
  BY <1>6, Zenon
<1>8. PICK q : q = Subsequence(below, I)
  OBVIOUS
<1>9. /\ q \in Seq(Node) /\ Len(q) \in Nat
      /\ \A k \in 1..Len(q) : Place(I, k) \in I /\ q[k] = below[Place(I, k)]
      /\ \A i \in I : \E k \in 1..Len(q) : i = Place(I, k)
      /\ \A j, k \in 1..Len(q) : Place(I, j) = Place(I, k) => j = k
  BY <1>4, <1>7, <1>8, SubsequenceIs
<1>10. q = s
  <2>1. {i \in DOMAIN below : Selecting(h, below[i]) # {}} = I
    BY <1>4, <1>6, Zenon
  <2>2. QED
    BY <1>1, <1>2, <1>3, <1>8, <2>1, Zenon DEF Matched
<1>11. ASSUME NEW i \in 1..Len(q), NEW j \in 1..Len(q), q[i] = q[j]
       PROVE  i = j
  <2>1. PICK k \in 1..Len(below), l \in 1..Len(below) :
          k = Place(I, i) /\ l = Place(I, j) /\ q[i] = below[k] /\ q[j] = below[l]
    <3>1. /\ Place(I, i) \in I /\ q[i] = below[Place(I, i)]
          /\ Place(I, j) \in I /\ q[j] = below[Place(I, j)]
      BY <1>9, Zenon
    <3>2. Place(I, i) \in 1..Len(below) /\ Place(I, j) \in 1..Len(below)
      BY <1>7, <3>1
    <3>3. QED
      BY <3>1, <3>2, Zenon
  <2>2. k = l
    BY <1>4, <1>11, <2>1
  <2>3. QED
    BY <1>9, <2>1, <2>2
<1>12. ASSUME NEW i \in 1..Len(q)
       PROVE  q[i] \in Between(t, e) /\ Selecting(h, q[i]) # {}
  <2>1. Place(I, i) \in I /\ q[i] = below[Place(I, i)]
    BY <1>9
  <2>2. QED
    BY <1>5, <1>6, <2>1, Zenon
<1>13. ASSUME NEW x, x \in Between(t, e), Selecting(h, x) # {}
       PROVE  \E i \in 1..Len(q) : q[i] = x
  <2>1. PICK i \in 1..Len(below) : below[i] = x
    BY <1>5, <1>13, Zenon
  <2>2. i \in I
    BY <1>6, <1>13, <2>1, Zenon
  <2>3. QED
    BY <1>9, <2>1, <2>2, Zenon
<1>14. \A x : (\E i \in 1..Len(q) : q[i] = x) <=> x \in Between(t, e) /\ Selecting(h, x) # {}
  BY <1>12, <1>13, Zenon
<1>15. \A i, j \in 1..Len(q) : q[i] = q[j] => i = j
  BY <1>11, Zenon
<1>16. QED
  BY <1>1, <1>9, <1>10, <1>14, <1>15

\* The delegates of h that select x, each once.
RowOf(w, h, x) ==
    /\ w \in Seq(Bindings) /\ Len(w) \in Nat
    /\ Selecting(h, x) # {} => Len(w) > 0
    /\ \A i \in 1..Len(w) : \E k \in Selecting(h, x) : w[i] = h.list[k]
    /\ \A k \in Selecting(h, x) : \E i \in 1..Len(w) : w[i] = h.list[k]
    /\ \A i, j \in 1..Len(w) : w[i] = w[j] => i = j

LEMMA RowIs ==
    ASSUME NEW h, ProperList(h), NEW x, NEW w, w = Subsequence(h.list, Selecting(h, x))
    PROVE  RowOf(w, h, x)
<1>1. PICK s, d, I : s = h.list /\ d = h.delegateCount /\ I = Selecting(h, x)
  OBVIOUS
<1>2. /\ s \in Seq(Bindings) /\ Len(s) \in Nat /\ d \in Nat /\ d <= Len(s)
      /\ \A i, j \in 1..Len(s) : s[i] = s[j] => i = j
  BY <1>1, ListFields DEF ProperList
<1>3. I \in SUBSET (1..Len(s))
  <2>1. I \in SUBSET (1..d)
    BY <1>1, Zenon DEF Selecting
  <2>2. QED
    BY <1>2, <2>1
<1>4. w = Subsequence(s, I)
  BY <1>1, Zenon
<1>5. /\ w \in Seq(Bindings) /\ Len(w) \in Nat
      /\ \A k \in 1..Len(w) : Place(I, k) \in I /\ w[k] = s[Place(I, k)]
      /\ \A i \in I : \E k \in 1..Len(w) : i = Place(I, k)
      /\ \A j, k \in 1..Len(w) : Place(I, j) = Place(I, k) => j = k
  BY <1>2, <1>3, <1>4, SubsequenceIs
<1>6. \A i \in 1..Len(w) : \E k \in I : w[i] = s[k]
  BY <1>5, Zenon
<1>7. \A k \in I : \E i \in 1..Len(w) : w[i] = s[k]
  <2>1. ASSUME NEW k \in I PROVE \E i \in 1..Len(w) : w[i] = s[k]
    <3>1. PICK i \in 1..Len(w) : k = Place(I, i)
      BY <1>5, Zenon
    <3>2. w[i] = s[k]
      BY <1>5, <3>1, Zenon
    <3>3. QED
      BY <3>2, Zenon
  <2>2. QED
    BY <2>1, Zenon
<1>8. ASSUME NEW i \in 1..Len(w), NEW j \in 1..Len(w), w[i] = w[j]
      PROVE  i = j
  <2>1. PICK k \in 1..Len(s), l \in 1..Len(s) :
          k = Place(I, i) /\ l = Place(I, j) /\ w[i] = s[k] /\ w[j] = s[l]
    <3>1. /\ Place(I, i) \in I /\ w[i] = s[Place(I, i)]
          /\ Place(I, j) \in I /\ w[j] = s[Place(I, j)]
      BY <1>5, Zenon
    <3>2. Place(I, i) \in 1..Len(s) /\ Place(I, j) \in 1..Len(s)
      BY <1>3, <3>1
    <3>3. QED
      BY <3>1, <3>2, Zenon
  <2>2. k = l
    BY <1>2, <1>8, <2>1
  <2>3. QED
    BY <1>5, <2>1, <2>2
<1>9. I # {} => Len(w) > 0
  BY <1>5, <1>7
<1>10. QED
  BY <1>1, <1>5, <1>6, <1>7, <1>8, <1>9 DEF RowOf

\* A delegate is told by the element it selects.
LEMMA SelectingFacts ==
    ASSUME NEW h, ProperList(h), NEW x, NEW k \in Selecting(h, x)
    PROVE  k \in 1..Len(h.list) /\ k <= h.delegateCount /\ h.list[k].selector = x
<1>1. k \in 1..h.delegateCount /\ h.list[k].selector = x
  BY Zenon DEF Selecting
<1>2. h.delegateCount \in Nat /\ Len(h.list) \in Nat /\ h.delegateCount <= Len(h.list)
  BY ListFields DEF ProperList
<1>3. QED
  BY <1>1, <1>2

\* The delegates for the elements m, in queue.
DelegatesOf(q, m, h) ==
    /\ q \in Queues /\ Len(q) = Len(m) /\ ProperQueue(q)
    /\ \A n \in 1..Len(m) :
        /\ q[n][1] = m[n]
        /\ \A i \in 1..Width(q, n) : \E k \in Selecting(h, m[n]) : At(q, n, i) = h.list[k]
        /\ \A k \in Selecting(h, m[n]) : \E i \in 1..Width(q, n) : At(q, n, i) = h.list[k]

LEMMA DelegatesAre ==
    ASSUME NEW h, ProperList(h), NEW m \in Seq(Node),
           \A i, j \in 1..Len(m) : m[i] = m[j] => i = j,
           \A n \in 1..Len(m) : Selecting(h, m[n]) # {},
           NEW q, q = Delegates(m, h)
    PROVE  DelegatesOf(q, m, h)
<1>1. /\ Len(m) \in Nat /\ DOMAIN m = 1..Len(m)
      /\ \A n \in 1..Len(m) : m[n] \in Node
  BY LenProperties, ElementOfSeq
<1>2. q = [n \in 1..Len(m) |-> <<m[n], Subsequence(h.list, Selecting(h, m[n]))>>]
  BY <1>1, Zenon DEF Delegates
<1>3. ASSUME NEW n \in 1..Len(m)
      PROVE  /\ RowOf(q[n][2], h, m[n]) /\ q[n][1] = m[n]
             /\ q[n] \in Node \X Seq(Bindings)
  <2>1. PICK w : w = Subsequence(h.list, Selecting(h, m[n]))
    OBVIOUS
  <2>2. RowOf(w, h, m[n])
    BY <2>1, RowIs
  <2>3. q[n] = <<m[n], w>>
    BY <1>2, <2>1
  <2>4. w \in Seq(Bindings)
    BY <2>2 DEF RowOf
  <2>5. QED
    BY <1>1, <2>2, <2>3, <2>4
<1>4. q \in Queues /\ Len(q) = Len(m)
  <2>1. PICK P : P = Node \X Seq(Bindings)
    OBVIOUS
  <2>2. \A n \in 1..Len(m) : q[n] \in P
    BY <1>3, <2>1
  <2>3. q \in [1..Len(m) -> P]
    BY <1>2, <2>2
  <2>4. q \in Seq(P) /\ Len(q) = Len(m)
    BY <1>1, <2>3
  <2>5. QED
    BY <2>1, <2>4 DEF Queues
<1>5. ASSUME NEW n \in 1..Len(m)
      PROVE  /\ Width(q, n) > 0
             /\ \A i \in 1..Width(q, n) : \E k \in Selecting(h, m[n]) : At(q, n, i) = h.list[k]
             /\ \A k \in Selecting(h, m[n]) : \E i \in 1..Width(q, n) : At(q, n, i) = h.list[k]
             /\ \A i, j \in 1..Width(q, n) : At(q, n, i) = At(q, n, j) => i = j
  BY <1>3, Zenon DEF RowOf, Width, At
<1>6. ASSUME NEW n \in 1..Len(m), NEW i \in 1..Width(q, n)
      PROVE  At(q, n, i).selector = m[n]
  <2>1. PICK k \in Selecting(h, m[n]) : At(q, n, i) = h.list[k]
    BY <1>5
  <2>2. h.list[k].selector = m[n]
    BY SelectingFacts
  <2>3. QED
    BY <2>1, <2>2, Zenon
<1>7. ProperQueue(q)
  <2>1. ASSUME NEW n \in 1..Len(m), NEW l \in 1..Len(m),
               NEW i \in 1..Width(q, n), NEW j \in 1..Width(q, l),
               At(q, n, i) = At(q, l, j)
        PROVE  n = l /\ i = j
    <3>1. At(q, n, i).selector = m[n] /\ At(q, l, j).selector = m[l]
      BY <1>6
    <3>2. n = l
      BY <2>1, <3>1
    <3>3. QED
      BY <1>5, <2>1, <3>2, Zenon
  <2>2. QED
    BY <1>4, <1>5, <2>1 DEF ProperQueue
<1>8. QED
  <2>1. \A n \in 1..Len(m) :
          /\ q[n][1] = m[n]
          /\ \A i \in 1..Width(q, n) : \E k \in Selecting(h, m[n]) : At(q, n, i) = h.list[k]
          /\ \A k \in Selecting(h, m[n]) : \E i \in 1..Width(q, n) : At(q, n, i) = h.list[k]
    BY <1>3, <1>5, Zenon
  <2>2. QED
    BY <1>4, <1>7, <2>1, Zenon DEF DelegatesOf

\* What is due at e.
LEMMA DueIs ==
    ASSUME ListensInv, NEW f, f.target \in Node, f.type \in Types, NEW e \in Node,
           NEW s, s = events[e][f.type].list
    PROVE  /\ Due(f, e) \in SUBSET (Node \X Bindings)
           /\ \A c : c \in Due(f, e) <=>
                \E k \in 1..Len(s) :
                    \/ s[k].selector = None /\ c = <<e, s[k]>>
                    \/ s[k].selector \in Between(f.target, e) /\ c = <<s[k].selector, s[k]>>
<1>1. PICK t \in Node : t = f.target
  OBVIOUS
<1>2. s \in Seq(Bindings) /\ DOMAIN s = 1..Len(s) /\ \A k \in 1..Len(s) : s[k] \in Bindings
  <2>1. events[e][f.type] \in HandlerLists
    BY DEF ListensInv
  <2>2. s \in Seq(Bindings)
    BY <2>1, ListFields
  <2>3. QED
    BY <2>2, LenProperties, ElementOfSeq
<1>3. \A b : b \in ToSet(s) <=> \E k \in 1..Len(s) : b = s[k]
  BY <1>2, Zenon DEF ToSet
<1>4. PICK own : own = {<<e, b>> : b \in {d \in ToSet(s) : d.selector = None}}
  OBVIOUS
<1>5. PICK below : below = {<<b.selector, b>> : b \in {d \in ToSet(s) : d.selector \in Between(t, e)}}
  OBVIOUS
<1>6. Due(f, e) = own \cup below
  <2>1. \A x : x \in Between(t, e) <=> /\ x \in ToSet(PathFrom(t)) \ {None} /\ x # e
                                       /\ Contains(SubSeq(Elements, 1, Depth(e)), x)
    BY BetweenIs
  <2>2. {d \in ToSet(s) : d.selector \in ToSet(PathFrom(t)) \ {None}
                          /\ d.selector # e
                          /\ Contains(SubSeq(Elements, 1, Depth(e)), d.selector)}
          = {d \in ToSet(s) : d.selector \in Between(t, e)}
    BY <2>1, Zenon
  <2>3. QED
    BY <1>1, <1>4, <1>5, <2>2, Zenon DEF Due
<1>7. \A c : c \in own <=> \E k \in 1..Len(s) : s[k].selector = None /\ c = <<e, s[k]>>
  BY <1>3, <1>4
<1>8. \A c : c \in below <=>
        \E k \in 1..Len(s) : s[k].selector \in Between(t, e) /\ c = <<s[k].selector, s[k]>>
  BY <1>3, <1>5
<1>9. \A x \in Between(t, e) : x \in Node
  <2>1. \A i \in Depth(t)..(Depth(e) - 1) : i \in 1..Len(Elements)
    BY PathFacts
  <2>2. QED
    BY <2>1, PathFacts DEF Between
<1>10. own \cup below \in SUBSET (Node \X Bindings)
  <2>1. ASSUME NEW c \in own PROVE c \in Node \X Bindings
    <3>1. PICK k \in 1..Len(s) : c = <<e, s[k]>>
      BY <1>7
    <3>2. QED
      BY <1>2, <3>1
  <2>2. ASSUME NEW c \in below PROVE c \in Node \X Bindings
    <3>1. PICK k \in 1..Len(s) : s[k].selector \in Between(t, e) /\ c = <<s[k].selector, s[k]>>
      BY <1>8
    <3>2. s[k].selector \in Node /\ s[k] \in Bindings
      BY <1>2, <1>9, <3>1
    <3>3. QED
      BY <3>1, <3>2
  <2>3. QED
    BY <2>1, <2>2
<1>11. \A c : c \in Due(f, e) <=>
         \E k \in 1..Len(s) :
             \/ s[k].selector = None /\ c = <<e, s[k]>>
             \/ s[k].selector \in Between(f.target, e) /\ c = <<s[k].selector, s[k]>>
  <2>1. \A c : c \in own \cup below <=>
          \E k \in 1..Len(s) :
              \/ s[k].selector = None /\ c = <<e, s[k]>>
              \/ s[k].selector \in Between(t, e) /\ c = <<s[k].selector, s[k]>>
    BY <1>7, <1>8, Zenon
  <2>2. QED
    BY <1>1, <1>6, <2>1
<1>12. QED
  BY <1>6, <1>10, <1>11

\* The handlers that are called at e are those that are due, each once.
LEMMA HandlersAre ==
    ASSUME ListensInv, NEW f, f.target \in Node, f.type \in Types, NEW e \in Node,
           NEW r, r = Handlers(f, e)
    PROVE  /\ r \in Queues /\ ProperQueue(r)
           /\ Calls(r) = Due(f, e)
           /\ \A b \in Members(r) : b \in BoundAt(e, f.type)
<1>1. PICK h : h = events[e][f.type]
  OBVIOUS
<1>2. PICK s, d : s = h.list /\ d = h.delegateCount
  OBVIOUS
<1>3. ProperList(h)
  BY <1>1 DEF ListensInv
<1>4. /\ s \in Seq(Bindings) /\ Len(s) \in Nat /\ d \in Nat /\ d <= Len(s)
      /\ \A k \in 1..Len(s) : s[k] \in Bindings
      /\ \A k \in 1..Len(s) : k <= d <=> s[k].selector # None
      /\ \A i, j \in 1..Len(s) : s[i] = s[j] => i = j
  BY <1>2, <1>3, ListFields DEF ProperList
<1>5. PICK m : m = Matched(f, e, h)
  OBVIOUS
<1>6. /\ m \in Seq(Node) /\ Len(m) \in Nat
      /\ \A i, j \in 1..Len(m) : m[i] = m[j] => i = j
      /\ \A x : (\E i \in 1..Len(m) : m[i] = x) <=>
                  x \in Between(f.target, e) /\ Selecting(h, x) # {}
  BY <1>5, MatchedIs
<1>7. PICK q : q = Delegates(m, h)
  OBVIOUS
<1>8. DelegatesOf(q, m, h)
  <2>1. \A n \in 1..Len(m) : Selecting(h, m[n]) # {}
    BY <1>6, Zenon
  <2>2. QED
    BY <1>3, <1>6, <1>7, <2>1, DelegatesAre
<1>9. PICK N \in Nat : N = Len(m)
  BY <1>6
<1>10. /\ q \in Queues /\ Len(q) = N /\ ProperQueue(q)
       /\ \A n \in 1..N :
            /\ q[n][1] = m[n]
            /\ \A i \in 1..Width(q, n) : \E k \in Selecting(h, m[n]) : At(q, n, i) = s[k]
            /\ \A k \in Selecting(h, m[n]) : \E i \in 1..Width(q, n) : At(q, n, i) = s[k]
  BY <1>2, <1>8, <1>9, Zenon DEF DelegatesOf
<1>11. \A x : \A k \in Selecting(h, x) : k \in 1..Len(s) /\ k <= d /\ s[k].selector = x
  BY <1>2, <1>3, SelectingFacts
<1>12. PICK direct : direct = SubSeq(s, d + 1, Len(s))
  OBVIOUS
<1>13. /\ direct \in Seq(Bindings) /\ Len(direct) = Len(s) - d
       /\ \A i \in 1..Len(direct) : direct[i] = s[d + i]
  <2>1. PICK a \in Int : a = d + 1
    BY <1>4
  <2>2. direct = SubSeq(s, a, Len(s)) /\ Len(s) \in Int /\ \A i \in a..Len(s) : s[i] \in Bindings
    BY <1>4, <1>12, <2>1
  <2>3. /\ direct \in Seq(Bindings) /\ Len(direct) = IF a <= Len(s) THEN Len(s) - a + 1 ELSE 0
        /\ \A i \in 1..(Len(s) - a + 1) : direct[i] = s[a + i - 1]
    BY <2>1, <2>2, SubSeqProperties
  <2>4. Len(direct) = Len(s) - d
    BY <1>4, <2>1, <2>3
  <2>5. \A i \in 1..Len(direct) : i \in 1..(Len(s) - a + 1) /\ a + i - 1 = d + i
    BY <1>4, <2>1, <2>4
  <2>6. QED
    BY <2>3, <2>4, <2>5
<1>14. r = q \o IF direct = <<>> THEN <<>> ELSE <<<<e, direct>>>>
  BY <1>1, <1>2, <1>5, <1>7, <1>12, Zenon DEF Handlers
<1>15. /\ r \in Queues /\ Len(r) \in {N, N + 1}
       /\ Len(r) = N <=> direct = <<>>
       /\ \A n \in 1..N : r[n] = q[n]
       /\ Len(r) = N + 1 => r[N + 1] = <<e, direct>>
  <2>1. PICK P : P = Node \X Seq(Bindings)
    OBVIOUS
  <2>2. q \in Seq(P) /\ Len(q) = N
    BY <1>10, <2>1 DEF Queues
  <2>3. CASE direct = <<>>
    <3>1. r = q
      BY <1>14, <2>2, <2>3, ConcatEmptySeq
    <3>2. QED
      BY <1>10, <2>3, <3>1
  <2>4. CASE direct # <<>>
    <3>1. PICK x \in P : x = <<e, direct>>
      BY <1>13, <2>1
    <3>2. r = Append(q, x)
      <4>1. Append(q, x) = q \o <<x>>
        BY <2>2, <3>1, AppendIsConcat
      <4>2. QED
        BY <1>14, <2>4, <3>1, <4>1, Zenon
    <3>3. /\ r \in Seq(P) /\ Len(r) = N + 1 /\ r[N + 1] = x
          /\ \A n \in 1..N : r[n] = q[n]
      BY <2>2, <3>1, <3>2, AppendProperties
    <3>4. r \in Queues
      BY <2>1, <3>3 DEF Queues
    <3>5. QED
      BY <2>4, <3>1, <3>3, <3>4
  <2>5. QED
    BY <2>3, <2>4
<1>16. ASSUME NEW n \in 1..N
       PROVE  /\ n \in 1..Len(r) /\ Width(r, n) = Width(q, n)
              /\ \A i : At(r, n, i) = At(q, n, i) /\ Call(r, n, i) = <<m[n], At(q, n, i)>>
  <2>1. n \in 1..Len(r)
    BY <1>15
  <2>2. r[n] = q[n] /\ q[n][1] = m[n]
    BY <1>10, <1>15
  <2>3. QED
    BY <2>1, <2>2, Zenon DEF Width, At, Call
<1>17. ASSUME NEW n \in 1..Len(r), n \notin 1..N
       PROVE  /\ n = N + 1 /\ direct # <<>> /\ Width(r, n) = Len(direct) /\ Len(direct) > 0
              /\ \A i \in 1..Width(r, n) :
                   /\ d + i \in 1..Len(s) /\ At(r, n, i) = s[d + i]
                   /\ Call(r, n, i) = <<e, s[d + i]>>
  <2>1. n = N + 1 /\ Len(r) = N + 1 /\ direct # <<>>
    BY <1>15, <1>17
  <2>2. r[n] = <<e, direct>>
    BY <1>15, <2>1
  <2>3. Width(r, n) = Len(direct) /\ \A i : At(r, n, i) = direct[i] /\ Call(r, n, i) = <<e, direct[i]>>
    BY <2>2 DEF Width, At, Call
  <2>4. Len(direct) > 0
    BY <1>13, <2>1, EmptySeq
  <2>5. \A i \in 1..Len(direct) : d + i \in 1..Len(s)
    BY <1>4, <1>13
  <2>6. QED
    BY <1>13, <2>1, <2>3, <2>4, <2>5, Zenon
<1>18. ASSUME NEW n \in 1..N, NEW i \in 1..Width(r, n)
       PROVE  \E k \in 1..Len(s) : /\ k <= d /\ At(r, n, i) = s[k] /\ s[k].selector = m[n]
                                   /\ Call(r, n, i) = <<s[k].selector, s[k]>>
  <2>1. i \in 1..Width(q, n)
    BY <1>16, Zenon
  <2>2. PICK k \in Selecting(h, m[n]) : At(q, n, i) = s[k]
    BY <1>10, <2>1
  <2>3. k \in 1..Len(s) /\ k <= d /\ s[k].selector = m[n]
    BY <1>11
  <2>4. QED
    BY <1>16, <2>2, <2>3, Zenon
<1>19. ASSUME NEW n \in 1..Len(r), NEW i \in 1..Width(r, n)
       PROVE  \E k \in 1..Len(s) :
                /\ At(r, n, i) = s[k]
                /\ \/ s[k].selector = None /\ Call(r, n, i) = <<e, s[k]>>
                   \/ s[k].selector \in Between(f.target, e) /\ Call(r, n, i) = <<s[k].selector, s[k]>>
  <2>1. CASE n \in 1..N
    <3>1. PICK k \in 1..Len(s) : /\ At(r, n, i) = s[k] /\ s[k].selector = m[n]
                                 /\ Call(r, n, i) = <<s[k].selector, s[k]>>
      BY <1>18, <2>1
    <3>2. m[n] \in Between(f.target, e)
      BY <1>6, <1>9, <2>1, Zenon
    <3>3. QED
      BY <3>1, <3>2, Zenon
  <2>2. CASE n \notin 1..N
    <3>1. PICK k \in 1..Len(s) : k = d + i /\ At(r, n, i) = s[k] /\ Call(r, n, i) = <<e, s[k]>>
      BY <1>17, <2>2
    <3>2. ~(k <= d)
      BY <1>4, <1>13, <1>17, <2>2, <3>1
    <3>3. s[k].selector = None
      BY <1>4, <3>2
    <3>4. QED
      BY <3>1, <3>3, Zenon
  <2>3. QED
    BY <2>1, <2>2
<1>20. ProperQueue(r)
  <2>1. ASSUME NEW n \in 1..Len(r) PROVE Width(r, n) > 0
    <3>1. CASE n \in 1..N
      BY <1>10, <1>16, <3>1 DEF ProperQueue
    <3>2. CASE n \notin 1..N
      BY <1>17, <3>2
    <3>3. QED
      BY <3>1, <3>2
  <2>2. ASSUME NEW n \in 1..N, NEW l \in 1..Len(r), l \notin 1..N,
               NEW i \in 1..Width(r, n), NEW j \in 1..Width(r, l)
        PROVE  At(r, n, i) # At(r, l, j)
    <3>1. PICK k \in 1..Len(s) : k <= d /\ At(r, n, i) = s[k]
      BY <1>18
    <3>2. PICK p \in 1..Len(s) : p = d + j /\ At(r, l, j) = s[p]
      BY <1>17, <2>2
    <3>3. j \in Nat \ {0}
      BY <1>4, <1>13, <1>17, <2>2
    <3>4. k # p
      BY <1>4, <3>1, <3>2, <3>3
    <3>5. QED
      BY <1>4, <3>1, <3>2, <3>4
  <2>3. ASSUME NEW n \in 1..Len(r), NEW l \in 1..Len(r),
               NEW i \in 1..Width(r, n), NEW j \in 1..Width(r, l), At(r, n, i) = At(r, l, j)
        PROVE  n = l /\ i = j
    <3>1. CASE n \in 1..N /\ l \in 1..N
      <4>1. /\ i \in 1..Width(q, n) /\ j \in 1..Width(q, l) /\ At(q, n, i) = At(q, l, j)
        BY <1>16, <2>3, <3>1, Zenon
      <4>2. QED
        BY <1>10, <3>1, <4>1 DEF ProperQueue
    <3>2. CASE n \notin 1..N /\ l \notin 1..N
      <4>1. PICK k \in 1..Len(s) : k = d + i /\ At(r, n, i) = s[k]
        BY <1>17, <3>2
      <4>2. PICK p \in 1..Len(s) : p = d + j /\ At(r, l, j) = s[p]
        BY <1>17, <3>2
      <4>3. k = p
        BY <1>4, <2>3, <4>1, <4>2
      <4>4. n = N + 1 /\ l = N + 1 /\ i \in Int /\ j \in Int
        BY <1>17, <3>2
      <4>5. QED
        BY <1>4, <4>1, <4>2, <4>3, <4>4
    <3>3. CASE n \in 1..N /\ l \notin 1..N
      BY <2>2, <2>3, <3>3
    <3>4. CASE n \notin 1..N /\ l \in 1..N
      BY <2>2, <2>3, <3>4
    <3>5. QED
      BY <3>1, <3>2, <3>3, <3>4
  <2>4. QED
    BY <2>1, <2>3 DEF ProperQueue
<1>21. \A c : c \in Due(f, e) <=>
         \E k \in 1..Len(s) :
             \/ s[k].selector = None /\ c = <<e, s[k]>>
             \/ s[k].selector \in Between(f.target, e) /\ c = <<s[k].selector, s[k]>>
  BY <1>1, <1>2, DueIs
<1>22. ASSUME NEW c \in Calls(r) PROVE c \in Due(f, e)
  <2>1. PICK n \in 1..Len(r) : \E i \in 1..Width(r, n) : c = Call(r, n, i)
    BY <1>15, QueueHolds
  <2>2. PICK i \in 1..Width(r, n) : c = Call(r, n, i)
    BY <2>1
  <2>3. PICK k \in 1..Len(s) :
          \/ s[k].selector = None /\ c = <<e, s[k]>>
          \/ s[k].selector \in Between(f.target, e) /\ c = <<s[k].selector, s[k]>>
    BY <1>19, <2>2
  <2>4. QED
    BY <1>21, <2>3, Zenon
<1>23. ASSUME NEW c \in Due(f, e) PROVE c \in Calls(r)
  <2>1. PICK k \in 1..Len(s) :
          \/ s[k].selector = None /\ c = <<e, s[k]>>
          \/ s[k].selector \in Between(f.target, e) /\ c = <<s[k].selector, s[k]>>
    BY <1>21, Zenon
  <2>2. CASE s[k].selector = None /\ c = <<e, s[k]>>
    <3>1. ~(k <= d)
      BY <1>4, <2>2
    <3>2. PICK i : i = k - d
      OBVIOUS
    <3>3. i \in 1..Len(direct) /\ d + i = k
      BY <1>4, <1>13, <3>1, <3>2
    <3>4. direct # <<>>
      BY <1>13, <3>3, EmptySeq
    <3>5. N + 1 \in 1..Len(r) /\ N + 1 \notin 1..N
      BY <1>15, <3>4
    <3>6. i \in 1..Width(r, N + 1) /\ Call(r, N + 1, i) = <<e, s[k]>>
      BY <1>17, <3>3, <3>5
    <3>7. QED
      BY <1>15, <2>2, <3>5, <3>6, QueueHolds, Zenon
  <2>3. CASE s[k].selector \in Between(f.target, e) /\ c = <<s[k].selector, s[k]>>
    <3>1. PICK x : x = s[k].selector
      OBVIOUS
    <3>2. x # None
      BY <2>3, <3>1, BetweenIs
    <3>3. k \in 1..d
      BY <1>4, <3>1, <3>2
    <3>4. k \in Selecting(h, x)
      BY <1>2, <3>1, <3>3, Zenon DEF Selecting
    <3>5. PICK n \in 1..N : m[n] = x
      BY <1>6, <1>9, <2>3, <3>1, <3>4, Zenon
    <3>6. PICK i \in 1..Width(q, n) : At(q, n, i) = s[k]
      BY <1>10, <3>4, <3>5, Zenon
    <3>7. /\ n \in 1..Len(r) /\ i \in 1..Width(r, n) /\ Call(r, n, i) = c
      BY <1>16, <2>3, <3>1, <3>5, <3>6, Zenon
    <3>8. QED
      BY <1>15, <3>7, QueueHolds, Zenon
  <2>4. QED
    BY <2>1, <2>2, <2>3
<1>24. ASSUME NEW b \in Members(r) PROVE b \in BoundAt(e, f.type)
  <2>1. PICK n \in 1..Len(r) : \E i \in 1..Width(r, n) : b = At(r, n, i)
    BY <1>15, QueueHolds
  <2>2. PICK i \in 1..Width(r, n) : b = At(r, n, i)
    BY <2>1
  <2>3. PICK k \in 1..Len(s) : b = s[k]
    BY <1>19, <2>2
  <2>4. QED
    BY <1>1, <1>2, <2>3, Zenon DEF BoundAt
<1>25. Calls(r) = Due(f, e)
  BY <1>22, <1>23
<1>26. QED
  BY <1>15, <1>20, <1>24, <1>25

-----------------------------------------------------------------------------
(* Events under way.                                                       *)

\* The types of the fields of an event.
LEMMA FrameFields ==
    ASSUME NEW f \in Frames
    PROVE  /\ f.type \in Types /\ f.trigger \in BOOLEAN /\ f.namespace \in SUBSET Namespaces
           /\ f.target \in Node /\ f.left \in Seq(Node) /\ f.at \in Node \cup {None}
           /\ f.queue \in Queues /\ f.step \in {"walk", "foreign", "run", "handler", "native"}
           /\ f.stopped \in BOOLEAN /\ f.immediate \in BOOLEAN /\ f.prevented \in BOOLEAN
           /\ f.due \in SUBSET (Node \X Bindings) /\ f.called \in SUBSET (Node \X Bindings)
           /\ f.seen \in SUBSET Places /\ Len(f.left) \in Nat
<1>1. /\ f.type \in Types /\ f.trigger \in BOOLEAN /\ f.namespace \in SUBSET Namespaces
      /\ f.target \in Node /\ f.left \in Seq(Node) /\ f.at \in Node \cup {None}
      /\ f.queue \in Queues /\ f.step \in {"walk", "foreign", "run", "handler", "native"}
      /\ f.stopped \in BOOLEAN /\ f.immediate \in BOOLEAN /\ f.prevented \in BOOLEAN
      /\ f.due \in SUBSET (Node \X Bindings) /\ f.called \in SUBSET (Node \X Bindings)
      /\ f.seen \in SUBSET Places
  BY DEF Frames
<1>2. QED
  BY <1>1, LenProperties

\* What f still has to call.
LEMMA PendingIs ==
    ASSUME NEW f \in Frames
    PROVE  \A k : k \in Pending(f) <=> \E b \in Members(f.queue) : k = <<f.at, f.type, b>>
<1>1. PICK q \in Queues : q = f.queue
  BY FrameFields
<1>2. DOMAIN q = 1..Len(q) /\ \A n \in 1..Len(q) : DOMAIN q[n][2] = 1..Width(q, n)
  BY <1>1, QueueFields
<1>3. PICK M : M = UNION {ToSet(q[n][2]) : n \in DOMAIN q}
  OBVIOUS
<1>4. \A n \in 1..Len(q) : \A b : b \in ToSet(q[n][2]) <=> \E i \in 1..Width(q, n) : b = At(q, n, i)
  BY <1>2, Zenon DEF ToSet, At
<1>5. \A b : b \in M <=> \E n \in 1..Len(q) : b \in ToSet(q[n][2])
  BY <1>2, <1>3, Zenon
<1>6. ASSUME NEW b \in M PROVE b \in Members(q)
  <2>1. PICK n \in 1..Len(q) : b \in ToSet(q[n][2])
    BY <1>5
  <2>2. PICK i \in 1..Width(q, n) : b = At(q, n, i)
    BY <1>4, <2>1
  <2>3. QED
    BY <1>1, <2>2, QueueHolds
<1>7. ASSUME NEW b \in Members(q) PROVE b \in M
  <2>1. PICK n \in 1..Len(q) : \E i \in 1..Width(q, n) : b = At(q, n, i)
    BY <1>1, QueueHolds
  <2>2. b \in ToSet(q[n][2])
    BY <1>4, <2>1
  <2>3. QED
    BY <1>5, <2>2
<1>8. Pending(f) = {<<f.at, f.type, b>> : b \in M}
  BY <1>1, <1>3, Zenon DEF Pending
<1>9. QED
  BY <1>1, <1>6, <1>7, <1>8

\* g has begun, for the type t.
Begun(g, t, trigger) ==
    FrameInv(g) /\ g.step = "walk" /\ g.type = t /\ g.trigger = trigger /\ Pending(g) = {}

\* An event begins at the first element of its path.
LEMMA EventBegins ==
    ASSUME NEW e \in Node, NEW t \in Types, NEW trigger \in BOOLEAN, NEW ns \in SUBSET Namespaces,
           NEW g, g = EventAt(e, t, trigger, ns)
    PROVE  Begun(g, t, trigger)
<1>1. PICK s : s = PathFrom(e)
  OBVIOUS
<1>2. /\ s \in Seq(Node) /\ \A i, j \in 1..Len(s) : s[i] = s[j] => i = j
      /\ \A i \in 1..Len(s) : s[i] \in Node
  BY <1>1, PathFromIs, ElementOfSeq
<1>3. /\ <<>> \in Queues /\ ProperQueue(<<>>) /\ Members(<<>>) = {}
  BY NoQueue
<1>4. g = [type |-> t, trigger |-> trigger, namespace |-> ns, target |-> e,
           left |-> s, at |-> None, queue |-> <<>>, step |-> "walk",
           stopped |-> FALSE, immediate |-> FALSE, prevented |-> FALSE,
           due |-> {}, called |-> {}, seen |-> {}]
  BY <1>1, Zenon DEF EventAt
<1>5. /\ g \in Frames /\ g.type = t /\ g.trigger = trigger /\ g.left = s /\ g.at = None
      /\ g.queue = <<>> /\ g.step = "walk" /\ g.immediate = FALSE /\ g.called = {} /\ g.seen = {}
  BY <1>2, <1>3, <1>4 DEF Frames
<1>6. PathInv(g)
  BY <1>2, <1>5, EventsAssumption DEF PathInv, Runs
<1>7. QueueInv(g)
  BY <1>3, <1>5 DEF QueueInv, Runs
<1>8. SeenInv(g)
  BY <1>5, Zenon DEF SeenInv
<1>9. Pending(g) = {}
  BY <1>3, <1>5, PendingIs
<1>10. QED
  BY <1>5, <1>6, <1>7, <1>8, <1>9, Zenon DEF FrameInv, Begun

\* What is left of a path behind its first element.
LEMMA TailOfPath ==
    ASSUME NEW S, NEW s \in Seq(S), s # <<>>,
           \A i, j \in 1..Len(s) : s[i] = s[j] => i = j,
           NEW u, u = Tail(s)
    PROVE  /\ Head(s) \in S /\ Head(s) = s[1] /\ 1 \in 1..Len(s)
           /\ u \in Seq(S) /\ Len(u) \in Nat
           /\ \A i, j \in 1..Len(u) : u[i] = u[j] => i = j
           /\ \A i \in 1..Len(u) : u[i] # Head(s) /\ \E j \in 1..Len(s) : u[i] = s[j]
<1>1. /\ Len(s) \in Nat \ {0} /\ Head(s) \in S
      /\ u \in Seq(S) /\ Len(u) = Len(s) - 1
      /\ \A i \in 1..Len(u) : u[i] = s[i + 1]
  BY EmptySeq, HeadTailProperties
<1>2. Head(s) = s[1]
  BY <1>1
<1>3. 1 \in 1..Len(s) /\ \A i \in 1..Len(u) : i + 1 \in 1..Len(s) /\ i + 1 # 1
  BY <1>1
<1>4. ASSUME NEW i \in 1..Len(u), NEW j \in 1..Len(u), u[i] = u[j]
      PROVE  i = j
  <2>1. i + 1 = j + 1
    BY <1>1, <1>3, <1>4
  <2>2. QED
    BY <1>1, <2>1
<1>5. ASSUME NEW i \in 1..Len(u)
      PROVE  u[i] # Head(s) /\ \E j \in 1..Len(s) : u[i] = s[j]
  BY <1>1, <1>2, <1>3
<1>6. Len(u) \in Nat
  BY <1>1
<1>7. QED
  BY <1>1, <1>2, <1>3, <1>4, <1>5, <1>6

\* What an event keeps.
SameEvent(g, f) == g.type = f.type /\ g.trigger = f.trigger

\* An event that passes an element without calling handlers.
LEMMA PassKeeps ==
    ASSUME NEW f, FrameInv(f), ~Runs(f), f.left # <<>>,
           NEW g, \/ g = [f EXCEPT !.left = Tail(f.left), !.step = "walk"]
                  \/ g = [f EXCEPT !.left = Tail(f.left)] /\ f.step = "walk"
    PROVE  FrameInv(g) /\ SameEvent(g, f) /\ g.step = "walk" /\ Pending(g) = {}
<1>1. f \in Frames /\ PathInv(f) /\ QueueInv(f) /\ SeenInv(f)
  BY DEF FrameInv
<1>2. PICK s : s = f.left
  OBVIOUS
<1>3. PICK u : u = Tail(s)
  OBVIOUS
<1>4. s \in Seq(Node) /\ s # <<>> /\ \A i, j \in 1..Len(s) : s[i] = s[j] => i = j
  BY <1>1, <1>2, FrameFields DEF PathInv
<1>5. /\ u \in Seq(Node) /\ Len(u) \in Nat
      /\ \A i, j \in 1..Len(u) : u[i] = u[j] => i = j
      /\ \A i \in 1..Len(u) : \E j \in 1..Len(s) : u[i] = s[j]
  BY <1>3, <1>4, TailOfPath
<1>6. /\ g \in Frames /\ g.left = u /\ g.step = "walk" /\ SameEvent(g, f)
      /\ g.at = f.at /\ g.queue = f.queue /\ g.called = f.called /\ g.seen = f.seen
      /\ g.immediate = f.immediate /\ g.stopped = f.stopped
  <2>1. CASE g = [f EXCEPT !.left = Tail(f.left), !.step = "walk"]
    <3>1. g = [f EXCEPT !.left = u, !.step = "walk"]
      BY <1>2, <1>3, <2>1
    <3>2. QED
      BY <1>1, <1>5, <3>1 DEF Frames, SameEvent
  <2>2. CASE g = [f EXCEPT !.left = Tail(f.left)] /\ f.step = "walk"
    <3>1. g = [f EXCEPT !.left = u]
      BY <1>2, <1>3, <2>2
    <3>2. QED
      BY <1>1, <1>5, <2>2, <3>1 DEF Frames, SameEvent
  <2>3. QED
    BY <2>1, <2>2
<1>7. PathInv(g)
  <2>1. \A i \in 1..Len(s) : s[i] # f.at
    BY <1>1, <1>2 DEF PathInv
  <2>2. \A i \in 1..Len(u) : u[i] # f.at
    BY <1>5, <2>1
  <2>3. g.immediate => g.stopped
    BY <1>1, <1>6 DEF PathInv
  <2>4. g.step # "foreign" /\ ~Runs(g)
    BY <1>6 DEF Runs
  <2>5. QED
    BY <1>5, <1>6, <2>2, <2>3, <2>4, Zenon DEF PathInv
<1>8. g.queue = <<>> /\ Members(<<>>) = {} /\ ProperQueue(<<>>)
  BY <1>1, <1>6, NoQueue, Zenon DEF QueueInv
<1>9. QueueInv(g)
  BY <1>6, <1>8 DEF QueueInv, Runs
<1>10. SeenInv(g)
  <2>1. \A k \in f.seen : k[2] = f.type /\ \A i \in 1..Len(s) : s[i] # k[1]
    BY <1>1, <1>2, Zenon DEF SeenInv
  <2>2. \A k \in f.seen : \A i \in 1..Len(u) : u[i] # k[1]
    BY <1>5, <2>1
  <2>3. ~Runs(g) /\ g.type = f.type
    BY <1>6 DEF Runs, SameEvent
  <2>4. QED
    BY <1>6, <2>1, <2>2, <2>3, Zenon DEF SeenInv
<1>11. Pending(g) = {}
  BY <1>6, <1>8, PendingIs
<1>12. QED
  BY <1>6, <1>7, <1>9, <1>10, <1>11 DEF FrameInv

\* An event whose handlers are determined.
LEMMA DispatchKeeps ==
    ASSUME ListensInv, NEW f, FrameInv(f), ~Runs(f), f.left # <<>>,
           NEW e, e = Head(f.left), NEW g, g = Dispatch(f, e)
    PROVE  /\ FrameInv(g) /\ SameEvent(g, f) /\ g.step = "run" /\ e \in Node
           /\ \A k \in Pending(g) : \E b \in BoundAt(e, f.type) : k = <<e, f.type, b>>
<1>1. f \in Frames /\ PathInv(f) /\ QueueInv(f) /\ SeenInv(f)
  BY DEF FrameInv
<1>2. PICK s : s = f.left
  OBVIOUS
<1>3. PICK u : u = Tail(s)
  OBVIOUS
<1>4. s \in Seq(Node) /\ s # <<>> /\ \A i, j \in 1..Len(s) : s[i] = s[j] => i = j
  BY <1>1, <1>2, FrameFields DEF PathInv
<1>5. /\ e \in Node /\ e = s[1] /\ 1 \in 1..Len(s)
      /\ u \in Seq(Node) /\ Len(u) \in Nat
      /\ \A i, j \in 1..Len(u) : u[i] = u[j] => i = j
      /\ \A i \in 1..Len(u) : u[i] # e /\ \E j \in 1..Len(s) : u[i] = s[j]
  BY <1>2, <1>3, <1>4, TailOfPath
<1>6. PICK q : q = Handlers(f, e)
  OBVIOUS
<1>7. PICK d : d = Due(f, e)
  OBVIOUS
<1>8. /\ q \in Queues /\ ProperQueue(q) /\ Calls(q) = d
      /\ \A b \in Members(q) : b \in BoundAt(e, f.type)
  BY <1>1, <1>5, <1>6, <1>7, FrameFields, HandlersAre
<1>9. d \in SUBSET (Node \X Bindings)
  <2>1. PICK l : l = events[e][f.type].list
    OBVIOUS
  <2>2. QED
    BY <1>1, <1>5, <1>7, <2>1, FrameFields, DueIs
<1>10. g = [f EXCEPT !.left = u, !.at = e, !.step = "run", !.immediate = FALSE,
                     !.queue = q, !.due = d, !.called = {}]
  BY <1>2, <1>3, <1>6, <1>7, Zenon DEF Dispatch
<1>11. /\ g \in Frames /\ g.left = u /\ g.step = "run" /\ SameEvent(g, f)
       /\ g.at = e /\ g.queue = q /\ g.called = {} /\ g.seen = f.seen /\ g.due = d
       /\ g.immediate = FALSE
  <2>1. PICK h : h = [f EXCEPT !.left = u, !.at = e, !.step = "run"]
    OBVIOUS
  <2>2. h \in Frames
    BY <1>1, <1>5, <2>1 DEF Frames
  <2>3. /\ h.left = u /\ h.step = "run" /\ h.at = e /\ h.seen = f.seen
        /\ h.type = f.type /\ h.trigger = f.trigger
    BY <1>1, <2>1 DEF Frames
  <2>4. g = [h EXCEPT !.immediate = FALSE, !.queue = q, !.due = d, !.called = {}]
    BY <1>10, <2>1, Zenon
  <2>5. g \in Frames
    BY <1>8, <1>9, <2>2, <2>4 DEF Frames
  <2>6. /\ g.left = h.left /\ g.step = h.step /\ g.at = h.at /\ g.seen = h.seen
        /\ g.type = h.type /\ g.trigger = h.trigger
        /\ g.queue = q /\ g.called = {} /\ g.due = d /\ g.immediate = FALSE
    BY <2>2, <2>4 DEF Frames
  <2>7. QED
    BY <2>3, <2>5, <2>6 DEF SameEvent
<1>12. PathInv(g)
  <2>1. g.step # "foreign"
    BY <1>11
  <2>2. QED
    BY <1>5, <1>11, <2>1, Zenon DEF PathInv
<1>13. QueueInv(g)
  <2>1. Runs(g)
    BY <1>11 DEF Runs
  <2>2. d = {} \cup Calls(q)
    BY <1>8
  <2>3. QED
    BY <1>8, <1>11, <2>1, <2>2, Zenon DEF QueueInv
<1>14. SeenInv(g)
  <2>1. \A k \in f.seen : k[2] = f.type /\ \A i \in 1..Len(s) : s[i] # k[1]
    BY <1>1, <1>2, Zenon DEF SeenInv
  <2>2. \A k \in f.seen : k[1] # e /\ \A i \in 1..Len(u) : u[i] # k[1]
    BY <1>5, <2>1
  <2>3. g.type = f.type
    BY <1>11 DEF SameEvent
  <2>4. QED
    BY <1>11, <2>1, <2>2, <2>3, Zenon DEF SeenInv
<1>15. \A k \in Pending(g) : \E b \in BoundAt(e, f.type) : k = <<e, f.type, b>>
  <2>1. \A k : k \in Pending(g) <=> \E b \in Members(g.queue) : k = <<g.at, g.type, b>>
    BY <1>11, PendingIs
  <2>2. g.type = f.type
    BY <1>11 DEF SameEvent
  <2>3. \A k \in Pending(g) : \E b \in Members(q) : k = <<e, f.type, b>>
    BY <1>11, <2>1, <2>2
  <2>4. QED
    BY <1>8, <2>3, Zenon
<1>16. QED
  BY <1>5, <1>11, <1>12, <1>13, <1>14, <1>15, Zenon DEF FrameInv

\* An event that stays where it is and calls no more handlers there.
LEMMA LeaveKeeps ==
    ASSUME NEW f, FrameInv(f),
           NEW g, g = [f EXCEPT !.step = "walk", !.queue = <<>>, !.due = {}, !.called = {}]
    PROVE  FrameInv(g) /\ SameEvent(g, f) /\ g.step = "walk" /\ Pending(g) = {}
<1>1. f \in Frames /\ PathInv(f) /\ QueueInv(f) /\ SeenInv(f)
  BY DEF FrameInv
<1>2. <<>> \in Queues /\ ProperQueue(<<>>) /\ Members(<<>>) = {}
  BY NoQueue
<1>3. /\ g \in Frames /\ g.left = f.left /\ g.step = "walk" /\ SameEvent(g, f)
      /\ g.at = f.at /\ g.queue = <<>> /\ g.called = {} /\ g.seen = f.seen
      /\ g.immediate = f.immediate /\ g.stopped = f.stopped
  BY <1>1, <1>2 DEF Frames, SameEvent
<1>4. ~Runs(g) /\ g.step # "foreign" /\ g.type = f.type
  BY <1>3 DEF Runs, SameEvent
<1>5. PathInv(g)
  BY <1>1, <1>3, <1>4 DEF PathInv
<1>6. QueueInv(g)
  BY <1>2, <1>3, <1>4 DEF QueueInv
<1>7. SeenInv(g)
  BY <1>1, <1>3, <1>4 DEF SeenInv
<1>8. Pending(g) = {}
  BY <1>2, <1>3, PendingIs
<1>9. QED
  BY <1>3, <1>5, <1>6, <1>7, <1>8 DEF FrameInv

\* An event between elements that listeners other than jQuery's, or the trigger
\* that calls the native method, take further.
LEMMA StepKeeps ==
    ASSUME NEW f, FrameInv(f), f.step = "walk", NEW x \in {"foreign", "native"},
           x = "foreign" => f.left # <<>>,
           NEW g, g = [f EXCEPT !.step = x]
    PROVE  FrameInv(g) /\ SameEvent(g, f) /\ g.step = x /\ Pending(g) = {}
<1>1. f \in Frames /\ PathInv(f) /\ QueueInv(f) /\ SeenInv(f)
  BY DEF FrameInv
<1>2. /\ g \in Frames /\ g.left = f.left /\ g.step = x /\ SameEvent(g, f)
      /\ g.at = f.at /\ g.queue = f.queue /\ g.called = f.called /\ g.seen = f.seen
      /\ g.immediate = f.immediate /\ g.stopped = f.stopped
  BY <1>1 DEF Frames, SameEvent
<1>3. ~Runs(g) /\ ~Runs(f) /\ g.type = f.type
  BY <1>2 DEF Runs, SameEvent
<1>4. g.queue = <<>> /\ ProperQueue(<<>>) /\ Members(<<>>) = {}
  BY <1>1, <1>2, <1>3, NoQueue, Zenon DEF QueueInv
<1>5. PathInv(g)
  BY <1>1, <1>2, <1>3 DEF PathInv
<1>6. QueueInv(g)
  BY <1>3, <1>4 DEF QueueInv
<1>7. SeenInv(g)
  <2>1. \A k \in f.seen : k[2] = f.type /\ \A i \in 1..Len(f.left) : f.left[i] # k[1]
    BY <1>1, Zenon DEF SeenInv
  <2>2. QED
    BY <1>2, <1>3, <2>1 DEF SeenInv
<1>8. Pending(g) = {}
  BY <1>2, <1>4, PendingIs
<1>9. QED
  BY <1>2, <1>5, <1>6, <1>7, <1>8 DEF FrameInv

\* What dispatch has seen when it is at the handler k: st is what it does then.
SeenWith(f, k, st, sn) ==
    \/ st = "handler" /\ sn = f.seen \cup {k}
    \/ st = "run" /\ sn = f.seen

\* g is f after the handler k, of the binding b, was taken from its queue.
TakenFrom(g, f, k, b) ==
    /\ FrameInv(g) /\ SameEvent(g, f)
    /\ f.at \in Node /\ b \in Bindings /\ k \in Places /\ k \notin f.seen /\ k \in Pending(f)
    /\ \A x \in Pending(g) : x \in Pending(f) /\ x # k

\* An event whose next handler is taken from the queue.
LEMMA CallKeeps ==
    ASSUME NEW f, FrameInv(f), f.step = "run", f.queue # <<>>,
           NEW e, e = Head(f.queue)[1], NEW b, b = Head(Head(f.queue)[2]),
           NEW r, r = RestOf(f.queue),
           NEW k, k = <<f.at, f.type, b>>,
           NEW st, NEW sn, SeenWith(f, k, st, sn),
           NEW g, g = [f EXCEPT !.queue = r, !.called = @ \cup {<<e, b>>}, !.step = st, !.seen = sn]
    PROVE  TakenFrom(g, f, k, b)
<1>0. \/ st = "handler" /\ sn = f.seen \cup {k}
      \/ st = "run" /\ sn = f.seen
  BY DEF SeenWith
<1>1. f \in Frames /\ PathInv(f) /\ QueueInv(f) /\ SeenInv(f)
  BY DEF FrameInv
<1>2. Runs(f) /\ f.at \in Node
  BY <1>1 DEF Runs, PathInv
<1>3. PICK s \in Queues : s = f.queue
  BY <1>1, FrameFields
<1>4. ProperQueue(s) /\ f.due = f.called \cup Calls(s) /\ \A c \in f.called : c[2] \notin Members(s)
  BY <1>1, <1>2, <1>3 DEF QueueInv
<1>5. /\ e \in Node /\ b \in Bindings /\ b \in Members(s)
      /\ r \in Queues /\ ProperQueue(r)
      /\ \A c \in Members(r) : c \in Members(s) /\ c # b
      /\ Calls(s) = Calls(r) \cup {<<e, b>>}
  <2>1. s # <<>> /\ e = Head(s)[1] /\ b = Head(Head(s)[2])
    BY <1>3, Zenon
  <2>2. r = RestOf(s)
    BY <1>3, Zenon
  <2>3. QED
    <3>1. NextIs(s, r, e, b)
      BY <1>4, <2>1, <2>2, NextInQueue
    <3>2. QED
      BY <3>1, Zenon DEF NextIs
<1>6. f.type \in Types /\ f.seen \in SUBSET Places /\ f.called \in SUBSET (Node \X Bindings)
  BY <1>1, FrameFields
<1>7. k \in Places /\ k[1] = f.at /\ k[2] = f.type /\ k[3] = b
  BY <1>2, <1>5, <1>6 DEF Places
<1>8. k \notin f.seen
  <2>1. SUFFICES ASSUME k \in f.seen PROVE FALSE
    OBVIOUS
  <2>2. \E c \in f.called : c[2] = k[3]
    BY <1>1, <1>2, <1>7, <2>1 DEF SeenInv
  <2>3. QED
    BY <1>4, <1>5, <1>7, <2>2
<1>9. PICK cl : cl = f.called \cup {<<e, b>>}
  OBVIOUS
<1>10. cl \in SUBSET (Node \X Bindings) /\ sn \in SUBSET Places /\ st \in {"run", "handler"}
  <2>1. <<e, b>> \in Node \X Bindings
    BY <1>5
  <2>2. cl \in SUBSET (Node \X Bindings)
    BY <1>6, <1>9, <2>1, Zenon
  <2>3. sn \in SUBSET Places /\ st \in {"run", "handler"}
    BY <1>0, <1>6, <1>7, Zenon
  <2>4. QED
    BY <2>2, <2>3
<1>11. g = [f EXCEPT !.queue = r, !.called = cl, !.step = st, !.seen = sn]
  BY <1>9, Zenon
<1>12. /\ g \in Frames /\ g.queue = r /\ g.called = cl /\ g.step = st /\ g.seen = sn
       /\ g.left = f.left /\ g.at = f.at /\ g.due = f.due /\ g.type = f.type
       /\ g.trigger = f.trigger /\ g.immediate = f.immediate /\ g.stopped = f.stopped
  BY <1>1, <1>5, <1>10, <1>11 DEF Frames
<1>13. Runs(g) /\ g.step # "foreign" /\ SameEvent(g, f)
  BY <1>10, <1>12 DEF Runs, SameEvent
<1>14. PathInv(g)
  BY <1>1, <1>2, <1>12, <1>13 DEF PathInv
<1>15. QueueInv(g)
  <2>1. f.due = cl \cup Calls(r)
    BY <1>4, <1>5, <1>9
  <2>2. \A c \in cl : c[2] \notin Members(r)
    <3>1. <<e, b>>[2] = b
      OBVIOUS
    <3>2. \A c \in cl : c \in f.called \/ c = <<e, b>>
      BY <1>9
    <3>3. QED
      BY <1>4, <1>5, <3>1, <3>2, Zenon
  <2>3. QED
    BY <1>5, <1>12, <1>13, <2>1, <2>2, Zenon DEF QueueInv
<1>16. SeenInv(g)
  <2>1. \A x \in sn : x \in f.seen \/ x = k
    BY <1>0
  <2>2. \A i \in 1..Len(f.left) : f.left[i] # k[1]
    BY <1>1, <1>7 DEF PathInv
  <2>3. \A x \in sn : x[2] = f.type /\ \A i \in 1..Len(f.left) : f.left[i] # x[1]
    BY <1>1, <1>7, <2>1, <2>2, Zenon DEF SeenInv
  <2>4. \A x \in f.seen : x[1] = f.at => \E c \in f.called : c[2] = x[3]
    BY <1>1, <1>2, Zenon DEF SeenInv
  <2>5. (\A c \in f.called : c \in cl) /\ <<e, b>> \in cl /\ <<e, b>>[2] = k[3]
    BY <1>7, <1>9
  <2>6. \A x \in sn : x[1] = f.at => \E c \in cl : c[2] = x[3]
    BY <2>1, <2>4, <2>5, Zenon
  <2>7. QED
    BY <1>12, <2>3, <2>6 DEF SeenInv
<1>17. k \in Pending(f)
  BY <1>1, <1>3, <1>5, PendingIs
<1>18. ASSUME NEW x \in Pending(g) PROVE x \in Pending(f) /\ x # k
  <2>1. PICK c \in Members(r) : x = <<f.at, f.type, c>>
    <3>1. \A y : y \in Pending(g) <=> \E c \in Members(g.queue) : y = <<g.at, g.type, c>>
      BY <1>12, PendingIs
    <3>2. g.queue = r /\ g.at = f.at /\ g.type = f.type
      BY <1>12
    <3>3. QED
      BY <3>1, <3>2
  <2>2. c \in Members(s) /\ c # b
    BY <1>5, <2>1
  <2>3. x \in Pending(f)
    BY <1>1, <1>3, <2>1, <2>2, PendingIs
  <2>4. x[3] = c
    BY <2>1
  <2>5. QED
    BY <1>7, <2>2, <2>3, <2>4
<1>19. QED
  BY <1>2, <1>5, <1>7, <1>8, <1>12, <1>13, <1>14, <1>15, <1>16, <1>17, <1>18 DEF FrameInv, TakenFrom

\* An event whose handler returns.
Returned(f, stops, now, prevents) ==
    [f EXCEPT !.step = "run", !.stopped = @ \/ stops,
              !.immediate = @ \/ now, !.prevented = @ \/ prevents]

LEMMA ReturnKeeps ==
    ASSUME NEW f, FrameInv(f), f.step = "handler",
           NEW stops \in BOOLEAN, NEW now \in BOOLEAN, NEW prevents \in BOOLEAN, now => stops,
           NEW g, g = Returned(f, stops, now, prevents)
    PROVE  FrameInv(g) /\ SameEvent(g, f) /\ g.step = "run" /\ Pending(g) = Pending(f)
<1>1. f \in Frames /\ PathInv(f) /\ QueueInv(f) /\ SeenInv(f)
  BY DEF FrameInv
<1>2. PICK o \in BOOLEAN : o <=> f.stopped \/ stops
  BY Zenon
<1>3. PICK i \in BOOLEAN : i <=> f.immediate \/ now
  BY Zenon
<1>4. PICK p \in BOOLEAN : p <=> f.prevented \/ prevents
  BY Zenon
<1>5. f.stopped \in BOOLEAN /\ f.immediate \in BOOLEAN /\ f.prevented \in BOOLEAN
  BY <1>1, FrameFields
<1>6. g = [f EXCEPT !.step = "run", !.stopped = o, !.immediate = i, !.prevented = p]
  <2>1. o = (f.stopped \/ stops) /\ i = (f.immediate \/ now) /\ p = (f.prevented \/ prevents)
    BY <1>2, <1>3, <1>4, Zenon
  <2>2. QED
    BY <2>1, Zenon DEF Returned
<1>7. /\ g \in Frames /\ g.step = "run" /\ g.stopped = o /\ g.immediate = i
      /\ g.queue = f.queue /\ g.called = f.called /\ g.seen = f.seen
      /\ g.left = f.left /\ g.at = f.at /\ g.due = f.due /\ g.type = f.type
      /\ g.trigger = f.trigger
  BY <1>1, <1>2, <1>3, <1>4, <1>6 DEF Frames
<1>8. Runs(g) /\ Runs(f) /\ g.step # "foreign" /\ SameEvent(g, f)
  BY <1>7 DEF Runs, SameEvent
<1>9. g.immediate => g.stopped
  <2>1. f.immediate => f.stopped
    BY <1>1 DEF PathInv
  <2>2. i => o
    BY <1>2, <1>3, <2>1, Zenon
  <2>3. QED
    BY <1>7, <2>2, Zenon
<1>10. PathInv(g)
  BY <1>1, <1>7, <1>8, <1>9 DEF PathInv
<1>11. QueueInv(g)
  BY <1>1, <1>7, <1>8 DEF QueueInv
<1>12. SeenInv(g)
  BY <1>1, <1>7, <1>8 DEF SeenInv
<1>13. Pending(g) = Pending(f)
  <2>1. \A k : k \in Pending(g) <=> \E b \in Members(g.queue) : k = <<g.at, g.type, b>>
    BY <1>7, PendingIs
  <2>2. \A k : k \in Pending(f) <=> \E b \in Members(f.queue) : k = <<f.at, f.type, b>>
    BY <1>1, PendingIs
  <2>3. g.queue = f.queue /\ g.at = f.at /\ g.type = f.type
    BY <1>7
  <2>4. \A k : k \in Pending(g) <=> k \in Pending(f)
    BY <2>1, <2>2, <2>3
  <2>5. QED
    BY <2>4
<1>14. QED
  BY <1>7, <1>8, <1>10, <1>11, <1>12, <1>13 DEF FrameInv

-----------------------------------------------------------------------------
(* The stack of events.                                                    *)

\* The innermost event.
LEMMA TopOf ==
    ASSUME NEW s, NEW tr, ProperStack(s, tr), s # <<>>, NEW f, f = Last(s)
    PROVE  Len(s) \in Nat \ {0} /\ f = s[Len(s)] /\ FrameInv(f) /\ f \in Frames
<1>1. s \in Seq(Frames) /\ \A i \in 1..Len(s) : FrameInv(s[i])
  BY Zenon DEF ProperStack
<1>2. Len(s) \in Nat \ {0} /\ f = s[Len(s)] /\ f \in Frames
  BY <1>1, FrontLast
<1>3. Len(s) \in 1..Len(s)
  BY <1>2
<1>4. QED
  BY <1>1, <1>2, <1>3

\* While a handler runs, or is about to, no event has been fired natively by a
\* trigger.
LEMMA NothingNative ==
    ASSUME NEW s, NEW tr, ProperStack(s, tr), s # <<>>, NEW f, f = Last(s), Runs(f)
    PROVE  /\ \A i \in 1..Len(s) : s[i].step # "native"
           /\ \A i \in 2..Len(s) : s[i].trigger
           /\ tr = None
<1>1. Len(s) \in Nat \ {0} /\ f = s[Len(s)]
  BY TopOf
<1>2. f.step # "native" /\ f.step \notin {"walk", "foreign"}
  BY DEF Runs
<1>3. \A i \in 1..(Len(s) - 1) : s[i].step = "native" => f.step \in {"walk", "foreign"}
  BY Zenon DEF ProperStack
<1>4. \A i \in 1..Len(s) : s[i].step # "native"
  BY <1>1, <1>2, <1>3
<1>5. \A i \in 2..Len(s) : ~s[i].trigger => s[i - 1].step = "native"
  BY Zenon DEF ProperStack
<1>6. \A i \in 2..Len(s) : i - 1 \in 1..Len(s)
  BY <1>1
<1>7. \A i \in 2..Len(s) : s[i].trigger
  BY <1>4, <1>5, <1>6, Zenon
<1>8. tr = None
  BY <1>4, Zenon DEF ProperStack
<1>9. QED
  BY <1>4, <1>7, <1>8

\* An event f that a native method has fired, for the type tr, calls no handlers.
MayGoOn(f, g, tr) == Runs(f) \/ g.step \in {"walk", "foreign"} \/ f.type # tr

\* u is s, with g for the innermost event.
InnermostIs(u, s, g) ==
    Len(u) = Len(s) /\ u[Len(s)] = g /\ \A i \in 1..(Len(s) - 1) : u[i] = s[i]

\* The innermost event goes on.
LEMMA StackGoesOn ==
    ASSUME NEW s, NEW tr, ProperStack(s, tr), s # <<>>, NEW f, f = Last(s),
           NEW g, FrameInv(g), SameEvent(g, f), f.step # "native",
           MayGoOn(f, g, tr),
           NEW u, u = Append(Front(s), g)
    PROVE  ProperStack(u, tr) /\ InnermostIs(u, s, g)
<1>1. Len(s) \in Nat \ {0} /\ f = s[Len(s)]
  BY TopOf
<1>2. /\ s \in Seq(Frames)
      /\ \A i \in 1..Len(s) : FrameInv(s[i])
      /\ \A i \in 1..(Len(s) - 1) : s[i].step \in {"handler", "native"}
      /\ \A i \in 1..(Len(s) - 1) :
           s[i].step = "native" =>
             i = Len(s) - 1 /\ ~f.trigger /\ f.step \in {"walk", "foreign"} /\ f.type = tr
      /\ \A i \in 2..Len(s) : ~s[i].trigger => s[i - 1].step = "native"
      /\ tr \in Types \cup {None}
      /\ tr # None => \E i \in 1..Len(s) : s[i].step = "native"
  BY Zenon DEF ProperStack
<1>3. PICK v : v = Front(s)
  OBVIOUS
<1>4. /\ v \in Seq(Frames) /\ Len(v) = Len(s) - 1
      /\ \A i \in 1..(Len(s) - 1) : v[i] = s[i]
  BY <1>2, <1>3, FrontLast
<1>5. g \in Frames /\ g.type = f.type /\ g.trigger = f.trigger
  BY DEF FrameInv, SameEvent
<1>6. /\ u \in Seq(Frames) /\ Len(u) = Len(s) /\ u[Len(s)] = g
      /\ \A i \in 1..(Len(s) - 1) : u[i] = s[i]
  BY <1>1, <1>3, <1>4, <1>5, AppendProperties
<1>7. Last(u) = g
  BY <1>1, <1>6 DEF Last
<1>8. \A i \in 1..Len(s) : FrameInv(u[i])
  <2>1. \A i \in 1..Len(s) : i = Len(s) \/ i \in 1..(Len(s) - 1)
    BY <1>1
  <2>2. QED
    BY <1>2, <1>6, <2>1, Zenon
<1>9. ASSUME NEW i \in 1..(Len(s) - 1), u[i].step = "native"
      PROVE  i = Len(s) - 1 /\ ~g.trigger /\ g.step \in {"walk", "foreign"} /\ g.type = tr
  <2>1. i = Len(s) - 1 /\ ~f.trigger /\ f.step \in {"walk", "foreign"} /\ f.type = tr
    BY <1>2, <1>6, <1>9
  <2>2. ~Runs(f)
    BY <2>1 DEF Runs
  <2>3. QED
    BY <1>5, <2>1, <2>2, Zenon DEF MayGoOn
<1>10. ASSUME NEW i \in 2..Len(s), ~u[i].trigger
       PROVE  u[i - 1].step = "native"
  <2>1. u[i].trigger = s[i].trigger
    BY <1>1, <1>5, <1>6
  <2>2. s[i - 1].step = "native" /\ i - 1 \in 1..(Len(s) - 1)
    BY <1>1, <1>2, <1>10, <2>1
  <2>3. QED
    BY <1>6, <2>2
<1>11. ASSUME tr # None
       PROVE  \E i \in 1..Len(s) : u[i].step = "native"
  <2>1. PICK i \in 1..Len(s) : s[i].step = "native"
    BY <1>2, <1>11
  <2>2. i \in 1..(Len(s) - 1)
    BY <1>1, <2>1
  <2>3. QED
    BY <1>6, <2>1, <2>2
<1>12. \A i \in 1..(Len(s) - 1) : u[i].step \in {"handler", "native"}
  BY <1>2, <1>6
<1>13. ProperStack(u, tr)
  BY <1>2, <1>6, <1>7, <1>8, <1>9, <1>10, <1>11, <1>12, Zenon DEF ProperStack
<1>14. QED
  BY <1>6, <1>13 DEF InnermostIs

\* u is s, and g has begun in its innermost event.
GrownBy(u, s, g) ==
    Len(u) = Len(s) + 1 /\ u[Len(s) + 1] = g /\ \A i \in 1..Len(s) : u[i] = s[i]

\* Only a handler triggers an event in another one.
MayBegin(s, g) == s # <<>> => Last(s).step = "handler" /\ g.trigger

\* A handler triggers an event, or an event begins outside of all others.
LEMMA StackGrows ==
    ASSUME NEW s, NEW tr, ProperStack(s, tr),
           NEW g, FrameInv(g), g.step = "walk", MayBegin(s, g),
           NEW u, u = Append(s, g)
    PROVE  ProperStack(u, tr) /\ GrownBy(u, s, g)
<1>1. /\ s \in Seq(Frames) /\ Len(s) \in Nat
      /\ \A i \in 1..Len(s) : FrameInv(s[i])
      /\ \A i \in 1..(Len(s) - 1) : s[i].step \in {"handler", "native"}
      /\ tr \in Types \cup {None}
      /\ tr # None => \E i \in 1..Len(s) : s[i].step = "native"
  BY LenProperties DEF ProperStack
<1>2. g \in Frames
  BY DEF FrameInv
<1>3. /\ u \in Seq(Frames) /\ Len(u) = Len(s) + 1 /\ u[Len(s) + 1] = g
      /\ \A i \in 1..Len(s) : u[i] = s[i]
  BY <1>1, <1>2, AppendProperties
<1>4. \A i \in 1..(Len(s) + 1) : FrameInv(u[i])
  <2>1. \A i \in 1..(Len(s) + 1) : i = Len(s) + 1 \/ i \in 1..Len(s)
    BY <1>1
  <2>2. QED
    BY <1>1, <1>3, <2>1, Zenon
<1>5. /\ \A i \in 1..Len(s) : s[i].step = "handler"
      /\ \A i \in 2..(Len(s) + 1) : u[i].trigger
      /\ tr = None
  <2>1. CASE s = <<>>
    <3>1. Len(s) = 0
      BY <2>1
    <3>2. (\A i : i \notin 1..Len(s)) /\ \A i : i \notin 2..(Len(s) + 1)
      BY <3>1
    <3>3. QED
      BY <1>1, <3>2, Zenon
  <2>2. CASE s # <<>> /\ Last(s).step = "handler" /\ g.trigger
    <3>1. PICK f : f = Last(s)
      OBVIOUS
    <3>2. Runs(f) /\ f.step = "handler"
      BY <2>2, <3>1 DEF Runs
    <3>3. /\ \A i \in 1..Len(s) : s[i].step # "native"
          /\ \A i \in 2..Len(s) : s[i].trigger
          /\ tr = None
      BY <2>2, <3>1, <3>2, NothingNative
    <3>4. Len(s) \in Nat \ {0} /\ f = s[Len(s)]
      BY <2>2, <3>1, TopOf
    <3>5. \A i \in 1..Len(s) : s[i].step = "handler"
      BY <1>1, <3>2, <3>3, <3>4
    <3>6. ASSUME NEW i \in 2..(Len(s) + 1) PROVE u[i].trigger
      <4>1. CASE i = Len(s) + 1
        BY <1>3, <2>2, <4>1, Zenon
      <4>2. CASE i # Len(s) + 1
        <5>1. i \in 1..Len(s) /\ i \in 2..Len(s)
          BY <1>1, <4>2
        <5>2. QED
          BY <1>3, <3>3, <5>1, Zenon
      <4>3. QED
        BY <4>1, <4>2
    <3>7. QED
      BY <3>3, <3>5, <3>6
  <2>3. QED
    BY <2>1, <2>2, Zenon DEF MayBegin
<1>6. \A i \in 1..Len(s) : u[i].step = "handler" /\ u[i].step # "native"
  BY <1>3, <1>5
<1>7. (Len(s) + 1) - 1 = Len(s)
  BY <1>1
<1>8. ProperStack(u, tr)
  BY <1>1, <1>3, <1>4, <1>5, <1>6, <1>7, Zenon DEF ProperStack
<1>9. QED
  BY <1>3, <1>8 DEF GrownBy

\* u is s, where g is the innermost event and h was fired in it.
FiredIn(u, s, g, h) ==
    /\ Len(u) = Len(s) + 1 /\ u[Len(s)] = g /\ u[Len(s) + 1] = h
    /\ \A i \in 1..(Len(s) - 1) : u[i] = s[i]

\* The trigger of the innermost event calls the native method, which fires it
\* again.
LEMMA StackFires ==
    ASSUME NEW s, NEW tr, ProperStack(s, tr), s # <<>>, NEW f, f = Last(s), f.trigger,
           NEW g, FrameInv(g), SameEvent(g, f), g.step = "native",
           NEW h, FrameInv(h), ~h.trigger, h.step = "walk", h.type = f.type,
           NEW u, u = Append(Append(Front(s), g), h)
    PROVE  ProperStack(u, f.type) /\ FiredIn(u, s, g, h)
<1>1. Len(s) \in Nat \ {0} /\ f = s[Len(s)] /\ f \in Frames
  BY TopOf
<1>2. /\ s \in Seq(Frames)
      /\ \A i \in 1..Len(s) : FrameInv(s[i])
      /\ \A i \in 1..(Len(s) - 1) : s[i].step \in {"handler", "native"}
      /\ \A i \in 1..(Len(s) - 1) : s[i].step = "native" => ~f.trigger
      /\ \A i \in 2..Len(s) : ~s[i].trigger => s[i - 1].step = "native"
  BY Zenon DEF ProperStack
<1>3. PICK v : v = Append(Front(s), g)
  OBVIOUS
<1>4. /\ v \in Seq(Frames) /\ Len(v) = Len(s) /\ v[Len(s)] = g
      /\ \A i \in 1..(Len(s) - 1) : v[i] = s[i]
  <2>1. PICK w : w = Front(s)
    OBVIOUS
  <2>2. /\ w \in Seq(Frames) /\ Len(w) = Len(s) - 1
        /\ \A i \in 1..(Len(s) - 1) : w[i] = s[i]
    <3>1. /\ Front(s) \in Seq(Frames) /\ Len(Front(s)) = Len(s) - 1
          /\ \A i \in 1..(Len(s) - 1) : Front(s)[i] = s[i]
      <4>1. s \in Seq(Frames)
        BY <1>2
      <4>2. QED
        BY <4>1, FrontLast
    <3>2. QED
      BY <2>1, <3>1, Zenon
  <2>3. g \in Frames
    BY DEF FrameInv
  <2>4. QED
    BY <1>1, <1>3, <2>1, <2>2, <2>3, AppendProperties
<1>5. h \in Frames /\ g.trigger = f.trigger /\ f.type \in Types
  BY <1>1, FrameFields DEF FrameInv, SameEvent
<1>6. /\ u \in Seq(Frames) /\ Len(u) = Len(s) + 1 /\ u[Len(s) + 1] = h
      /\ \A i \in 1..Len(s) : u[i] = v[i]
  BY <1>3, <1>4, <1>5, AppendProperties
<1>7. u[Len(s)] = g /\ \A i \in 1..(Len(s) - 1) : u[i] = s[i]
  BY <1>1, <1>4, <1>6
<1>8. Last(u) = h
  BY <1>1, <1>6 DEF Last
<1>9. \A i \in 1..(Len(s) + 1) : FrameInv(u[i])
  <2>1. \A i \in 1..(Len(s) + 1) : i = Len(s) + 1 \/ i = Len(s) \/ i \in 1..(Len(s) - 1)
    BY <1>1
  <2>2. \A i \in 1..(Len(s) - 1) : FrameInv(u[i])
    BY <1>1, <1>2, <1>7
  <2>3. QED
    BY <1>6, <1>7, <2>1, <2>2, Zenon
<1>10. \A i \in 1..(Len(s) - 1) : u[i].step = "handler"
  BY <1>1, <1>2, <1>7
<1>11. \A i \in 1..Len(s) : u[i].step \in {"handler", "native"} /\ (u[i].step = "native" => i = Len(s))
  <2>1. \A i \in 1..Len(s) : i = Len(s) \/ i \in 1..(Len(s) - 1)
    BY <1>1
  <2>2. QED
    BY <1>7, <1>10, <2>1
<1>12. ASSUME NEW i \in 2..(Len(s) + 1), ~u[i].trigger
       PROVE  u[i - 1].step = "native"
  <2>1. CASE i = Len(s) + 1
    <3>1. i - 1 = Len(s)
      BY <1>1, <2>1
    <3>2. QED
      BY <1>7, <3>1, Zenon
  <2>2. CASE i = Len(s)
    BY <1>5, <1>7, <1>12, <2>2
  <2>3. CASE i # Len(s) /\ i # Len(s) + 1
    <3>1. i \in 1..(Len(s) - 1) /\ i \in 2..Len(s) /\ i - 1 \in 1..(Len(s) - 1)
      BY <1>1, <2>3
    <3>2. u[i] = s[i] /\ u[i - 1] = s[i - 1]
      BY <1>7, <3>1
    <3>3. QED
      BY <1>2, <1>12, <3>1, <3>2
  <2>4. QED
    BY <2>1, <2>2, <2>3
<1>13. (Len(s) + 1) - 1 = Len(s) /\ Len(s) \in 1..(Len(s) + 1)
  BY <1>1
<1>14. ProperStack(u, f.type)
  <2>1. \E i \in 1..(Len(s) + 1) : u[i].step = "native"
    BY <1>7, <1>13
  <2>2. Len(u) - 1 = Len(s)
    BY <1>6, <1>13
  <2>3. \A i \in 1..(Len(u) - 1) : u[i].step \in {"handler", "native"}
    BY <1>11, <2>2, Zenon
  <2>4. h.step \in {"walk", "foreign"}
    OBVIOUS
  <2>5. \A i \in 1..(Len(u) - 1) :
          u[i].step = "native" =>
            /\ i = Len(u) - 1
            /\ ~Last(u).trigger /\ Last(u).step \in {"walk", "foreign"} /\ Last(u).type = f.type
    BY <1>8, <1>11, <2>2, <2>4, Zenon
  <2>6. f.type \in Types \cup {None}
    BY <1>5
  <2>7. QED
    BY <1>6, <1>9, <1>12, <2>1, <2>3, <2>5, <2>6, Zenon DEF ProperStack
<1>15. QED
  BY <1>6, <1>7, <1>14 DEF FiredIn

\* u is s without its innermost event f, and rt what is triggered then.
EndedTo(u, s, f, tr, rt) ==
    /\ u = Front(s)
    /\ rt = IF f.step = "native" THEN None ELSE tr

\* The innermost event ends.
LEMMA StackEnds ==
    ASSUME NEW s, NEW tr, ProperStack(s, tr), s # <<>>, NEW f, f = Last(s),
           NEW u, NEW rt, EndedTo(u, s, f, tr, rt)
    PROVE  /\ ProperStack(u, rt) /\ Len(u) = Len(s) - 1 /\ Len(s) \in Nat
           /\ \A i \in 1..(Len(s) - 1) : u[i] = s[i]
<1>1. Len(s) \in Nat \ {0} /\ f = s[Len(s)]
  BY TopOf
<1>2. /\ s \in Seq(Frames)
      /\ \A i \in 1..Len(s) : FrameInv(s[i])
      /\ \A i \in 1..(Len(s) - 1) : s[i].step \in {"handler", "native"}
      /\ \A i \in 1..(Len(s) - 1) : s[i].step = "native" => i = Len(s) - 1
      /\ \A i \in 2..Len(s) : ~s[i].trigger => s[i - 1].step = "native"
      /\ tr \in Types \cup {None}
      /\ tr # None => \E i \in 1..Len(s) : s[i].step = "native"
  BY Zenon DEF ProperStack
<1>3. /\ u \in Seq(Frames) /\ Len(u) = Len(s) - 1
      /\ \A i \in 1..(Len(s) - 1) : u[i] = s[i]
  BY <1>2, FrontLast DEF EndedTo
<1>4. /\ \A i \in 1..(Len(s) - 1) : FrameInv(u[i])
      /\ \A i \in 1..(Len(u) - 1) : u[i].step \in {"handler", "native"} /\ u[i].step # "native"
  <2>1. \A i \in 1..(Len(s) - 1) : i \in 1..Len(s)
    BY <1>1
  <2>2. \A i \in 1..(Len(u) - 1) : i \in 1..(Len(s) - 1) /\ i # Len(s) - 1
    BY <1>1, <1>3
  <2>3. QED
    BY <1>2, <1>3, <2>1, <2>2, Zenon
<1>5. ASSUME NEW i \in 2..Len(u), ~u[i].trigger
      PROVE  u[i - 1].step = "native"
  <2>1. i \in 1..(Len(s) - 1) /\ i \in 2..Len(s) /\ i - 1 \in 1..(Len(s) - 1)
    BY <1>1, <1>3
  <2>2. QED
    BY <1>2, <1>3, <1>5, <2>1
<1>6. ASSUME rt # None
      PROVE  \E i \in 1..Len(u) : u[i].step = "native"
  <2>1. rt = tr /\ f.step # "native"
    BY <1>6, Zenon DEF EndedTo
  <2>2. PICK i \in 1..Len(s) : s[i].step = "native"
    BY <1>2, <1>6, <2>1
  <2>3. i \in 1..(Len(s) - 1)
    BY <1>1, <2>1, <2>2
  <2>4. QED
    BY <1>3, <2>2, <2>3
<1>7. rt \in Types \cup {None}
  BY <1>2 DEF EndedTo
<1>8. ProperStack(u, rt)
  BY <1>3, <1>4, <1>5, <1>6, <1>7, Zenon DEF ProperStack
<1>9. QED
  BY <1>1, <1>3, <1>8

\* An event is the only one.
LEMMA OnlyEvent ==
    ASSUME NEW tr, ProperStack(<<>>, tr),
           NEW g, FrameInv(g), g.step = "walk", Pending(g) = {},
           NEW u, u = Append(<<>>, g)
    PROVE  /\ ProperStack(u, tr) /\ Len(u) \in {0, 1}
           /\ \A i \in 1..Len(u) : Pending(u[i]) = {}
<1>1. PICK s : s = <<>>
  OBVIOUS
<1>2. ProperStack(u, tr) /\ Len(u) = Len(s) + 1 /\ u[Len(s) + 1] = g
  <2>1. ProperStack(s, tr) /\ u = Append(s, g) /\ MayBegin(s, g)
    BY <1>1, Zenon DEF MayBegin
  <2>2. QED
    BY <2>1, StackGrows, Zenon DEF GrownBy
<1>3. Len(s) = 0
  BY <1>1
<1>4. Len(u) = 1 /\ u[1] = g
  BY <1>2, <1>3
<1>5. \A i \in 1..Len(u) : u[i] = g
  BY <1>4
<1>6. QED
  BY <1>2, <1>4, <1>5

\* What a handler that throws leaves.
LeftOf(s) ==
    LET natives == {i \in DOMAIN s : ~s[i].trigger} IN
    IF natives = {} THEN <<>>
    ELSE LET k == Max(natives) IN
         Append(SubSeq(s, 1, k - 1),
                IF s[k].step = "foreign" THEN s[k]
                ELSE [s[k] EXCEPT !.step = "walk", !.queue = <<>>, !.due = {}, !.called = {}])

\* A handler throws: only an event that the browser fired goes on.
LEMMA StackIsLeft ==
    ASSUME NEW s, NEW tr, ProperStack(s, tr), s # <<>>, Last(s).step = "handler",
           NEW u, u = LeftOf(s)
    PROVE  /\ ProperStack(u, tr) /\ Len(u) \in {0, 1}
           /\ \A i \in 1..Len(u) : Pending(u[i]) = {}
<1>0. PICK natives : natives = {i \in DOMAIN s : ~s[i].trigger}
  OBVIOUS
<1>1. PICK f : f = Last(s)
  OBVIOUS
<1>2. Runs(f) /\ f.step = "handler"
  BY <1>1 DEF Runs
<1>3. /\ \A i \in 1..Len(s) : s[i].step # "native"
      /\ \A i \in 2..Len(s) : s[i].trigger
      /\ tr = None
  BY <1>1, <1>2, NothingNative
<1>4. Len(s) \in Nat \ {0} /\ f = s[Len(s)] /\ s \in Seq(Frames) /\ DOMAIN s = 1..Len(s)
  BY <1>1, TopOf, LenProperties DEF ProperStack
<1>5. <<>> \in Seq(Frames) /\ Len(<<>>) = 0
  BY EmptySeq
<1>6. ProperStack(<<>>, tr)
  <2>1. (\A i : i \notin 1..0) /\ (\A i : i \notin 1..(0 - 1)) /\ \A i : i \notin 2..0
    OBVIOUS
  <2>2. tr \in Types \cup {None}
    BY <1>3
  <2>3. QED
    BY <1>3, <1>5, <2>1, <2>2, Zenon DEF ProperStack
<1>7. CASE natives = {}
  <2>1. u = <<>>
    BY <1>0, <1>7, Zenon DEF LeftOf
  <2>2. Len(u) = 0
    BY <1>5, <2>1, Zenon
  <2>3. (\A i : i \notin 1..0) /\ 0 \in {0, 1}
    OBVIOUS
  <2>4. QED
    BY <1>6, <2>1, <2>2, <2>3, Zenon
<1>8. CASE natives # {}
  <2>1. natives = {1}
    <3>1. \A i \in natives : i \in 1..Len(s) /\ i \notin 2..Len(s)
      BY <1>0, <1>3, <1>4, Zenon
    <3>2. \A i \in natives : i = 1
      BY <1>4, <3>1
    <3>3. QED
      BY <1>8, <3>2
  <2>2. Max(natives) = 1
    BY <2>1 DEF Max
  <2>3. s[1].step = "handler" /\ FrameInv(s[1]) /\ s[1] \in Frames
    <3>1. 1 \in 1..Len(s) /\ (1 \in 1..(Len(s) - 1) \/ 1 = Len(s))
      BY <1>4
    <3>2. FrameInv(s[1]) /\ (1 \in 1..(Len(s) - 1) => s[1].step \in {"handler", "native"})
      BY <3>1, Zenon DEF ProperStack
    <3>3. QED
      BY <1>2, <1>3, <1>4, <3>1, <3>2 DEF FrameInv
  <2>4. PICK a : a = s[1]
    OBVIOUS
  <2>5. PICK g : g = [a EXCEPT !.step = "walk", !.queue = <<>>, !.due = {}, !.called = {}]
    OBVIOUS
  <2>6. FrameInv(g) /\ g.step = "walk" /\ Pending(g) = {}
    BY <2>3, <2>4, <2>5, LeaveKeeps
  <2>7. u = Append(SubSeq(s, 1, 1 - 1), g)
    <3>1. s[1].step # "foreign"
      BY <2>3
    <3>2. u = Append(SubSeq(s, 1, 1 - 1), IF s[1].step = "foreign" THEN s[1] ELSE g)
      BY <1>0, <1>8, <2>2, <2>4, <2>5, Zenon DEF LeftOf
    <3>3. QED
      BY <3>1, <3>2, Zenon
  <2>8. SubSeq(s, 1, 1 - 1) = <<>>
    BY <1>4
  <2>9. u = Append(<<>>, g)
    BY <2>7, <2>8, Zenon
  <2>10. QED
    BY <1>6, <2>6, <2>9, OnlyEvent, Zenon
<1>9. QED
  BY <1>7, <1>8

-----------------------------------------------------------------------------
(* The steps.                                                              *)

\* What an event still has to call is bound somewhere on the path.
LEMMA PendingPlaces ==
    ASSUME NEW f, FrameInv(f)
    PROVE  Pending(f) \in SUBSET Places
<1>1. f \in Frames /\ PathInv(f) /\ QueueInv(f)
  BY DEF FrameInv
<1>2. ASSUME NEW k \in Pending(f) PROVE k \in Places
  <2>1. PICK b \in Members(f.queue) : k = <<f.at, f.type, b>>
    BY <1>1, PendingIs
  <2>2. f.queue # <<>>
    BY <2>1, NoQueue
  <2>3. Runs(f)
    BY <1>1, <2>2 DEF QueueInv
  <2>4. f.at \in Node /\ f.type \in Types
    BY <1>1, <2>3, FrameFields DEF PathInv
  <2>5. b \in Bindings
    BY <2>1 DEF Members
  <2>6. QED
    BY <2>1, <2>4, <2>5 DEF Places
<1>3. QED
  BY <1>2

\* Nothing is bound or unbound.
LEMMA ListensStays ==
    ASSUME ListensInv, UNCHANGED <<events, native, attaches, capturing>>
    PROVE  /\ ListensInv'
           /\ \A x \in Node, u \in Types : \A c \in BoundAt(x, u)' : c \in BoundAt(x, u)
<1>1. events' = events /\ native' = native /\ attaches' = attaches /\ capturing' = capturing
  OBVIOUS
<1>2. FocusBound' = FocusBound /\ \A x \in Node, u \in Types : Bound(x, u)' <=> Bound(x, u)
  BY <1>1, Zenon DEF FocusBound, Bound
<1>3. "click" \in Types
  BY DEF Types
<1>4. ListensInv'
  <2>1. \A x \in Node : "click" \in native'[x] <=> Bound(x, "click")'
    BY <1>1, <1>2, <1>3, Zenon DEF ListensInv
  <2>2. attaches' = Cardinality(FocusBound)' /\ (capturing' <=> attaches' # 0)
    <3>1. attaches = Cardinality(FocusBound) /\ (capturing <=> attaches # 0)
      BY DEF ListensInv
    <3>2. attaches' = Cardinality(FocusBound)'
      BY <1>1, <1>2, <3>1, Zenon
    <3>3. capturing' <=> attaches' # 0
      BY <1>1, <3>1, Zenon
    <3>4. QED
      BY <3>2, <3>3
  <2>3. QED
    BY <1>1, <2>1, <2>2, Zenon DEF ListensInv
<1>5. \A x \in Node, u \in Types : \A c \in BoundAt(x, u)' : c \in BoundAt(x, u)
  BY <1>1, Zenon DEF BoundAt
<1>6. QED
  BY <1>4, <1>5

\* A step that calls no handler and triggers nothing.
LEMMA HistoryStays ==
    ASSUME HistoryInv, past' = past,
           \A x \in Node, u \in Types : \A c \in BoundAt(x, u)' : c \in BoundAt(x, u),
           \A i \in 1..Len(frames') : Pending(frames'[i]) \cap past.ran \subseteq past.nested,
           \A i \in 1..(Len(frames') - 1) : Pending(frames'[i]) \subseteq past.nested
    PROVE  HistoryInv'
<1>1. /\ past \in PastRecords
      /\ \A e \in Node, t \in Types : \A b \in BoundAt(e, t) : <<e, t, b>> \notin past.ran
      /\ past.twice \subseteq past.nested
      /\ ~past.again
  BY DEF HistoryInv
<1>2. \A e \in Node, t \in Types : \A b \in BoundAt(e, t)' : <<e, t, b>> \notin past.ran
  BY <1>1, Zenon
<1>3. QED
  BY <1>1, <1>2, Zenon DEF HistoryInv

\* The innermost event goes on, and calls no handler that was not in its queue
\* or has not run.
LEMMA EventGoesOn ==
    ASSUME IInv, ~Idle, NEW f, f = Top, NEW g, Become(g), FrameInv(g), SameEvent(g, f),
           f.step # "native",
           MayGoOn(f, g, triggered),
           UNCHANGED <<events, native, attaches, capturing, triggered, past>>,
           \A k \in Pending(g) : k \in Pending(f) \/ k \notin past.ran
    PROVE  IInv'
<1>1. ListensInv /\ StackInv /\ HistoryInv
  BY DEF IInv
<1>2. frames # <<>> /\ f = Last(frames) /\ ProperStack(frames, triggered)
  BY <1>1, Zenon DEF Idle, Top, StackInv
<1>3. frames' = Append(Front(frames), g)
  BY Zenon DEF Become
<1>4. Len(frames) \in Nat \ {0} /\ f = frames[Len(frames)]
  BY <1>2, TopOf
<1>5. /\ ProperStack(frames', triggered) /\ Len(frames') = Len(frames) /\ frames'[Len(frames)] = g
      /\ \A i \in 1..(Len(frames) - 1) : frames'[i] = frames[i]
  <2>1. PICK s, u : s = frames /\ u = frames'
    OBVIOUS
  <2>2. PICK tr : tr = triggered
    OBVIOUS
  <2>3. /\ ProperStack(s, tr) /\ s # <<>> /\ f = Last(s) /\ u = Append(Front(s), g)
    BY <1>2, <1>3, <2>1, <2>2, Zenon
  <2>4. MayGoOn(f, g, tr)
    BY <2>2, Zenon
  <2>5. ProperStack(u, tr) /\ InnermostIs(u, s, g)
    BY <2>3, <2>4, StackGoesOn
  <2>6. QED
    BY <2>1, <2>2, <2>5, Zenon DEF InnermostIs
<1>6. ListensInv' /\ \A x \in Node, u \in Types : \A c \in BoundAt(x, u)' : c \in BoundAt(x, u)
  BY <1>1, ListensStays
<1>7. /\ \A i \in 1..Len(frames) : Pending(frames[i]) \cap past.ran \subseteq past.nested
      /\ \A i \in 1..(Len(frames) - 1) : Pending(frames[i]) \subseteq past.nested
  BY <1>1, Zenon DEF HistoryInv
<1>8. \A i \in 1..(Len(frames') - 1) : Pending(frames'[i]) \subseteq past.nested
  BY <1>5, <1>7, Zenon
<1>9. Pending(g) \cap past.ran \subseteq past.nested
  <2>1. Len(frames) \in 1..Len(frames)
    BY <1>4
  <2>2. Pending(f) \cap past.ran \subseteq past.nested
    BY <1>4, <1>7, <2>1
  <2>3. QED
    BY <2>2
<1>10. ASSUME NEW i \in 1..Len(frames')
       PROVE  Pending(frames'[i]) \cap past.ran \subseteq past.nested
  <2>1. i = Len(frames) \/ i \in 1..(Len(frames') - 1)
    BY <1>4, <1>5
  <2>2. CASE i = Len(frames)
    BY <1>5, <1>9, <2>2, Zenon
  <2>3. CASE i \in 1..(Len(frames') - 1)
    BY <1>8, <2>3, Zenon
  <2>4. QED
    BY <2>1, <2>2, <2>3
<1>11. HistoryInv'
  BY <1>1, <1>6, <1>8, <1>10, HistoryStays
<1>12. StackInv'
  BY <1>5, Zenon DEF StackInv
<1>13. QED
  BY <1>6, <1>11, <1>12 DEF IInv

\* The page binds, unbinds or removes while the events under way stay.
LEMMA EventsStay ==
    ASSUME IInv, UNCHANGED <<frames, triggered>>, ListensInv', past' \in PastRecords,
           past'.ran \subseteq past.ran, past'.nested = past.nested,
           past'.twice = past.twice, past'.again = past.again,
           \A x \in Node, u \in Types : \A c \in BoundAt(x, u)' : <<x, u, c>> \notin past'.ran
    PROVE  IInv'
<1>1. StackInv' /\ HistoryInv
  BY DEF IInv, StackInv
<1>2. /\ \A i \in 1..Len(frames) : Pending(frames[i]) \cap past.ran \subseteq past.nested
      /\ \A i \in 1..(Len(frames) - 1) : Pending(frames[i]) \subseteq past.nested
      /\ past.twice \subseteq past.nested
      /\ ~past.again
  BY <1>1, Zenon DEF HistoryInv
<1>3. PICK r : r = past'.ran
  OBVIOUS
<1>4. \A i \in 1..Len(frames) : Pending(frames[i]) \cap r \subseteq past.nested
  BY <1>2, <1>3
<1>5. frames' = frames
  OBVIOUS
<1>6. HistoryInv'
  BY <1>2, <1>3, <1>4, <1>5, Zenon DEF HistoryInv
<1>7. QED
  BY <1>1, <1>6 DEF IInv

LEMMA OnKeeps ==
    ASSUME IInv, NEW e \in Node, NEW t \in Types, NEW b \in Bindings, On(e, t, b)
    PROVE  IInv'
<1>1. ListensInv /\ HistoryInv
  BY DEF IInv
<1>2. /\ ~Contains(events[e][t].list, b) /\ Add(e, t, b)
      /\ past' = [past EXCEPT !.ran = @ \ {<<e, t, b>>}]
      /\ UNCHANGED <<triggered, frames>>
  BY Zenon DEF On
<1>3. /\ ListensInv'
      /\ \A x \in Node, u \in Types : \A c \in BoundAt(x, u)' :
           c \in BoundAt(x, u) \/ (x = e /\ u = t /\ c = b)
  BY <1>1, <1>2, AddKeeps
<1>4. /\ past \in PastRecords
      /\ \A x \in Node, u \in Types : \A c \in BoundAt(x, u) : <<x, u, c>> \notin past.ran
  BY <1>1, Zenon DEF HistoryInv
<1>5. PICK r : r = past.ran \ {<<e, t, b>>}
  OBVIOUS
<1>6. past' = [past EXCEPT !.ran = r]
  BY <1>2, <1>5, Zenon
<1>7. /\ past' \in PastRecords /\ past'.ran = r /\ past'.nested = past.nested
      /\ past'.twice = past.twice /\ past'.again = past.again
  BY <1>4, <1>5, <1>6 DEF PastRecords
<1>8. r \subseteq past.ran
  BY <1>5
<1>9. ASSUME NEW x \in Node, NEW u \in Types, NEW c \in BoundAt(x, u)'
      PROVE  <<x, u, c>> \notin past'.ran
  <2>1. CASE c \in BoundAt(x, u)
    BY <1>4, <1>7, <1>8, <2>1
  <2>2. CASE x = e /\ u = t /\ c = b
    BY <1>5, <1>7, <2>2
  <2>3. QED
    BY <1>3, <2>1, <2>2
<1>10. QED
  BY <1>2, <1>3, <1>7, <1>8, <1>9, EventsStay

\* The page unbinds or removes.
LEMMA UnbindingKeeps ==
    ASSUME IInv, UNCHANGED <<frames, triggered, past>>, ListensInv',
           \A x \in Node, u \in Types : \A c \in BoundAt(x, u)' : c \in BoundAt(x, u)
    PROVE  IInv'
<1>1. /\ past \in PastRecords
      /\ \A x \in Node, u \in Types : \A c \in BoundAt(x, u) : <<x, u, c>> \notin past.ran
  BY Zenon DEF IInv, HistoryInv
<1>2. \A x \in Node, u \in Types : \A c \in BoundAt(x, u)' : <<x, u, c>> \notin past'.ran
  BY <1>1, Zenon
<1>3. past' = past
  OBVIOUS
<1>4. past'.ran \subseteq past.ran
  BY <1>3
<1>5. QED
  BY <1>1, <1>2, <1>3, <1>4, EventsStay

LEMMA OffKeeps ==
    ASSUME IInv, NEW e \in Node, NEW t \in Types, NEW fn, NEW ns, NEW sel, Off(e, t, fn, ns, sel)
    PROVE  IInv'
<1>1. ListensInv /\ RemoveFrom(e, t, fn, ns, sel) /\ UNCHANGED <<triggered, frames, past>>
  BY Zenon DEF IInv, Off
<1>2. /\ ListensInv'
      /\ \A x \in Node, u \in Types : \A c \in BoundAt(x, u)' : c \in BoundAt(x, u)
  BY <1>1, RemoveKeeps
<1>3. QED
  BY <1>1, <1>2, UnbindingKeeps

LEMMA CleanDataKeeps ==
    ASSUME IInv, NEW e \in Node, CleanData(e)
    PROVE  IInv'
<1>1. ListensInv /\ UNCHANGED <<triggered, frames, past>>
  BY Zenon DEF IInv, CleanData
<1>2. /\ ListensInv'
      /\ \A x \in Node, u \in Types : \A c \in BoundAt(x, u)' : c \in BoundAt(x, u)
  BY <1>1, CleanKeeps
<1>3. QED
  BY <1>1, <1>2, UnbindingKeeps

\* The innermost event, and what it still has to call.
LEMMA TopIs ==
    ASSUME IInv, ~Idle, NEW f, f = Top
    PROVE  /\ ListensInv /\ ProperStack(frames, triggered) /\ HistoryInv
           /\ frames # <<>> /\ f = Last(frames) /\ FrameInv(f) /\ f \in Frames
<1>1. ListensInv /\ ProperStack(frames, triggered) /\ HistoryInv
  BY DEF IInv, StackInv
<1>2. frames # <<>> /\ f = Last(frames)
  BY Zenon DEF Idle, Top
<1>3. FrameInv(f) /\ f \in Frames
  BY <1>1, <1>2, TopOf
<1>4. QED
  BY <1>1, <1>2, <1>3

LEMMA VisitKeeps ==
    ASSUME IInv, Visit
    PROVE  IInv'
<1>1. PICK f : f = Top
  OBVIOUS
<1>2. PICK e : e = Head(f.left)
  OBVIOUS
<1>3. /\ ~Idle /\ f.step = "walk" /\ f.left # <<>>
      /\ UNCHANGED <<events, native, attaches, capturing, triggered, past>>
      /\ \/ Become(Dispatch(f, e)) /\ triggered # f.type
         \/ Become([f EXCEPT !.left = Tail(f.left)])
  BY <1>1, <1>2, Zenon DEF Visit
<1>4. ListensInv /\ FrameInv(f) /\ HistoryInv /\ f \in Frames
  BY <1>1, <1>3, TopIs
<1>5. ~Runs(f) /\ f.step # "native"
  BY <1>3 DEF Runs
<1>6. CASE Become(Dispatch(f, e)) /\ triggered # f.type
  <2>1. PICK g : g = Dispatch(f, e)
    OBVIOUS
  <2>2. /\ FrameInv(g) /\ SameEvent(g, f) /\ e \in Node
        /\ \A k \in Pending(g) : \E b \in BoundAt(e, f.type) : k = <<e, f.type, b>>
    BY <1>2, <1>3, <1>4, <1>5, <2>1, DispatchKeeps
  <2>3. f.type \in Types
    BY <1>4, FrameFields
  <2>4. \A b \in BoundAt(e, f.type) : <<e, f.type, b>> \notin past.ran
    BY <1>4, <2>2, <2>3, Zenon DEF HistoryInv
  <2>5. \A k \in Pending(g) : k \in Pending(f) \/ k \notin past.ran
    BY <2>2, <2>4, Zenon
  <2>6. MayGoOn(f, g, triggered)
    BY <1>6, Zenon DEF MayGoOn
  <2>7. QED
    BY <1>1, <1>3, <1>5, <1>6, <2>1, <2>2, <2>5, <2>6, EventGoesOn, Zenon
<1>7. CASE Become([f EXCEPT !.left = Tail(f.left)])
  <2>1. PICK g : g = [f EXCEPT !.left = Tail(f.left)]
    OBVIOUS
  <2>2. FrameInv(g) /\ SameEvent(g, f) /\ g.step = "walk" /\ Pending(g) = {}
    BY <1>3, <1>4, <1>5, <2>1, PassKeeps
  <2>3. MayGoOn(f, g, triggered) /\ \A k \in Pending(g) : k \in Pending(f) \/ k \notin past.ran
    BY <2>2 DEF MayGoOn
  <2>4. QED
    BY <1>1, <1>3, <1>5, <1>7, <2>1, <2>2, <2>3, EventGoesOn, Zenon
<1>8. QED
  BY <1>3, <1>6, <1>7

LEMMA VisitForeignKeeps ==
    ASSUME IInv, VisitForeign
    PROVE  IInv'
<1>1. PICK f : f = Top
  OBVIOUS
<1>2. PICK g : g = [f EXCEPT !.step = "foreign"]
  OBVIOUS
<1>3. /\ ~Idle /\ f.step = "walk" /\ f.left # <<>> /\ Become(g)
      /\ UNCHANGED <<events, native, attaches, capturing, triggered, past>>
  BY <1>1, <1>2, Zenon DEF VisitForeign
<1>4. FrameInv(f)
  BY <1>1, <1>3, TopIs
<1>5. FrameInv(g) /\ SameEvent(g, f) /\ g.step = "foreign" /\ Pending(g) = {}
  BY <1>2, <1>3, <1>4, StepKeeps
<1>6. f.step # "native" /\ MayGoOn(f, g, triggered)
      /\ \A k \in Pending(g) : k \in Pending(f) \/ k \notin past.ran
  BY <1>3, <1>5 DEF MayGoOn
<1>7. QED
  BY <1>1, <1>3, <1>5, <1>6, EventGoesOn, Zenon

LEMMA ForeignReturnsKeeps ==
    ASSUME IInv, ForeignReturns
    PROVE  IInv'
<1>1. PICK f : f = Top
  OBVIOUS
<1>2. PICK e : e = Head(f.left)
  OBVIOUS
<1>3. /\ ~Idle /\ f.step = "foreign"
      /\ UNCHANGED <<events, native, attaches, capturing, triggered, past>>
      /\ \/ Become(Dispatch(f, e)) /\ triggered # f.type
         \/ Become([f EXCEPT !.left = Tail(f.left), !.step = "walk"])
  BY <1>1, <1>2, Zenon DEF ForeignReturns
<1>4. ListensInv /\ FrameInv(f) /\ HistoryInv /\ f \in Frames
  BY <1>1, <1>3, TopIs
<1>5. ~Runs(f) /\ f.step # "native" /\ f.left # <<>>
  BY <1>3, <1>4 DEF Runs, FrameInv, PathInv
<1>6. CASE Become(Dispatch(f, e)) /\ triggered # f.type
  <2>1. PICK g : g = Dispatch(f, e)
    OBVIOUS
  <2>2. /\ FrameInv(g) /\ SameEvent(g, f) /\ e \in Node
        /\ \A k \in Pending(g) : \E b \in BoundAt(e, f.type) : k = <<e, f.type, b>>
    BY <1>2, <1>4, <1>5, <2>1, DispatchKeeps
  <2>3. f.type \in Types
    BY <1>4, FrameFields
  <2>4. \A b \in BoundAt(e, f.type) : <<e, f.type, b>> \notin past.ran
    BY <1>4, <2>2, <2>3, Zenon DEF HistoryInv
  <2>5. \A k \in Pending(g) : k \in Pending(f) \/ k \notin past.ran
    BY <2>2, <2>4, Zenon
  <2>6. MayGoOn(f, g, triggered)
    BY <1>6, Zenon DEF MayGoOn
  <2>7. QED
    BY <1>1, <1>3, <1>5, <1>6, <2>1, <2>2, <2>5, <2>6, EventGoesOn, Zenon
<1>7. CASE Become([f EXCEPT !.left = Tail(f.left), !.step = "walk"])
  <2>1. PICK g : g = [f EXCEPT !.left = Tail(f.left), !.step = "walk"]
    OBVIOUS
  <2>2. FrameInv(g) /\ SameEvent(g, f) /\ g.step = "walk" /\ Pending(g) = {}
    BY <1>4, <1>5, <2>1, PassKeeps
  <2>3. MayGoOn(f, g, triggered) /\ \A k \in Pending(g) : k \in Pending(f) \/ k \notin past.ran
    BY <2>2 DEF MayGoOn
  <2>4. QED
    BY <1>1, <1>3, <1>5, <1>7, <2>1, <2>2, <2>3, EventGoesOn, Zenon
<1>8. QED
  BY <1>3, <1>6, <1>7

LEMMA LeaveElementKeeps ==
    ASSUME IInv, LeaveElement
    PROVE  IInv'
<1>1. PICK f : f = Top
  OBVIOUS
<1>2. PICK g : g = [f EXCEPT !.step = "walk", !.queue = <<>>, !.due = {}, !.called = {}]
  OBVIOUS
<1>3. /\ ~Idle /\ f.step = "run" /\ Become(g)
      /\ UNCHANGED <<events, native, attaches, capturing, triggered, past>>
  BY <1>1, <1>2, Zenon DEF LeaveElement
<1>4. FrameInv(f)
  BY <1>1, <1>3, TopIs
<1>5. FrameInv(g) /\ SameEvent(g, f) /\ g.step = "walk" /\ Pending(g) = {}
  BY <1>2, <1>4, LeaveKeeps
<1>6. f.step # "native" /\ MayGoOn(f, g, triggered)
      /\ \A k \in Pending(g) : k \in Pending(f) \/ k \notin past.ran
  BY <1>3, <1>5 DEF MayGoOn
<1>7. QED
  BY <1>1, <1>3, <1>5, <1>6, EventGoesOn, Zenon

LEMMA HandlerReturnsKeeps ==
    ASSUME IInv, HandlerReturns
    PROVE  IInv'
<1>1. PICK f : f = Top
  OBVIOUS
<1>2. /\ ~Idle /\ f.step = "handler"
      /\ UNCHANGED <<events, native, attaches, capturing, triggered, past>>
  BY <1>1, Zenon DEF HandlerReturns
<1>3. PICK stops \in BOOLEAN, now \in BOOLEAN, prevents \in BOOLEAN :
        (now => stops) /\ Become(Returned(f, stops, now, prevents))
  BY <1>1, Zenon DEF HandlerReturns, Returned
<1>4. PICK g : g = Returned(f, stops, now, prevents)
  OBVIOUS
<1>5. FrameInv(f)
  BY <1>1, <1>2, TopIs
<1>6. FrameInv(g) /\ SameEvent(g, f) /\ g.step = "run" /\ Pending(g) = Pending(f)
  BY <1>2, <1>3, <1>4, <1>5, ReturnKeeps, Zenon
<1>7. f.step # "native" /\ MayGoOn(f, g, triggered)
      /\ \A k \in Pending(g) : k \in Pending(f) \/ k \notin past.ran
  BY <1>2, <1>6 DEF MayGoOn, Runs
<1>8. Become(g)
  BY <1>3, <1>4, Zenon
<1>9. QED
  BY <1>1, <1>2, <1>6, <1>7, <1>8, EventGoesOn, Zenon

LEMMA TriggerKeeps ==
    ASSUME ~ForeignTriggers, IInv,
           NEW e \in Node, NEW t \in Types, NEW ns \in SUBSET Namespaces, Trigger(e, t, ns)
    PROVE  IInv'
<1>1. PICK g : g = EventAt(e, t, TRUE, ns)
  OBVIOUS
<1>2. PICK new : new = UNION {Pending(frames[i]) : i \in DOMAIN frames}
  OBVIOUS
<1>3. PICK nested : nested = past.nested \cup new
  OBVIOUS
<1>4. /\ ~Idle => Top.step = "handler"
      /\ frames' = Append(frames, g)
      /\ past' = [past EXCEPT !.nested = nested]
      /\ UNCHANGED <<events, native, attaches, capturing, triggered>>
  BY <1>1, <1>2, <1>3, Zenon DEF Trigger
<1>5. FrameInv(g) /\ g.step = "walk" /\ g.trigger = TRUE /\ Pending(g) = {}
  <2>1. PICK trigger \in BOOLEAN : trigger = TRUE
    OBVIOUS
  <2>2. g = EventAt(e, t, trigger, ns)
    BY <1>1, <2>1, Zenon
  <2>3. Begun(g, t, trigger)
    BY <2>2, EventBegins
  <2>4. QED
    BY <2>1, <2>3, Zenon DEF Begun
<1>6. ListensInv /\ ProperStack(frames, triggered) /\ HistoryInv
  BY DEF IInv, StackInv
<1>7. PICK s, u : s = frames /\ u = frames'
  OBVIOUS
<1>8. PICK tr : tr = triggered
  OBVIOUS
<1>9. ProperStack(u, tr) /\ GrownBy(u, s, g)
  <2>1. MayBegin(s, g)
    BY <1>4, <1>5, <1>7, Zenon DEF MayBegin, Idle, Top
  <2>2. ProperStack(s, tr) /\ u = Append(s, g)
    BY <1>4, <1>6, <1>7, <1>8, Zenon
  <2>3. QED
    BY <1>5, <2>1, <2>2, StackGrows, Zenon
<1>10. /\ Len(s) \in Nat /\ Len(u) = Len(s) + 1 /\ u[Len(s) + 1] = g
       /\ \A i \in 1..Len(s) : u[i] = s[i] /\ FrameInv(s[i])
       /\ DOMAIN s = 1..Len(s)
  <2>1. s \in Seq(Frames) /\ \A i \in 1..Len(s) : FrameInv(s[i])
    BY <1>6, <1>7, Zenon DEF ProperStack
  <2>2. Len(s) \in Nat /\ DOMAIN s = 1..Len(s)
    BY <2>1, LenProperties
  <2>3. QED
    BY <1>9, <2>1, <2>2, Zenon DEF GrownBy
<1>11. \A i \in 1..Len(s) : Pending(s[i]) \subseteq new
  BY <1>2, <1>7, <1>10, Zenon
<1>12. new \in SUBSET Places
  <2>1. \A i \in 1..Len(s) : Pending(s[i]) \in SUBSET Places
    BY <1>10, PendingPlaces
  <2>2. QED
    BY <1>2, <1>7, <1>10, <2>1, Zenon
<1>13. /\ past \in PastRecords
       /\ \A x \in Node, y \in Types : \A c \in BoundAt(x, y) : <<x, y, c>> \notin past.ran
       /\ past.twice \subseteq past.nested
       /\ ~past.again
  BY <1>6, Zenon DEF HistoryInv
<1>14. /\ past' \in PastRecords /\ past'.ran = past.ran /\ past'.nested = nested
       /\ past'.twice = past.twice /\ past'.again = past.again
  BY <1>3, <1>4, <1>12, <1>13 DEF PastRecords
<1>15. \A i \in 1..Len(s) : Pending(u[i]) \subseteq nested
  BY <1>3, <1>10, <1>11
<1>16. \A i \in 1..(Len(u) - 1) : Pending(u[i]) \subseteq nested
  BY <1>10, <1>15
<1>17. ASSUME NEW i \in 1..Len(u)
       PROVE  Pending(u[i]) \cap past.ran \subseteq nested
  <2>1. i \in 1..Len(s) \/ i = Len(s) + 1
    BY <1>10
  <2>2. CASE i \in 1..Len(s)
    BY <1>15, <2>2, Zenon
  <2>3. CASE i = Len(s) + 1
    <3>1. Pending(u[i]) = {}
      BY <1>5, <1>10, <2>3, Zenon
    <3>2. QED
      BY <3>1
  <2>4. QED
    BY <2>1, <2>2, <2>3
<1>18. ListensInv' /\ \A x \in Node, y \in Types : \A c \in BoundAt(x, y)' : c \in BoundAt(x, y)
  BY <1>4, <1>6, ListensStays
<1>19. HistoryInv'
  <2>1. \A x \in Node, y \in Types : \A c \in BoundAt(x, y)' : <<x, y, c>> \notin past'.ran
    BY <1>13, <1>14, <1>18, Zenon
  <2>2. past'.twice \subseteq past'.nested
    BY <1>3, <1>13, <1>14
  <2>3. u = frames'
    BY <1>7
  <2>4. \A i \in 1..Len(u) : Pending(u[i]) \cap past'.ran \subseteq past'.nested
    BY <1>14, <1>17, Zenon
  <2>5. \A i \in 1..(Len(u) - 1) : Pending(u[i]) \subseteq past'.nested
    BY <1>14, <1>16, Zenon
  <2>6. ~past'.again
    BY <1>13, <1>14, Zenon
  <2>7. QED
    BY <1>14, <2>1, <2>2, <2>3, <2>4, <2>5, <2>6, Zenon DEF HistoryInv
<1>20. StackInv'
  <2>1. ProperStack(frames', triggered')
    BY <1>4, <1>7, <1>8, <1>9, Zenon
  <2>2. QED
    BY <2>1 DEF StackInv
<1>21. QED
  BY <1>18, <1>19, <1>20 DEF IInv

\* An event begins outside of all others.
LEMMA BeginKeeps ==
    ASSUME IInv, Idle, NEW g, FrameInv(g), g.step = "walk", Pending(g) = {},
           frames' = <<g>>, UNCHANGED <<events, native, attaches, capturing, triggered, past>>
    PROVE  IInv'
<1>1. ListensInv /\ ProperStack(<<>>, triggered) /\ HistoryInv
  BY Zenon DEF IInv, StackInv, Idle
<1>2. frames' = Append(<<>>, g)
  OBVIOUS
<1>3. PICK u : u = frames'
  OBVIOUS
<1>4. PICK tr : tr = triggered
  OBVIOUS
<1>5. /\ ProperStack(u, tr) /\ Len(u) \in {0, 1}
      /\ \A i \in 1..Len(u) : Pending(u[i]) = {}
  <2>1. ProperStack(<<>>, tr) /\ u = Append(<<>>, g)
    BY <1>1, <1>2, <1>3, <1>4, Zenon
  <2>2. QED
    BY <2>1, OnlyEvent, Zenon
<1>6. ListensInv' /\ \A x \in Node, y \in Types : \A c \in BoundAt(x, y)' : c \in BoundAt(x, y)
  BY <1>1, ListensStays
<1>7. HistoryInv'
  <2>1. /\ \A i \in 1..Len(u) : Pending(u[i]) \cap past.ran \subseteq past.nested
        /\ \A i \in 1..(Len(u) - 1) : Pending(u[i]) \subseteq past.nested
    BY <1>5
  <2>2. QED
    BY <1>1, <1>3, <1>6, <2>1, HistoryStays
<1>8. StackInv'
  BY <1>3, <1>4, <1>5, Zenon DEF StackInv
<1>9. QED
  BY <1>6, <1>7, <1>8 DEF IInv

LEMMA BrowserKeeps ==
    ASSUME IInv, NEW e \in Node, Clicked(e) \/ Focused(e)
    PROVE  IInv'
<1>1. CASE Clicked(e)
  <2>1. PICK g : g = EventAt(e, "click", FALSE, {})
    OBVIOUS
  <2>2. PICK t \in Types, trigger \in BOOLEAN : t = "click" /\ trigger = FALSE
    BY DEF Types
  <2>3. FrameInv(g) /\ g.step = "walk" /\ Pending(g) = {}
    <3>1. PICK ns \in SUBSET Namespaces : ns = {}
      OBVIOUS
    <3>2. g = EventAt(e, t, trigger, ns)
      BY <2>1, <2>2, <3>1, Zenon
    <3>3. Begun(g, t, trigger)
      BY <3>2, EventBegins
    <3>4. QED
      BY <3>3, Zenon DEF Begun
  <2>4. /\ Idle /\ frames' = <<g>>
        /\ UNCHANGED <<events, native, attaches, capturing, triggered, past>>
    BY <1>1, <2>1, Zenon DEF Clicked
  <2>5. QED
    BY <2>3, <2>4, BeginKeeps
<1>2. CASE Focused(e)
  <2>1. PICK g : g = EventAt(e, "focusin", TRUE, {})
    OBVIOUS
  <2>2. PICK t \in Types, trigger \in BOOLEAN : t = "focusin" /\ trigger = TRUE
    BY DEF Types
  <2>3. FrameInv(g) /\ g.step = "walk" /\ Pending(g) = {}
    <3>1. PICK ns \in SUBSET Namespaces : ns = {}
      OBVIOUS
    <3>2. g = EventAt(e, t, trigger, ns)
      BY <2>1, <2>2, <3>1, Zenon
    <3>3. Begun(g, t, trigger)
      BY <3>2, EventBegins
    <3>4. QED
      BY <3>3, Zenon DEF Begun
  <2>4. /\ Idle /\ frames' = <<g>>
        /\ UNCHANGED <<events, native, attaches, capturing, triggered, past>>
    BY <1>2, <2>1, Zenon DEF Focused
  <2>5. QED
    BY <2>3, <2>4, BeginKeeps
<1>3. QED
  BY <1>1, <1>2

LEMMA HandlerThrowsKeeps ==
    ASSUME IInv, HandlerThrows
    PROVE  IInv'
<1>2. /\ ~Idle /\ Top.step = "handler"
      /\ UNCHANGED <<events, native, attaches, capturing, triggered, past>>
  BY Zenon DEF HandlerThrows
<1>3. PICK s, u : s = frames /\ u = frames'
  OBVIOUS
<1>4. PICK tr : tr = triggered
  OBVIOUS
<1>5. ListensInv /\ ProperStack(s, tr) /\ HistoryInv /\ s # <<>> /\ Last(s).step = "handler"
  BY <1>2, <1>3, <1>4, Zenon DEF IInv, StackInv, Idle, Top
<1>6. u = LeftOf(s)
  BY <1>3, Zenon DEF HandlerThrows, LeftOf
<1>7. /\ ProperStack(u, tr) /\ Len(u) \in {0, 1}
      /\ \A i \in 1..Len(u) : Pending(u[i]) = {}
  BY <1>5, <1>6, StackIsLeft
<1>8. ListensInv' /\ \A x \in Node, y \in Types : \A c \in BoundAt(x, y)' : c \in BoundAt(x, y)
  BY <1>2, <1>5, ListensStays
<1>9. HistoryInv'
  <2>1. /\ \A i \in 1..Len(u) : Pending(u[i]) \cap past.ran \subseteq past.nested
        /\ \A i \in 1..(Len(u) - 1) : Pending(u[i]) \subseteq past.nested
    BY <1>7
  <2>2. QED
    BY <1>2, <1>3, <1>5, <1>8, <2>1, HistoryStays
<1>10. StackInv'
  BY <1>2, <1>3, <1>4, <1>7, Zenon DEF StackInv
<1>11. QED
  BY <1>8, <1>9, <1>10 DEF IInv

LEMMA DefaultKeeps ==
    ASSUME IInv, Default
    PROVE  IInv'
<1>1. PICK f : f = Top
  OBVIOUS
<1>2. PICK g : g = [f EXCEPT !.step = "native"]
  OBVIOUS
<1>3. PICK h : h = EventAt(f.target, f.type, FALSE, {})
  OBVIOUS
<1>4. /\ ~Idle /\ f.step = "walk" /\ f.trigger
      /\ frames' = Append(Append(Front(frames), g), h) /\ triggered' = f.type
      /\ UNCHANGED <<events, native, attaches, capturing, past>>
  BY <1>1, <1>2, <1>3, Zenon DEF Default, WalkOver, HasDefault
<1>5. /\ ListensInv /\ ProperStack(frames, triggered) /\ HistoryInv
      /\ frames # <<>> /\ f = Last(frames) /\ FrameInv(f) /\ f \in Frames
  BY <1>1, <1>4, TopIs
<1>6. FrameInv(g) /\ SameEvent(g, f) /\ g.step = "native" /\ Pending(g) = {}
  <2>1. PICK x \in {"foreign", "native"} : x = "native"
    OBVIOUS
  <2>2. g = [f EXCEPT !.step = x] /\ (x = "foreign" => f.left # <<>>)
    BY <1>2, <2>1
  <2>3. FrameInv(g) /\ SameEvent(g, f) /\ g.step = x /\ Pending(g) = {}
    BY <1>4, <1>5, <2>2, StepKeeps
  <2>4. QED
    BY <2>1, <2>3
<1>7. FrameInv(h) /\ ~h.trigger /\ h.step = "walk" /\ h.type = f.type /\ Pending(h) = {}
  <2>1. PICK e \in Node, t \in Types : e = f.target /\ t = f.type
    BY <1>5, FrameFields
  <2>2. PICK trigger \in BOOLEAN : trigger = FALSE
    OBVIOUS
  <2>3. PICK ns \in SUBSET Namespaces : ns = {}
    OBVIOUS
  <2>4. h = EventAt(e, t, trigger, ns)
    BY <1>3, <2>1, <2>2, <2>3, Zenon
  <2>5. Begun(h, t, trigger)
    BY <2>4, EventBegins
  <2>6. QED
    BY <2>1, <2>2, <2>5, Zenon DEF Begun
<1>8. PICK s, u : s = frames /\ u = frames'
  OBVIOUS
<1>9. PICK tr : tr = triggered
  OBVIOUS
<1>10. ProperStack(u, f.type) /\ FiredIn(u, s, g, h)
  <2>1. ProperStack(s, tr) /\ s # <<>> /\ f = Last(s) /\ u = Append(Append(Front(s), g), h)
    BY <1>4, <1>5, <1>8, <1>9, Zenon
  <2>2. QED
    BY <1>4, <1>6, <1>7, <2>1, StackFires
<1>11. Len(s) \in Nat \ {0}
  BY <1>5, <1>8, TopOf
<1>12. \A i \in 1..(Len(s) - 1) : Pending(s[i]) \subseteq past.nested
  BY <1>5, <1>8, Zenon DEF HistoryInv
<1>13. ASSUME NEW i \in 1..Len(u)
       PROVE  Pending(u[i]) \subseteq past.nested
  <2>1. i \in 1..(Len(s) - 1) \/ i = Len(s) \/ i = Len(s) + 1
    BY <1>10, <1>11 DEF FiredIn
  <2>2. CASE i \in 1..(Len(s) - 1)
    BY <1>10, <1>12, <2>2, Zenon DEF FiredIn
  <2>3. CASE i = Len(s) \/ i = Len(s) + 1
    <3>1. Pending(u[i]) = {}
      BY <1>6, <1>7, <1>10, <2>3, Zenon DEF FiredIn
    <3>2. QED
      BY <3>1
  <2>4. QED
    BY <2>1, <2>2, <2>3
<1>14. ListensInv' /\ \A x \in Node, y \in Types : \A c \in BoundAt(x, y)' : c \in BoundAt(x, y)
  BY <1>4, <1>5, ListensStays
<1>15. HistoryInv'
  <2>1. Len(u) = Len(s) + 1
    BY <1>10 DEF FiredIn
  <2>2. \A i \in 1..(Len(u) - 1) : i \in 1..Len(u)
    BY <1>11, <2>1
  <2>3. /\ \A i \in 1..Len(u) : Pending(u[i]) \cap past.ran \subseteq past.nested
        /\ \A i \in 1..(Len(u) - 1) : Pending(u[i]) \subseteq past.nested
    BY <1>13, <2>2
  <2>4. QED
    BY <1>4, <1>5, <1>8, <1>14, <2>3, HistoryStays
<1>16. StackInv'
  BY <1>4, <1>8, <1>10, Zenon DEF StackInv
<1>17. QED
  BY <1>14, <1>15, <1>16 DEF IInv

LEMMA EndEventKeeps ==
    ASSUME IInv, EndEvent
    PROVE  IInv'
<1>1. PICK f : f = Top
  OBVIOUS
<1>2. /\ ~Idle /\ frames' = Front(frames)
      /\ triggered' = IF f.step = "native" THEN None ELSE triggered
      /\ UNCHANGED <<events, native, attaches, capturing, past>>
  BY <1>1, Zenon DEF EndEvent
<1>3. /\ ListensInv /\ ProperStack(frames, triggered) /\ HistoryInv
      /\ frames # <<>> /\ f = Last(frames)
  BY <1>1, <1>2, TopIs
<1>4. PICK s, u : s = frames /\ u = frames'
  OBVIOUS
<1>5. PICK tr, rt : tr = triggered /\ rt = triggered'
  OBVIOUS
<1>6. /\ ProperStack(u, rt) /\ Len(u) = Len(s) - 1 /\ Len(s) \in Nat
      /\ \A i \in 1..(Len(s) - 1) : u[i] = s[i]
  <2>1. ProperStack(s, tr) /\ s # <<>> /\ f = Last(s) /\ EndedTo(u, s, f, tr, rt)
    BY <1>2, <1>3, <1>4, <1>5, Zenon DEF EndedTo
  <2>2. QED
    BY <2>1, StackEnds
<1>7. \A i \in 1..(Len(s) - 1) : Pending(s[i]) \subseteq past.nested
  BY <1>3, <1>4, Zenon DEF HistoryInv
<1>8. \A i \in 1..Len(u) : Pending(u[i]) \subseteq past.nested
  BY <1>6, <1>7, Zenon
<1>9. ListensInv' /\ \A x \in Node, y \in Types : \A c \in BoundAt(x, y)' : c \in BoundAt(x, y)
  BY <1>2, <1>3, ListensStays
<1>10. HistoryInv'
  <2>1. \A i \in 1..(Len(u) - 1) : i \in 1..Len(u)
    BY <1>6
  <2>2. /\ \A i \in 1..Len(u) : Pending(u[i]) \cap past.ran \subseteq past.nested
        /\ \A i \in 1..(Len(u) - 1) : Pending(u[i]) \subseteq past.nested
    BY <1>8, <2>1
  <2>3. QED
    BY <1>2, <1>3, <1>4, <1>9, <2>2, HistoryStays
<1>11. StackInv'
  BY <1>4, <1>5, <1>6, Zenon DEF StackInv
<1>12. QED
  BY <1>9, <1>10, <1>11 DEF IInv

LEMMA CallHandlerKeeps ==
    ASSUME IInv, CallHandler
    PROVE  IInv'
<1>1. PICK f : f = Top
  OBVIOUS
<1>2. PICK e, b : e = Head(f.queue)[1] /\ b = Head(Head(f.queue)[2])
  OBVIOUS
<1>3. PICK r : r = RestOf(f.queue)
  OBVIOUS
<1>4. PICK k : k = <<f.at, f.type, b>>
  OBVIOUS
<1>5. PICK st, sn : /\ st = IF Allowed(b) THEN "handler" ELSE "run"
                    /\ sn = IF Allowed(b) THEN f.seen \cup {k} ELSE f.seen
  OBVIOUS
<1>6. PICK g : g = [f EXCEPT !.queue = r, !.called = @ \cup {<<e, b>>}, !.step = st, !.seen = sn]
  OBVIOUS
<1>7. /\ ~Idle /\ f.step = "run" /\ f.queue # <<>>
      /\ NextCall(e, b)
      /\ IF b.one /\ Allowed(b)
         THEN RemoveFrom(f.at, f.type, b.fn, b.namespace, b.selector)
         ELSE UNCHANGED <<events, native, attaches, capturing>>
      /\ triggered' = triggered
  BY <1>1, <1>2, Zenon DEF CallHandler, DispatchOver
<1>8. /\ Become(g)
      /\ past' = IF ~Allowed(b) THEN past
                 ELSE [past EXCEPT !.again = @ \/ k \in SeenBefore,
                                   !.twice = @ \cup ({k} \cap past.ran),
                                   !.ran = IF b.one THEN @ \cup {k} ELSE @]
  BY <1>1, <1>2, <1>3, <1>4, <1>5, <1>6, <1>7, Zenon DEF NextCall, RestOf
<1>9. /\ ListensInv /\ ProperStack(frames, triggered) /\ HistoryInv
      /\ frames # <<>> /\ f = Last(frames) /\ FrameInv(f) /\ f \in Frames
  BY <1>1, <1>7, TopIs
<1>10. TakenFrom(g, f, k, b) /\ (st = "handler" \/ st = "run")
  <2>1. SeenWith(f, k, st, sn) /\ (st = "handler" \/ st = "run")
    BY <1>5, Zenon DEF SeenWith
  <2>2. e = Head(f.queue)[1] /\ b = Head(Head(f.queue)[2])
    BY <1>2, Zenon
  <2>3. QED
    BY <1>3, <1>4, <1>6, <1>7, <1>9, <2>1, <2>2, CallKeeps, Zenon
<1>11. PICK s, u : s = frames /\ u = frames'
  OBVIOUS
<1>12. PICK tr : tr = triggered
  OBVIOUS
<1>13. ProperStack(s, tr) /\ s # <<>> /\ f = Last(s) /\ u = Append(Front(s), g) /\ Runs(f)
  BY <1>7, <1>8, <1>9, <1>11, <1>12, Zenon DEF Become, Runs
<1>14. ProperStack(u, tr) /\ InnermostIs(u, s, g)
  <2>1. MayGoOn(f, g, tr) /\ f.step # "native" /\ FrameInv(g) /\ SameEvent(g, f)
    BY <1>7, <1>10, <1>13 DEF MayGoOn, TakenFrom
  <2>2. QED
    BY <1>13, <2>1, StackGoesOn
<1>15. Len(s) \in Nat \ {0} /\ f = s[Len(s)] /\ Len(s) \in 1..Len(s)
  BY <1>13, TopOf
<1>16. /\ ListensInv'
       /\ \A x \in Node, y \in Types : \A c \in BoundAt(x, y)' :
            c \in BoundAt(x, y) /\ (b.one /\ Allowed(b) => <<x, y, c>> # k)
  <2>1. CASE b.one /\ Allowed(b)
    <3>1. f.type \in Types /\ f.at \in Node
      BY <1>9, <1>10, FrameFields DEF TakenFrom
    <3>2. RemoveFrom(f.at, f.type, b.fn, b.namespace, b.selector)
      BY <1>7, <2>1, Zenon
    <3>3. /\ ListensInv'
          /\ \A x \in Node, y \in Types : \A c \in BoundAt(x, y)' :
               /\ c \in BoundAt(x, y)
               /\ x = f.at /\ y = f.type => ~Matches(c, b.fn, b.namespace, b.selector)
      BY <1>9, <3>1, <3>2, RemoveKeeps
    <3>4. Matches(b, b.fn, b.namespace, b.selector)
      BY Zenon DEF Matches
    <3>5. ASSUME NEW x \in Node, NEW y \in Types, NEW c \in BoundAt(x, y)', <<x, y, c>> = k
          PROVE  FALSE
      <4>1. x = f.at /\ y = f.type /\ c = b
        BY <1>4, <3>5
      <4>2. QED
        BY <3>3, <3>4, <4>1, Zenon
    <3>6. QED
      BY <3>3, <3>5, Zenon
  <2>2. CASE ~(b.one /\ Allowed(b))
    <3>1. UNCHANGED <<events, native, attaches, capturing>>
      BY <1>7, <2>2, Zenon
    <3>2. ListensInv' /\ \A x \in Node, y \in Types : \A c \in BoundAt(x, y)' : c \in BoundAt(x, y)
      BY <1>9, <3>1, ListensStays
    <3>3. QED
      BY <2>2, <3>2, Zenon
  <2>3. QED
    BY <2>1, <2>2
<1>17. /\ past \in PastRecords
       /\ \A x \in Node, y \in Types : \A c \in BoundAt(x, y) : <<x, y, c>> \notin past.ran
       /\ \A i \in 1..Len(s) : Pending(s[i]) \cap past.ran \subseteq past.nested
       /\ \A i \in 1..(Len(s) - 1) : Pending(s[i]) \subseteq past.nested
       /\ past.twice \subseteq past.nested
       /\ ~past.again
  BY <1>9, <1>11, Zenon DEF HistoryInv
<1>18. \A i \in 1..(Len(u) - 1) : Pending(u[i]) \subseteq past.nested
  BY <1>14, <1>17, Zenon DEF InnermostIs
<1>19. /\ Pending(f) \cap past.ran \subseteq past.nested
       /\ \A x \in Pending(g) : x \in Pending(f) /\ x # k
       /\ k \in Pending(f) /\ k \in Places /\ k \notin f.seen
  BY <1>10, <1>15, <1>17 DEF TakenFrom
<1>20. \A i \in 1..Len(u) : i \in 1..(Len(u) - 1) \/ u[i] = g
  BY <1>14, <1>15 DEF InnermostIs
<1>21. HistoryInv'
  <2>1. CASE ~Allowed(b)
    <3>1. past' = past
      BY <1>8, <2>1, Zenon
    <3>2. Pending(g) \cap past.ran \subseteq past.nested
      BY <1>19
    <3>3. \A i \in 1..Len(u) : Pending(u[i]) \cap past.ran \subseteq past.nested
      BY <1>18, <1>20, <3>2, Zenon
    <3>4. QED
      BY <1>9, <1>11, <1>16, <1>18, <3>1, <3>3, HistoryStays
  <2>2. CASE Allowed(b)
    <3>1. SeenBefore = f.seen
      <4>1. \A i \in 2..Len(s) : s[i].trigger
        BY <1>13, NothingNative
      <4>2. Len(s) > 1 => f.trigger
        <5>1. Len(s) > 1 => Len(s) \in 2..Len(s)
          BY <1>15
        <5>2. QED
          BY <1>15, <4>1, <5>1, Zenon
      <4>3. (IF Len(frames) > 1 /\ ~Top.trigger THEN frames[Len(frames) - 1].seen ELSE {}) = {}
        BY <1>1, <1>11, <4>2, Zenon
      <4>4. SeenBefore = f.seen \cup {}
        BY <1>1, <4>3, Zenon DEF SeenBefore
      <4>5. QED
        BY <4>4
    <3>2. PICK tw : tw = past.twice \cup ({k} \cap past.ran)
      OBVIOUS
    <3>3. PICK rn : rn = IF b.one THEN past.ran \cup {k} ELSE past.ran
      OBVIOUS
    <3>4. past' = [past EXCEPT !.again = FALSE, !.twice = tw, !.ran = rn]
      <4>1. (past.again \/ k \in SeenBefore) = FALSE
        BY <1>17, <1>19, <3>1, Zenon
      <4>2. past' = [past EXCEPT !.again = past.again \/ k \in SeenBefore, !.twice = tw, !.ran = rn]
        BY <1>8, <2>2, <3>2, <3>3, Zenon
      <4>3. QED
        BY <4>1, <4>2, Zenon
    <3>5. rn \in SUBSET Places /\ tw \in SUBSET Places
      BY <1>17, <1>19, <3>2, <3>3 DEF PastRecords
    <3>6. /\ past' \in PastRecords /\ past'.ran = rn /\ past'.nested = past.nested
          /\ past'.twice = tw /\ past'.again = FALSE
      BY <1>17, <3>4, <3>5 DEF PastRecords
    <3>7. tw \subseteq past.nested
      BY <1>17, <1>19, <3>2
    <3>8. \A x \in rn : x \in past.ran \/ (x = k /\ b.one)
      BY <3>3
    <3>9. \A x \in Node, y \in Types : \A c \in BoundAt(x, y)' : <<x, y, c>> \notin rn
      BY <1>16, <1>17, <2>2, <3>8, Zenon
    <3>10. Pending(g) \cap rn \subseteq past.nested
      BY <1>19, <3>8
    <3>11. \A i \in 1..Len(u) : Pending(u[i]) \cap rn \subseteq past.nested
      <4>1. \A i \in 1..(Len(u) - 1) : Pending(u[i]) \cap rn \subseteq past.nested
        BY <1>18
      <4>2. QED
        BY <1>20, <3>10, <4>1, Zenon
    <3>12. u = frames'
      BY <1>11
    <3>13. QED
      BY <1>18, <3>6, <3>7, <3>9, <3>11, <3>12, Zenon DEF HistoryInv
  <2>3. QED
    BY <2>1, <2>2
<1>22. StackInv'
  BY <1>7, <1>11, <1>12, <1>14, Zenon DEF StackInv
<1>23. QED
  BY <1>16, <1>21, <1>22 DEF IInv

LEMMA InitIs ==
    ASSUME Init
    PROVE  IInv
<1>1. PICK h : h = [list |-> <<>>, delegateCount |-> 0]
  OBVIOUS
<1>2. /\ events = [e \in Node |-> [t \in Types |-> h]] /\ native = [e \in Node |-> {}]
      /\ attaches = 0 /\ capturing = FALSE /\ triggered = None /\ frames = <<>>
      /\ past = [ran |-> {}, twice |-> {}, nested |-> {}, again |-> FALSE]
  BY <1>1, Zenon DEF Init
<1>3. h \in HandlerLists /\ h.list = <<>> /\ Len(h.list) = 0 /\ h.delegateCount = 0
  <2>1. <<>> \in Seq(Bindings) /\ Len(<<>>) = 0
    BY EmptySeq
  <2>2. QED
    BY <1>1, <2>1 DEF HandlerLists
<1>4. ProperList(h)
  BY <1>3 DEF ProperList
<1>5. \A e \in Node, t \in Types : events[e][t] = h
  BY <1>2
<1>6. \A e \in Node, t \in Types : ~Bound(e, t)
  BY <1>3, <1>5, Zenon DEF Bound
<1>7. "click" \in Types /\ "focusin" \in Types
  BY DEF Types
<1>8. ListensInv
  <2>1. FocusBound = {}
    BY <1>6, <1>7, Zenon DEF FocusBound
  <2>2. Cardinality(FocusBound) = 0
    BY <2>1, FS_EmptySet
  <2>3. /\ events \in [Node -> [Types -> HandlerLists]]
        /\ native \in [Node -> SUBSET Types]
        /\ \A e \in Node : "click" \notin native[e]
    BY <1>2, <1>3
  <2>4. \A e \in Node, t \in Types : ProperList(events[e][t])
    BY <1>4, <1>5, Zenon
  <2>5. capturing \in BOOLEAN /\ ~capturing
    BY <1>2
  <2>6. QED
    BY <1>2, <1>6, <1>7, <2>2, <2>3, <2>4, <2>5, Zenon DEF ListensInv
<1>9. StackInv
  <2>1. <<>> \in Seq(Frames) /\ Len(<<>>) = 0
    BY EmptySeq
  <2>2. (\A i : i \notin 1..0) /\ (\A i : i \notin 1..(0 - 1)) /\ \A i : i \notin 2..0
    OBVIOUS
  <2>3. triggered \in Types \cup {None}
    BY <1>2
  <2>4. QED
    BY <1>2, <2>1, <2>2, <2>3, Zenon DEF StackInv, ProperStack
<1>10. HistoryInv
  <2>1. past \in PastRecords /\ past.ran = {} /\ past.twice = {} /\ past.again = FALSE
    BY <1>2 DEF PastRecords
  <2>2. Len(frames) = 0
    BY <1>2
  <2>3. (\A i : i \notin 1..Len(frames)) /\ \A i : i \notin 1..(Len(frames) - 1)
    BY <2>2
  <2>4. QED
    BY <2>1, <2>3, Zenon DEF HistoryInv
<1>11. QED
  BY <1>8, <1>9, <1>10 DEF IInv

\* One step of the page, the browser or jQuery.
LEMMA NextKeeps ==
    ASSUME ~ForeignTriggers, IInv, [Next]_vars
    PROVE  IInv'
<1>1. CASE PageActs
  <2>1. PICK e \in Node :
          \/ \E t \in Types :
              \/ \E b \in Bindings : On(e, t, b)
              \/ \E b \in Bindings : Off(e, t, b.fn, b.namespace, b.selector)
              \/ Off(e, t, None, {}, None)
              \/ \E ns \in SUBSET Namespaces : Trigger(e, t, ns)
          \/ CleanData(e)
    BY <1>1, Zenon DEF PageActs
  <2>2. CASE CleanData(e)
    BY <2>2, CleanDataKeeps
  <2>3. ASSUME NEW t \in Types, NEW b \in Bindings, On(e, t, b)
        PROVE  IInv'
    BY <2>3, OnKeeps
  <2>4. ASSUME NEW t \in Types, NEW fn, NEW ns, NEW sel, Off(e, t, fn, ns, sel)
        PROVE  IInv'
    BY <2>4, OffKeeps
  <2>5. ASSUME NEW t \in Types, NEW ns \in SUBSET Namespaces, Trigger(e, t, ns)
        PROVE  IInv'
    BY <2>5, TriggerKeeps
  <2>6. QED
    BY <2>1, <2>2, <2>3, <2>4, <2>5, Zenon
<1>2. CASE \E e \in Node : Clicked(e) \/ Focused(e)
  BY <1>2, BrowserKeeps
<1>3. CASE Visit
  BY <1>3, VisitKeeps
<1>4. CASE VisitForeign
  BY <1>4, VisitForeignKeeps
<1>5. CASE ForeignReturns
  BY <1>5, ForeignReturnsKeeps
<1>6. CASE LeaveElement
  BY <1>6, LeaveElementKeeps
<1>7. CASE CallHandler
  BY <1>7, CallHandlerKeeps
<1>8. CASE HandlerReturns
  BY <1>8, HandlerReturnsKeeps
<1>9. CASE HandlerThrows
  BY <1>9, HandlerThrowsKeeps
<1>10. CASE Default
  BY <1>10, DefaultKeeps
<1>11. CASE EndEvent
  BY <1>11, EndEventKeeps
<1>12. CASE UNCHANGED vars
  <2>1. UNCHANGED <<events, native, attaches, capturing, triggered, frames, past>>
    BY <1>12, Zenon DEF vars
  <2>2. ListensInv
    BY DEF IInv
  <2>3. ListensInv' /\ \A x \in Node, y \in Types : \A c \in BoundAt(x, y)' : c \in BoundAt(x, y)
    BY <2>1, <2>2, ListensStays
  <2>4. QED
    BY <2>1, <2>3, UnbindingKeeps
<1>13. QED
  BY <1>1, <1>2, <1>3, <1>4, <1>5, <1>6, <1>7, <1>8, <1>9, <1>10, <1>11, <1>12, Zenon
     DEF Next, Continue

-----------------------------------------------------------------------------
(* Where listeners trigger, too.                                           *)

\* The events under way, whoever triggered them.
FramesOK(s) == s \in Seq(Frames) /\ \A i \in 1..Len(s) : FrameInv(s[i])

BaseInv ==
    /\ ListensInv
    /\ FramesOK(frames)
    /\ triggered \in Types \cup {None}
    /\ past \in PastRecords

\* The innermost event of a stack, and the others.
LEMMA FramesFront ==
    ASSUME NEW s, FramesOK(s), s # <<>>
    PROVE  FramesOK(Front(s)) /\ FrameInv(Last(s)) /\ Last(s) \in Frames
<1>1. PICK u : u = Front(s)
  OBVIOUS
<1>2. s \in Seq(Frames) /\ \A i \in 1..Len(s) : FrameInv(s[i])
  BY DEF FramesOK
<1>3. /\ u \in Seq(Frames) /\ Len(u) = Len(s) - 1 /\ Len(s) \in Nat \ {0}
      /\ \A i \in 1..(Len(s) - 1) : u[i] = s[i]
      /\ Last(s) = s[Len(s)] /\ Last(s) \in Frames
  BY <1>1, <1>2, FrontLast
<1>4. Len(s) \in 1..Len(s) /\ \A i \in 1..Len(u) : i \in 1..(Len(s) - 1) /\ i \in 1..Len(s)
  BY <1>3
<1>5. FrameInv(Last(s)) /\ \A i \in 1..Len(u) : FrameInv(u[i])
  BY <1>2, <1>3, <1>4, Zenon
<1>6. FramesOK(u)
  BY <1>3, <1>5 DEF FramesOK
<1>7. QED
  BY <1>1, <1>3, <1>5, <1>6

\* One more event.
LEMMA FramesAppend ==
    ASSUME NEW s, FramesOK(s), NEW g, FrameInv(g), NEW u, u = Append(s, g)
    PROVE  FramesOK(u)
<1>1. s \in Seq(Frames) /\ Len(s) \in Nat /\ \A i \in 1..Len(s) : FrameInv(s[i])
  BY LenProperties DEF FramesOK
<1>2. g \in Frames
  BY DEF FrameInv
<1>3. /\ u \in Seq(Frames) /\ Len(u) = Len(s) + 1 /\ u[Len(s) + 1] = g
      /\ \A i \in 1..Len(s) : u[i] = s[i]
  BY <1>1, <1>2, AppendProperties
<1>4. \A i \in 1..Len(u) : i \in 1..Len(s) \/ i = Len(s) + 1
  BY <1>1, <1>3
<1>5. \A i \in 1..Len(u) : FrameInv(u[i])
  BY <1>1, <1>3, <1>4, Zenon
<1>6. QED
  BY <1>3, <1>5 DEF FramesOK

\* What a handler that throws leaves are events.
LEMMA FramesLeft ==
    ASSUME NEW s, FramesOK(s), NEW u, u = LeftOf(s)
    PROVE  FramesOK(u)
<1>1. s \in Seq(Frames) /\ Len(s) \in Nat /\ DOMAIN s = 1..Len(s)
      /\ \A i \in 1..Len(s) : FrameInv(s[i])
  BY LenProperties DEF FramesOK
<1>2. PICK natives : natives = {i \in DOMAIN s : ~s[i].trigger}
  OBVIOUS
<1>3. PICK k : k = Max(natives)
  OBVIOUS
<1>4. CASE natives = {}
  <2>1. u = <<>>
    BY <1>2, <1>4, Zenon DEF LeftOf
  <2>2. <<>> \in Seq(Frames) /\ \A i : i \notin 1..Len(<<>>)
    BY EmptySeq
  <2>3. QED
    BY <2>1, <2>2, Zenon DEF FramesOK
<1>5. CASE natives # {}
  <2>1. k \in natives
    <3>1. natives \in SUBSET (1..Len(s))
      BY <1>1, <1>2
    <3>2. \E x \in natives : \A y \in natives : x >= y
      BY <1>1, <1>5, <3>1, GreatestElement
    <3>3. QED
      BY <1>3, <3>2, Zenon DEF Max
  <2>2. k \in 1..Len(s) /\ FrameInv(s[k])
    BY <1>1, <1>2, <2>1
  <2>3. PICK a : a = s[k]
    OBVIOUS
  <2>4. PICK g : g = [a EXCEPT !.step = "walk", !.queue = <<>>, !.due = {}, !.called = {}]
    OBVIOUS
  <2>5. FrameInv(a) /\ FrameInv(g)
    BY <2>2, <2>3, <2>4, LeaveKeeps
  <2>6. PICK v : v = SubSeq(s, 1, k - 1)
    OBVIOUS
  <2>7. FramesOK(v)
    <3>1. /\ v \in Seq(Frames) /\ Len(v) = k - 1
          /\ \A i \in 1..(k - 1) : v[i] = s[i]
      BY <1>1, <2>2, <2>6, SubSeqProperties
    <3>2. \A i \in 1..Len(v) : i \in 1..(k - 1) /\ i \in 1..Len(s)
      BY <1>1, <2>2, <3>1
    <3>3. \A i \in 1..Len(v) : FrameInv(v[i])
      BY <1>1, <3>1, <3>2, Zenon
    <3>4. QED
      BY <3>1, <3>3 DEF FramesOK
  <2>8. u = Append(v, IF a.step = "foreign" THEN a ELSE g)
    BY <1>2, <1>3, <1>5, <2>3, <2>4, <2>6, Zenon DEF LeftOf
  <2>9. PICK h : h = IF a.step = "foreign" THEN a ELSE g
    OBVIOUS
  <2>10. FrameInv(h) /\ u = Append(v, h)
    BY <2>5, <2>8, <2>9, Zenon
  <2>11. QED
    BY <2>7, <2>10, FramesAppend
<1>6. QED
  BY <1>4, <1>5

\* The innermost event becomes g, and is all that changes of the events.
LEMMA BaseGoesOn ==
    ASSUME BaseInv, ~Idle, NEW g, FrameInv(g), Become(g), ListensInv',
           triggered' = triggered, past' \in PastRecords
    PROVE  BaseInv'
<1>1. frames # <<>> /\ frames' = Append(Front(frames), g) /\ FramesOK(frames)
  BY Zenon DEF Idle, Become, BaseInv
<1>2. FramesOK(Front(frames))
  BY <1>1, FramesFront
<1>3. FramesOK(frames')
  BY <1>1, <1>2, FramesAppend
<1>4. QED
  BY <1>3, Zenon DEF BaseInv

\* Pages, browsers and jQuery keep the listeners and the events under way.
LEMMA BaseKeeps ==
    ASSUME BaseInv, [Next]_vars
    PROVE  BaseInv'
<1>1. ListensInv /\ FramesOK(frames) /\ triggered \in Types \cup {None} /\ past \in PastRecords
  BY DEF BaseInv
<1>2. ASSUME UNCHANGED <<events, native, attaches, capturing>>
      PROVE  ListensInv'
  BY <1>1, <1>2, ListensStays
<1>3. ASSUME ListensInv', UNCHANGED <<triggered, frames>>, past' \in PastRecords
      PROVE  BaseInv'
  BY <1>1, <1>3, Zenon DEF BaseInv
<1>4. PICK f : f = Top
  OBVIOUS
<1>5. ~Idle => FrameInv(f) /\ f \in Frames
  BY <1>1, <1>4, FramesFront DEF Idle, Top
<1>6. ASSUME NEW e \in Node, NEW t \in Types, NEW b \in Bindings, On(e, t, b)
      PROVE  BaseInv'
  <2>1. /\ ~Contains(events[e][t].list, b) /\ Add(e, t, b)
        /\ past' = [past EXCEPT !.ran = past.ran \ {<<e, t, b>>}]
        /\ UNCHANGED <<triggered, frames>>
    BY <1>6, Zenon DEF On
  <2>2. ListensInv'
    BY <1>1, <2>1, AddKeeps
  <2>3. PICK r : r = past.ran \ {<<e, t, b>>}
    OBVIOUS
  <2>4. past' \in PastRecords
    <3>1. past' = [past EXCEPT !.ran = r] /\ r \in SUBSET Places
      BY <1>1, <2>1, <2>3 DEF PastRecords
    <3>2. QED
      BY <1>1, <3>1 DEF PastRecords
  <2>5. QED
    BY <1>3, <2>1, <2>2, <2>4
<1>7. ASSUME NEW e \in Node, NEW t \in Types, NEW fn, NEW ns, NEW sel, Off(e, t, fn, ns, sel)
      PROVE  BaseInv'
  <2>1. RemoveFrom(e, t, fn, ns, sel) /\ UNCHANGED <<triggered, frames, past>>
    BY <1>7, Zenon DEF Off
  <2>2. ListensInv'
    BY <1>1, <2>1, RemoveKeeps
  <2>3. QED
    BY <1>1, <1>3, <2>1, <2>2
<1>8. ASSUME NEW e \in Node, CleanData(e)
      PROVE  BaseInv'
  <2>1. ListensInv' /\ UNCHANGED <<triggered, frames, past>>
    BY <1>1, <1>8, CleanKeeps DEF CleanData
  <2>2. QED
    BY <1>1, <1>3, <2>1
<1>9. ASSUME NEW e \in Node, NEW t \in Types, NEW ns \in SUBSET Namespaces, Trigger(e, t, ns)
      PROVE  BaseInv'
  <2>1. PICK new : new = UNION {Pending(frames[i]) : i \in DOMAIN frames}
    OBVIOUS
  <2>2. PICK nested : nested = past.nested \cup new
    OBVIOUS
  <2>3. PICK g : g = EventAt(e, t, TRUE, ns)
    OBVIOUS
  <2>4. /\ frames' = Append(frames, g) /\ past' = [past EXCEPT !.nested = nested]
        /\ UNCHANGED <<events, native, attaches, capturing, triggered>>
    BY <1>9, <2>1, <2>2, <2>3, Zenon DEF Trigger
  <2>5. FrameInv(g)
    <3>1. PICK trigger \in BOOLEAN : trigger = TRUE
      OBVIOUS
    <3>2. g = EventAt(e, t, trigger, ns)
      BY <2>3, <3>1, Zenon
    <3>3. Begun(g, t, trigger)
      BY <3>2, EventBegins
    <3>4. QED
      BY <3>3, Zenon DEF Begun
  <2>6. FramesOK(frames')
    BY <1>1, <2>4, <2>5, FramesAppend
  <2>7. new \in SUBSET Places
    <3>1. DOMAIN frames = 1..Len(frames) /\ \A i \in 1..Len(frames) : FrameInv(frames[i])
      BY <1>1, LenProperties DEF FramesOK
    <3>2. \A i \in 1..Len(frames) : Pending(frames[i]) \in SUBSET Places
      BY <3>1, PendingPlaces
    <3>3. QED
      BY <2>1, <3>1, <3>2, Zenon
  <2>8. past' \in PastRecords
    BY <1>1, <2>2, <2>4, <2>7 DEF PastRecords
  <2>9. QED
    BY <1>1, <1>2, <2>4, <2>6, <2>8, Zenon DEF BaseInv
<1>10. ASSUME NEW e \in Node, Clicked(e) \/ Focused(e)
       PROVE  BaseInv'
  <2>1. PICK t \in Types, trigger \in BOOLEAN :
          /\ frames = <<>> /\ frames' = <<EventAt(e, t, trigger, {})>>
          /\ UNCHANGED <<events, native, attaches, capturing, triggered, past>>
    <3>1. "click" \in Types /\ "focusin" \in Types /\ TRUE \in BOOLEAN /\ FALSE \in BOOLEAN
      BY DEF Types
    <3>2. QED
      BY <1>10, <3>1, Zenon DEF Clicked, Focused, Idle
  <2>2. PICK ns \in SUBSET Namespaces : ns = {}
    OBVIOUS
  <2>3. PICK g : g = EventAt(e, t, trigger, ns)
    OBVIOUS
  <2>4. Begun(g, t, trigger)
    BY <2>3, EventBegins
  <2>5. frames' = Append(frames, g)
    <3>1. frames' = <<g>> /\ frames = <<>>
      BY <2>1, <2>2, <2>3, Zenon
    <3>2. QED
      BY <3>1
  <2>6. FramesOK(frames')
    BY <1>1, <2>4, <2>5, FramesAppend DEF Begun
  <2>7. QED
    BY <1>1, <1>2, <2>1, <2>6, Zenon DEF BaseInv
<1>11. ASSUME ~Idle, NEW e, e = Head(f.left), ~Runs(f), f.left # <<>>,
              UNCHANGED <<events, native, attaches, capturing, triggered, past>>,
              \/ Become(Dispatch(f, e))
              \/ Become([f EXCEPT !.left = Tail(f.left)]) /\ f.step = "walk"
              \/ Become([f EXCEPT !.left = Tail(f.left), !.step = "walk"])
       PROVE  BaseInv'
  <2>1. ASSUME NEW g, g = Dispatch(f, e) PROVE FrameInv(g)
    BY <1>1, <1>5, <1>11, <2>1, DispatchKeeps
  <2>2. ASSUME NEW g, g = [f EXCEPT !.left = Tail(f.left)], f.step = "walk" PROVE FrameInv(g)
    BY <1>5, <1>11, <2>2, PassKeeps
  <2>3. ASSUME NEW g, g = [f EXCEPT !.left = Tail(f.left), !.step = "walk"] PROVE FrameInv(g)
    BY <1>5, <1>11, <2>3, PassKeeps
  <2>4. PICK g : FrameInv(g) /\ Become(g)
    BY <1>11, <2>1, <2>2, <2>3, Zenon
  <2>5. ListensInv' /\ past' \in PastRecords
    BY <1>1, <1>2, <1>11
  <2>6. QED
    BY <1>11, <2>4, <2>5, BaseGoesOn
<1>12. CASE Visit
  <2>1. PICK e : e = Head(f.left)
    OBVIOUS
  <2>2. /\ ~Idle /\ f.step = "walk" /\ f.left # <<>>
        /\ UNCHANGED <<events, native, attaches, capturing, triggered, past>>
        /\ Become(Dispatch(f, e)) \/ Become([f EXCEPT !.left = Tail(f.left)])
    BY <1>4, <1>12, <2>1, Zenon DEF Visit
  <2>3. ~Runs(f)
    BY <2>2 DEF Runs
  <2>4. QED
    BY <1>11, <2>1, <2>2, <2>3, Zenon
<1>13. CASE ForeignReturns
  <2>1. PICK e : e = Head(f.left)
    OBVIOUS
  <2>2. /\ ~Idle /\ f.step = "foreign"
        /\ UNCHANGED <<events, native, attaches, capturing, triggered, past>>
        /\ Become(Dispatch(f, e)) \/ Become([f EXCEPT !.left = Tail(f.left), !.step = "walk"])
    BY <1>4, <1>13, <2>1, Zenon DEF ForeignReturns
  <2>3. ~Runs(f) /\ f.left # <<>>
    BY <1>5, <2>2 DEF Runs, FrameInv, PathInv
  <2>4. QED
    BY <1>11, <2>1, <2>2, <2>3, Zenon
<1>14. CASE VisitForeign
  <2>1. PICK g : g = [f EXCEPT !.step = "foreign"]
    OBVIOUS
  <2>2. /\ ~Idle /\ f.step = "walk" /\ f.left # <<>> /\ Become(g)
        /\ UNCHANGED <<events, native, attaches, capturing, triggered, past>>
    BY <1>4, <1>14, <2>1, Zenon DEF VisitForeign
  <2>3. FrameInv(g)
    BY <1>5, <2>1, <2>2, StepKeeps
  <2>4. QED
    BY <1>1, <1>2, <2>2, <2>3, BaseGoesOn
<1>15. CASE LeaveElement
  <2>1. PICK g : g = [f EXCEPT !.step = "walk", !.queue = <<>>, !.due = {}, !.called = {}]
    OBVIOUS
  <2>2. /\ ~Idle /\ Become(g)
        /\ UNCHANGED <<events, native, attaches, capturing, triggered, past>>
    BY <1>4, <1>15, <2>1, Zenon DEF LeaveElement
  <2>3. FrameInv(g)
    BY <1>5, <2>1, <2>2, LeaveKeeps
  <2>4. QED
    BY <1>1, <1>2, <2>2, <2>3, BaseGoesOn
<1>16. CASE HandlerReturns
  <2>1. /\ ~Idle /\ f.step = "handler"
        /\ UNCHANGED <<events, native, attaches, capturing, triggered, past>>
    BY <1>4, <1>16, Zenon DEF HandlerReturns
  <2>2. PICK stops \in BOOLEAN, now \in BOOLEAN, prevents \in BOOLEAN :
          (now => stops) /\ Become(Returned(f, stops, now, prevents))
    BY <1>4, <1>16, Zenon DEF HandlerReturns, Returned
  <2>3. PICK g : g = Returned(f, stops, now, prevents)
    OBVIOUS
  <2>4. FrameInv(g)
    BY <1>5, <2>1, <2>2, <2>3, ReturnKeeps, Zenon
  <2>5. Become(g)
    BY <2>2, <2>3, Zenon
  <2>6. QED
    BY <1>1, <1>2, <2>1, <2>4, <2>5, BaseGoesOn
<1>17. CASE HandlerThrows
  <2>1. /\ frames' = LeftOf(frames)
        /\ UNCHANGED <<events, native, attaches, capturing, triggered, past>>
    BY <1>17, Zenon DEF HandlerThrows, LeftOf
  <2>2. FramesOK(frames')
    BY <1>1, <2>1, FramesLeft
  <2>3. QED
    BY <1>1, <1>2, <2>1, <2>2, Zenon DEF BaseInv
<1>18. CASE Default
  <2>1. PICK g : g = [f EXCEPT !.step = "native"]
    OBVIOUS
  <2>2. PICK h : h = EventAt(f.target, f.type, FALSE, {})
    OBVIOUS
  <2>3. /\ ~Idle /\ f.step = "walk"
        /\ frames' = Append(Append(Front(frames), g), h) /\ triggered' = f.type
        /\ UNCHANGED <<events, native, attaches, capturing, past>>
    BY <1>4, <1>18, <2>1, <2>2, Zenon DEF Default, WalkOver
  <2>4. FrameInv(g)
    <3>1. PICK x \in {"foreign", "native"} : x = "native"
      OBVIOUS
    <3>2. g = [f EXCEPT !.step = x] /\ (x = "foreign" => f.left # <<>>)
      BY <2>1, <3>1
    <3>3. QED
      BY <1>5, <2>3, <3>2, StepKeeps
  <2>5. FrameInv(h) /\ f.type \in Types
    <3>1. PICK e \in Node, t \in Types : e = f.target /\ t = f.type
      BY <1>5, <2>3, FrameFields
    <3>2. PICK trigger \in BOOLEAN : trigger = FALSE
      OBVIOUS
    <3>3. PICK ns \in SUBSET Namespaces : ns = {}
      OBVIOUS
    <3>4. h = EventAt(e, t, trigger, ns)
      BY <2>2, <3>1, <3>2, <3>3, Zenon
    <3>5. Begun(h, t, trigger)
      BY <3>4, EventBegins
    <3>6. QED
      BY <3>1, <3>5, Zenon DEF Begun
  <2>6. FramesOK(Append(Front(frames), g))
    <3>1. FramesOK(Front(frames))
      BY <1>1, <2>3, FramesFront DEF Idle
    <3>2. QED
      BY <2>4, <3>1, FramesAppend
  <2>7. FramesOK(frames')
    BY <2>3, <2>5, <2>6, FramesAppend
  <2>8. triggered' \in Types \cup {None}
    BY <2>3, <2>5
  <2>9. QED
    BY <1>1, <1>2, <2>3, <2>7, <2>8, Zenon DEF BaseInv
<1>19. CASE EndEvent
  <2>1. /\ frames # <<>> /\ frames' = Front(frames)
        /\ triggered' = IF f.step = "native" THEN None ELSE triggered
        /\ UNCHANGED <<events, native, attaches, capturing, past>>
    BY <1>4, <1>19, Zenon DEF EndEvent, Idle
  <2>2. FramesOK(frames')
    BY <1>1, <2>1, FramesFront
  <2>3. triggered' \in Types \cup {None}
    BY <1>1, <2>1
  <2>4. QED
    BY <1>1, <1>2, <2>1, <2>2, <2>3, Zenon DEF BaseInv
<1>20. CASE CallHandler
  <2>1. PICK e, b : e = Head(f.queue)[1] /\ b = Head(Head(f.queue)[2])
    OBVIOUS
  <2>2. PICK r : r = RestOf(f.queue)
    OBVIOUS
  <2>3. PICK k : k = <<f.at, f.type, b>>
    OBVIOUS
  <2>4. PICK st, sn : /\ st = IF Allowed(b) THEN "handler" ELSE "run"
                      /\ sn = IF Allowed(b) THEN f.seen \cup {k} ELSE f.seen
    OBVIOUS
  <2>5. PICK g : g = [f EXCEPT !.queue = r, !.called = @ \cup {<<e, b>>}, !.step = st, !.seen = sn]
    OBVIOUS
  <2>6. /\ ~Idle /\ f.step = "run" /\ f.queue # <<>>
        /\ NextCall(e, b)
        /\ \/ RemoveFrom(f.at, f.type, b.fn, b.namespace, b.selector)
           \/ UNCHANGED <<events, native, attaches, capturing>>
        /\ triggered' = triggered
    BY <1>4, <1>20, <2>1, Zenon DEF CallHandler, DispatchOver
  <2>7. /\ Become(g)
        /\ past' = IF ~Allowed(b) THEN past
                   ELSE [past EXCEPT !.again = @ \/ k \in SeenBefore,
                                     !.twice = @ \cup ({k} \cap past.ran),
                                     !.ran = IF b.one THEN @ \cup {k} ELSE @]
    BY <1>4, <2>1, <2>2, <2>3, <2>4, <2>5, <2>6, Zenon DEF NextCall, RestOf
  <2>8. TakenFrom(g, f, k, b)
    <3>1. SeenWith(f, k, st, sn)
      BY <2>4, Zenon DEF SeenWith
    <3>2. e = Head(f.queue)[1] /\ b = Head(Head(f.queue)[2])
      BY <2>1, Zenon
    <3>3. QED
      BY <1>5, <2>2, <2>3, <2>5, <2>6, <3>1, <3>2, CallKeeps, Zenon
  <2>9. FrameInv(g) /\ f.at \in Node /\ k \in Places /\ f.type \in Types
    BY <1>5, <2>6, <2>8, FrameFields DEF TakenFrom
  <2>10. ListensInv'
    <3>1. CASE RemoveFrom(f.at, f.type, b.fn, b.namespace, b.selector)
      BY <1>1, <2>9, <3>1, RemoveKeeps
    <3>2. QED
      BY <1>2, <2>6, <3>1, Zenon
  <2>11. past' \in PastRecords
    <3>1. PICK again \in BOOLEAN : again <=> past.again \/ k \in SeenBefore
      BY Zenon
    <3>2. PICK tw : tw = past.twice \cup ({k} \cap past.ran)
      OBVIOUS
    <3>3. PICK rn : rn = IF b.one THEN past.ran \cup {k} ELSE past.ran
      OBVIOUS
    <3>4. rn \in SUBSET Places /\ tw \in SUBSET Places
      BY <1>1, <2>9, <3>2, <3>3 DEF PastRecords
    <3>5. CASE Allowed(b)
      <4>1. again = (past.again \/ k \in SeenBefore)
        BY <3>1, Zenon
      <4>2. past' = [past EXCEPT !.again = again, !.twice = tw, !.ran = rn]
        BY <2>7, <3>2, <3>3, <3>5, <4>1, Zenon
      <4>3. QED
        BY <1>1, <3>1, <3>4, <4>2 DEF PastRecords
    <3>6. QED
      BY <1>1, <2>7, <3>5, Zenon
  <2>12. QED
    BY <2>6, <2>7, <2>9, <2>10, <2>11, BaseGoesOn
<1>21. CASE UNCHANGED vars
  <2>1. UNCHANGED <<events, native, attaches, capturing, triggered, frames, past>>
    BY <1>21, Zenon DEF vars
  <2>2. QED
    BY <1>1, <1>2, <1>3, <2>1
<1>22. CASE PageActs
  <2>1. PICK e \in Node :
          \/ \E t \in Types :
              \/ \E b \in Bindings : On(e, t, b)
              \/ \E b \in Bindings : Off(e, t, b.fn, b.namespace, b.selector)
              \/ Off(e, t, None, {}, None)
              \/ \E ns \in SUBSET Namespaces : Trigger(e, t, ns)
          \/ CleanData(e)
    BY <1>22, Zenon DEF PageActs
  <2>2. QED
    BY <1>6, <1>7, <1>8, <1>9, <2>1, Zenon
<1>23. QED
  BY <1>10, <1>12, <1>13, <1>14, <1>15, <1>16, <1>17, <1>18, <1>19, <1>20, <1>21, <1>22, Zenon
     DEF Next, Continue


\* What listeners and handlers are, whoever triggers.
LEMMA BaseHolds ==
    ASSUME BaseInv
    PROVE  TypeOK /\ ListensWhileBound /\ DelegatesInFront /\ NoHandlerMissed
<1>1. ListensInv /\ FramesOK(frames) /\ triggered \in Types \cup {None} /\ past \in PastRecords
  BY DEF BaseInv
<1>2. /\ events \in [Node -> [Types -> HandlerLists]]
      /\ \A e \in Node, t \in Types : ProperList(events[e][t])
      /\ native \in [Node -> SUBSET Types]
      /\ \A e \in Node : "click" \in native[e] <=> Bound(e, "click")
      /\ attaches = Cardinality(FocusBound)
      /\ capturing <=> attaches # 0
  BY <1>1, Zenon DEF ListensInv
<1>3. IsFiniteSet(FocusBound)
  <2>1. FocusBound \in SUBSET Node
    BY Zenon DEF FocusBound
  <2>2. QED
    BY <2>1, PathFacts, FS_Subset
<1>4. attaches \in Nat /\ (attaches = 0 <=> FocusBound = {})
  BY <1>2, <1>3, FS_CardinalityType, FS_EmptySet
<1>5. TypeOK
  <2>1. ASSUME NEW e \in Node, NEW t \in Types
        PROVE  events[e][t].list \in Seq(Bindings) /\ events[e][t].delegateCount \in Nat
    <3>1. PICK h \in HandlerLists : h = events[e][t]
      BY <1>2
    <3>2. QED
      BY <3>1, ListFields
  <2>2. QED
    BY <1>1, <1>2, <1>4, <2>1, Zenon DEF TypeOK
<1>6. ListensWhileBound
  <2>1. capturing <=> \E e \in Node : Bound(e, "focusin")
    <3>1. capturing <=> FocusBound # {}
      BY <1>2, <1>4, Zenon
    <3>2. FocusBound # {} <=> \E e \in Node : Bound(e, "focusin")
      BY Zenon DEF FocusBound
    <3>3. QED
      BY <3>1, <3>2, Zenon
  <2>2. QED
    BY <1>2, <2>1, Zenon DEF ListensWhileBound, FocusBound
<1>7. DelegatesInFront
  <2>1. ASSUME NEW e \in Node, NEW t \in Types, NEW i \in DOMAIN events[e][t].list
        PROVE  i <= events[e][t].delegateCount <=> events[e][t].list[i].selector # None
    <3>1. PICK h \in HandlerLists : h = events[e][t]
      BY <1>2
    <3>2. DOMAIN h.list = 1..Len(h.list)
      BY <3>1, ListFields, LenProperties
    <3>3. \A j \in 1..Len(h.list) : j <= h.delegateCount <=> h.list[j].selector # None
      BY <1>2, <3>1, Zenon DEF ProperList
    <3>4. QED
      BY <3>1, <3>2, <3>3, Zenon
  <2>2. QED
    BY <2>1, Zenon DEF DelegatesInFront
<1>8. NoHandlerMissed
  <2>1. PICK f : f = Top
    OBVIOUS
  <2>2. SUFFICES ASSUME ~Idle, f.step = "run", DispatchOver(f), ~f.stopped
                 PROVE  f.called = f.due
    BY <2>1, Zenon DEF NoHandlerMissed
  <2>3. FrameInv(f)
    BY <1>1, <2>1, <2>2, FramesFront DEF Idle, Top
  <2>4. f.due = f.called \cup Calls(f.queue)
    BY <2>2, <2>3 DEF FrameInv, QueueInv, Runs
  <2>5. f.queue = <<>>
    BY <2>2, <2>3, Zenon DEF FrameInv, PathInv, DispatchOver
  <2>6. Calls(f.queue) = {}
    BY <2>5, NoQueue, Zenon
  <2>7. QED
    BY <2>4, <2>6
<1>9. QED
  BY <1>5, <1>6, <1>7, <1>8

\* What the inductive invariant says of events.
LEMMA InvariantHolds ==
    ASSUME IInv
    PROVE  EventsInv
<1>1. ListensInv /\ ProperStack(frames, triggered) /\ HistoryInv
  BY DEF IInv, StackInv
<1>2. BaseInv
  <2>1. FramesOK(frames) /\ triggered \in Types \cup {None}
    BY <1>1, Zenon DEF ProperStack, FramesOK
  <2>2. past \in PastRecords
    BY <1>1, Zenon DEF HistoryInv
  <2>3. QED
    BY <1>1, <2>1, <2>2 DEF BaseInv
<1>3. TypeOK /\ ListensWhileBound /\ DelegatesInFront
  BY <1>2, BaseHolds
<1>4. OneRunsOnce /\ AlreadyBubbled
  BY <1>1, Zenon DEF HistoryInv, OneRunsOnce, AlreadyBubbled
<1>5. NothingSuppressed
  <2>1. SUFFICES ASSUME frames = <<>> PROVE triggered = None
    BY Zenon DEF NothingSuppressed, Idle
  <2>2. Len(frames) = 0
    BY <2>1
  <2>3. \A i : i \notin 1..Len(frames)
    BY <2>2
  <2>4. QED
    BY <1>1, <2>3, Zenon DEF ProperStack
<1>6. QED
  BY <1>3, <1>4, <1>5, Zenon DEF EventsInv

\* In the beginning nothing is bound and no event is under way.
LEMMA BaseInit ==
    ASSUME Init
    PROVE  BaseInv
<1>1. ListensInv /\ ProperStack(frames, triggered) /\ HistoryInv
  BY InitIs DEF IInv, StackInv
<1>2. FramesOK(frames) /\ triggered \in Types \cup {None}
  BY <1>1, Zenon DEF ProperStack, FramesOK
<1>3. past \in PastRecords
  BY <1>1, Zenon DEF HistoryInv
<1>4. QED
  BY <1>1, <1>2, <1>3 DEF BaseInv

-----------------------------------------------------------------------------
(* What follows for jQuery.event.                                          *)

\* jQuery listens where it has handlers, for focusin as long as an element wants
\* it, and delegates are in front of the other handlers: jQuery.event.add,
\* remove and cleanData, whatever handlers and other listeners call.
THEOREM ListenersFollow ==
    Spec => [](TypeOK /\ ListensWhileBound /\ DelegatesInFront)
<1>1. Init => BaseInv
  BY BaseInit
<1>2. BaseInv /\ [Next]_vars => BaseInv'
  BY BaseKeeps
<1>3. BaseInv => TypeOK /\ ListensWhileBound /\ DelegatesInFront
  BY BaseHolds
<1>4. QED
  BY <1>1, <1>2, <1>3, PTL DEF Spec

\* An event that nobody stopped leaves an element only when it has called every
\* handler that was bound for it there when it came, those for elements below it
\* included: jQuery.event.handlers and dispatch, whoever triggers what meanwhile.
THEOREM NoHandlerIsMissed ==
    Spec => []NoHandlerMissed
<1>1. Init => BaseInv
  BY BaseInit
<1>2. BaseInv /\ [Next]_vars => BaseInv'
  BY BaseKeeps
<1>3. BaseInv => NoHandlerMissed
  BY BaseHolds
<1>4. QED
  BY <1>1, <1>2, <1>3, PTL DEF Spec

\* A handler bound by one() runs once, unless an event that had it in its queue
\* was interrupted, no handler runs twice for one trigger, and outside of events
\* no type is suppressed: jQuery.event.dispatch and trigger.  A listener that is
\* not jQuery's may trigger an event inside of the native one that called it,
\* and then a handler does run twice for one trigger: here only handlers trigger.
THEOREM EventsAreKept ==
    ASSUME ~ForeignTriggers
    PROVE  Spec => []EventsInv
<1>1. Init => IInv
  BY InitIs
<1>2. IInv /\ [Next]_vars => IInv'
  BY NextKeeps
<1>3. IInv => EventsInv
  BY InvariantHolds
<1>4. QED
  BY <1>1, <1>2, <1>3, PTL DEF Spec
=============================================================================
