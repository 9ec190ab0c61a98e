---------------------------- MODULE RequestProofs ----------------------------
(***************************************************************************)
(* The safety of requests, of the callbacks of JSONP and of the conversion *)
(* of responses, for any number of requests, data types and converters.    *)
(*                                                                         *)
(* jQuery.active counts the requests that are out, each request completes  *)
(* once and leaves nothing behind, and the first cause decides its result, *)
(* for any number of requests and any nesting of the calls that handlers   *)
(* make, provided that handlers neither abort a request in ajaxStart or in *)
(* ajaxSend nor throw before ajaxStop: there the code does not keep count. *)
(***************************************************************************)
EXTENDS RequestParts, FiniteSetTheorems, SequenceTheorems, TLAPS

\* Handlers that abort and throw only where the counter stands it.
CarefulHandlers ==
    /\ AbortPoints \cap {"ajaxStart", "ajaxSend"} = {}
    /\ ThrowPoints \subseteq {"ajaxStop"}

\* What done may settle a request with.
Causes == Answers \cup {"canceled", "abort", "timeout"}

\* The closure variables of a request.
Closures ==
    [opt : Options \cup {None}, state : 0..2, fireGlobals : BOOLEAN, transport : BOOLEAN,
     strAbort : {"canceled", "abort"}, timer : BOOLEAN, callback : BOOLEAN,
     xhr : {"unsent", "out", "over"}, result : Causes \cup {None}]

\* The values of the variables.
TypeInv ==
    /\ q \in [Requests -> Closures]
    /\ active \in Nat
    /\ stack \in Seq(Requests \X Points)
    /\ shown \in 0..1
    /\ completes \in [Requests -> 0..1]

\* A call for r is under way at one of the points P.
HasFrame(r, P) == \E i \in DOMAIN stack : stack[i][1] = r /\ stack[i][2] \in P

\* What is known of a request by the state it is in.
Unsent(r) ==
    /\ q[r].xhr = "unsent" /\ ~q[r].callback /\ ~q[r].timer /\ q[r].result = None
    /\ q[r].fireGlobals => HasFrame(r, {"ajaxStart", "beforeSend", "ajaxSend"})

\* Sent, or about to be.
Out(r) ==
    /\ q[r].opt # None /\ q[r].transport /\ q[r].result = None
    /\ \/ q[r].xhr = "out" /\ q[r].callback
       \/ q[r].xhr = "unsent" /\ ~q[r].callback /\ HasFrame(r, {"send"})

\* Done.
Over(r) == q[r].opt # None /\ ~q[r].transport /\ ~q[r].timer /\ q[r].xhr # "out"

StatesInv ==
    \A r \in Requests :
        /\ q[r].state = 0 => Unsent(r)
        /\ q[r].state = 1 => Out(r)
        /\ q[r].state = 2 => Over(r)

\* What is known of a request by the point its call of ajax or done is at.
FrameInv(r, p) ==
    /\ q[r].opt # None
    /\ p = "prefilter" => q[r].state # 1 /\ ~q[r].fireGlobals
    /\ p \in {"ajaxStart", "ajaxSend"} => q[r].state = 0
    /\ p = "beforeSend" => q[r].state = 0 \/ (q[r].state = 2 /\ q[r].opt.beforeSend)
    /\ p = "send" => q[r].state = 1 /\ q[r].xhr = "unsent"
    /\ p \in DonePoints => q[r].state = 2

FramesInv == \A i \in DOMAIN stack : FrameInv(stack[i][1], stack[i][2])

\* A request has one call of ajax and one of done at most.
FramesOnce ==
    \A i, j \in DOMAIN stack :
        stack[i][1] = stack[j][1] /\ (stack[i][2] \in CallPoints <=> stack[j][2] \in CallPoints)
            => i = j

\* Calls are made by handlers.
CalledByHandlers ==
    \A i \in DOMAIN stack : i < Len(stack) => HandlersAt(stack[i][1], stack[i][2])

\* The points of done before the request is no longer counted.
Uncounted == {"settle", "ajaxResult", "complete", "ajaxComplete"}

\* The requests that jQuery.active counts.
Counted ==
    {r \in Requests : q[r].fireGlobals /\ (q[r].state # 2 \/ HasFrame(r, Uncounted))}

\* jQuery.active counts them, and an ajaxStart is open when there are any.
CounterInv ==
    /\ active = Cardinality(Counted)
    /\ shown = (IF active > 0 THEN 1 ELSE 0)

\* When ajaxStop is fired no request is counted, nor will one be that is below.
StopsLast ==
    \A i, j \in DOMAIN stack :
        i < j /\ stack[j][2] = "ajaxStop" => stack[i][1] \notin Counted

\* ajaxComplete has been fired when done is past it.
CompletesInv ==
    \A r \in Requests :
        completes[r] = 1 => q[r].state = 2 /\ ~HasFrame(r, {"settle", "ajaxResult", "complete"})

\* The inductive invariant.
AjaxInv ==
    /\ TypeInv /\ StatesInv /\ FramesInv /\ FramesOnce /\ CalledByHandlers
    /\ CounterInv /\ StopsLast /\ CompletesInv

-----------------------------------------------------------------------------
(* The stack.                                                              *)

\* What is left when the innermost call returns.
LEMMA FrontLast ==
    ASSUME NEW S, NEW s \in Seq(S), s # <<>>
    PROVE  /\ Front(s) \in Seq(S) /\ Len(Front(s)) = Len(s) - 1 /\ Len(s) \in Nat \ {0}
           /\ \A i \in 1..(Len(s) - 1) : Front(s)[i] = s[i]
           /\ Last(s) = s[Len(s)] /\ Last(s) \in S
<1>1. Len(s) \in Nat \ {0}
  BY EmptySeq
<1>2. s[Len(s)] \in S
  BY <1>1, ElementOfSeq
<1>3. QED
  BY <1>1, <1>2, SubSeqProperties DEF Front, Last

\* A step of request r that leaves the first k frames, above which there are and
\* were only its own, one at most now.
Changes(r, k) ==
    /\ q' \in [Requests -> Closures]
    /\ \A u \in Requests : u # r => q'[u] = q[u]
    /\ k \in Nat /\ k <= Len(stack) /\ k <= Len(stack') /\ Len(stack') <= k + 1
    /\ stack' \in Seq(Requests \X Points)
    /\ \A i \in 1..k : stack'[i] = stack[i]
    /\ \A i \in (k + 1)..Len(stack) : stack[i][1] = r
    /\ \A i \in (k + 1)..Len(stack') : stack'[i][1] = r

\* The innermost call goes on to its next point.
LEMMA GotoChanges ==
    ASSUME TypeInv, NEW r \in Requests, NEW p, NEW p1 \in Points, At(r, p), Goto(r, p1),
           NEW y \in Closures, q' = [q EXCEPT ![r] = y]
    PROVE  /\ Changes(r, Len(stack) - 1) /\ Len(stack') = Len(stack) /\ stack # <<>>
           /\ stack[Len(stack)] = <<r, p>> /\ stack'[Len(stack)] = <<r, p1>>
<1>1. /\ stack \in Seq(Requests \X Points) /\ stack # <<>>
      /\ Last(stack) = <<r, p>> /\ stack' = Append(Front(stack), <<r, p1>>)
  BY DEF TypeInv, At, Goto, Idle, Top
<1>2. /\ Front(stack) \in Seq(Requests \X Points) /\ Len(Front(stack)) = Len(stack) - 1
      /\ Len(stack) \in Nat \ {0} /\ Last(stack) = stack[Len(stack)]
      /\ \A i \in 1..(Len(stack) - 1) : Front(stack)[i] = stack[i]
  BY <1>1, FrontLast
<1>3. /\ stack' \in Seq(Requests \X Points) /\ Len(stack') = Len(stack)
      /\ stack'[Len(stack)] = <<r, p1>>
      /\ \A i \in 1..(Len(stack) - 1) : stack'[i] = stack[i]
  BY <1>1, <1>2
<1>4. q' \in [Requests -> Closures] /\ \A u \in Requests : u # r => q'[u] = q[u]
  BY DEF TypeInv
<1>5. stack[Len(stack)][1] = r /\ stack'[Len(stack')][1] = r
  BY <1>1, <1>2, <1>3
<1>6. Changes(r, Len(stack) - 1)
  BY <1>2, <1>3, <1>4, <1>5 DEF Changes
<1>7. QED
  BY <1>1, <1>2, <1>3, <1>6

\* The innermost call returns.
LEMMA ReturnChanges ==
    ASSUME TypeInv, NEW r \in Requests, NEW p, At(r, p), Return,
           NEW y \in Closures, q' = [q EXCEPT ![r] = y]
    PROVE  /\ Changes(r, Len(stack) - 1) /\ Len(stack') = Len(stack) - 1 /\ stack # <<>>
           /\ stack[Len(stack)] = <<r, p>>
<1>1. /\ stack \in Seq(Requests \X Points) /\ stack # <<>>
      /\ Last(stack) = <<r, p>> /\ stack' = Front(stack)
  BY DEF TypeInv, At, Return, Idle, Top
<1>2. /\ stack' \in Seq(Requests \X Points) /\ Len(stack') = Len(stack) - 1
      /\ Len(stack) \in Nat \ {0} /\ Last(stack) = stack[Len(stack)]
      /\ \A i \in 1..(Len(stack) - 1) : stack'[i] = stack[i]
  BY <1>1, FrontLast
<1>3. q' \in [Requests -> Closures] /\ \A u \in Requests : u # r => q'[u] = q[u]
  BY DEF TypeInv
<1>4. stack[Len(stack)][1] = r
  BY <1>1, <1>2
<1>5. Changes(r, Len(stack) - 1)
  BY <1>2, <1>3, <1>4 DEF Changes
<1>6. QED
  BY <1>1, <1>2, <1>5

\* A call is made by the code that runs.
LEMMA PushChanges ==
    ASSUME TypeInv, NEW r \in Requests, NEW p1 \in Points, stack' = Append(stack, <<r, p1>>),
           NEW y \in Closures, q' = [q EXCEPT ![r] = y]
    PROVE  /\ Changes(r, Len(stack)) /\ Len(stack') = Len(stack) + 1
           /\ stack'[Len(stack) + 1] = <<r, p1>>
<1>1. stack \in Seq(Requests \X Points) /\ Len(stack) \in Nat
  BY DEF TypeInv
<1>2. /\ stack' \in Seq(Requests \X Points) /\ Len(stack') = Len(stack) + 1
      /\ stack'[Len(stack) + 1] = <<r, p1>>
      /\ \A i \in 1..Len(stack) : stack'[i] = stack[i]
  BY <1>1
<1>3. q' \in [Requests -> Closures] /\ \A u \in Requests : u # r => q'[u] = q[u]
  BY DEF TypeInv
<1>4. stack'[Len(stack) + 1][1] = r
  BY <1>2
<1>5. QED
  BY <1>1, <1>2, <1>3, <1>4 DEF Changes

-----------------------------------------------------------------------------
(* A step of one request leaves what is known of the others.               *)

\* The calls of other requests are where they were.
LEMMA OthersFrames ==
    ASSUME TypeInv, NEW r \in Requests, NEW k, Changes(r, k),
           NEW u \in Requests, u # r, NEW P
    PROVE  HasFrame(u, P)' <=> HasFrame(u, P)
<1>1. DOMAIN stack = 1..Len(stack) /\ DOMAIN stack' = 1..Len(stack')
      /\ Len(stack) \in Nat /\ Len(stack') \in Nat
  BY DEF TypeInv, Changes
<1>2. QED
  BY <1>1 DEF HasFrame, Changes

\* The other requests are counted as before.
LEMMA OthersCounted ==
    ASSUME TypeInv, NEW r \in Requests, NEW k, Changes(r, k), NEW u \in Requests, u # r
    PROVE  (u \in Counted)' <=> u \in Counted
BY OthersFrames DEF Counted, Changes, TypeInv

\* What a step of r has to establish: everything about its own frames and state.
LEMMA RequestStep ==
    ASSUME AjaxInv, NEW r \in Requests, NEW k, Changes(r, k),
           completes' \in [Requests -> 0..1],
           \A u \in Requests : u # r => completes'[u] = completes[u],
           q'[r].state = 0 => Unsent(r)',
           q'[r].state = 1 => Out(r)',
           q'[r].state = 2 => Over(r)',
           \A i \in 1..Len(stack') : \A p : stack'[i] = <<r, p>> => FrameInv(r, p)',
           \A i \in 1..k : \A j \in (k + 1)..Len(stack') :
               stack[i][1] = r => ~(stack[i][2] \in CallPoints <=> stack'[j][2] \in CallPoints),
           \/ q'[r].opt = q[r].opt /\ q'[r].fireGlobals = q[r].fireGlobals
           \/ \A i \in 1..k : stack[i][1] # r,
           Len(stack') > Len(stack) => PageRuns,
           active' \in Nat, CounterInv',
           (r \in Counted)' => r \in Counted \/ \A i \in 1..k : stack[i][1] # r,
           \A j \in (k + 1)..Len(stack') : stack'[j][2] = "ajaxStop" => Counted' = {},
           completes'[r] = 1 =>
               q'[r].state = 2 /\ ~HasFrame(r, {"settle", "ajaxResult", "complete"})'
    PROVE  AjaxInv'
<1> USE DEF AjaxInv
<1>1. /\ DOMAIN stack = 1..Len(stack) /\ DOMAIN stack' = 1..Len(stack')
      /\ Len(stack) \in Nat /\ Len(stack') \in Nat /\ k \in Nat
  BY DEF TypeInv, Changes
<1>2. \A i \in 1..Len(stack) : stack[i] \in Requests \X Points
  BY <1>1, ElementOfSeq DEF TypeInv
<1>3. \A i \in 1..Len(stack') : stack'[i] \in Requests \X Points
  BY <1>1, ElementOfSeq DEF Changes
<1>4. \A i \in 1..Len(stack') : stack'[i][1] # r => i <= k /\ stack'[i] = stack[i] /\ i <= Len(stack)
  BY <1>1 DEF Changes
<1>5. TypeInv'
  BY DEF TypeInv, CounterInv, Changes
<1>6. StatesInv'
  <2>1. ASSUME NEW u \in Requests, u # r
        PROVE  /\ q'[u].state = 0 => Unsent(u)'
               /\ q'[u].state = 1 => Out(u)'
               /\ q'[u].state = 2 => Over(u)'
    <3>1. q'[u] = q[u]
      BY <2>1 DEF Changes
    <3>2. q[u].state = 0 => Unsent(u)'
      <4>1. \A P : HasFrame(u, P)' <=> HasFrame(u, P)
        BY <2>1, OthersFrames
      <4>2. Unsent(u) => Unsent(u)'
        BY <3>1, <4>1 DEF Unsent
      <4>3. QED
        BY <4>2 DEF StatesInv
    <3>3. q[u].state = 1 => Out(u)'
      <4>1. \A P : HasFrame(u, P)' <=> HasFrame(u, P)
        BY <2>1, OthersFrames
      <4>2. Out(u) => Out(u)'
        BY <3>1, <4>1 DEF Out
      <4>3. QED
        BY <4>2 DEF StatesInv
    <3>4. q[u].state = 2 => Over(u)'
      BY <3>1 DEF StatesInv, Over
    <3>5. QED
      BY <3>1, <3>2, <3>3, <3>4
  <2>2. QED
    BY <2>1 DEF StatesInv
<1>7. FramesInv'
  <2>1. ASSUME NEW i \in 1..Len(stack'), NEW u \in Requests, NEW p \in Points, stack'[i] = <<u, p>>
        PROVE  FrameInv(u, p)'
    <3>1. CASE u = r
      BY <2>1, <3>1
    <3>2. CASE u # r
      <4>1. i \in DOMAIN stack /\ stack[i] = <<u, p>>
        BY <1>1, <1>4, <2>1, <3>2
      <4>2. FrameInv(u, p) /\ q'[u] = q[u]
        BY <3>2, <4>1 DEF FramesInv, Changes
      <4>3. QED
        BY <4>2 DEF FrameInv
    <3>3. QED
      BY <3>1, <3>2
  <2>2. ASSUME NEW i \in 1..Len(stack') PROVE FrameInv(stack[i][1], stack[i][2])'
    <3>1. PICK u \in Requests, p \in Points : stack'[i] = <<u, p>>
      BY <1>3
    <3>2. FrameInv(u, p)'
      BY <2>1, <3>1
    <3>3. stack'[i][1] = u /\ stack'[i][2] = p
      BY <3>1
    <3>4. QED
      BY <3>2, <3>3 DEF FrameInv
  <2>3. QED
    BY <1>1, <2>2 DEF FramesInv
<1>8. FramesOnce'
  <2>1. ASSUME NEW i \in 1..Len(stack'), NEW j \in 1..Len(stack'), i < j,
               stack'[i][1] = stack'[j][1],
               stack'[i][2] \in CallPoints <=> stack'[j][2] \in CallPoints
        PROVE  FALSE
    <3>1. i \in 1..k /\ stack'[i] = stack[i] /\ i \in DOMAIN stack
      BY <1>1, <2>1 DEF Changes
    <3>2. CASE j <= k
      <4>1. j \in DOMAIN stack /\ stack'[j] = stack[j]
        BY <1>1, <3>2 DEF Changes
      <4>2. QED
        BY <2>1, <3>1, <4>1 DEF FramesOnce
    <3>3. CASE j > k
      <4>1. j \in (k + 1)..Len(stack') /\ stack'[j][1] = r
        BY <1>1, <3>3 DEF Changes
      <4>2. QED
        BY <2>1, <3>1, <4>1
    <3>4. QED
      BY <1>1, <3>2, <3>3
  <2>2. ASSUME NEW i \in 1..Len(stack'), NEW j \in 1..Len(stack'),
               stack'[i][1] = stack'[j][1],
               stack'[i][2] \in CallPoints <=> stack'[j][2] \in CallPoints
        PROVE  i = j
    BY <1>1, <2>1, <2>2
  <2>3. QED
    BY <1>1, <2>2 DEF FramesOnce
<1>9. CalledByHandlers'
  <2>1. ASSUME NEW i \in 1..Len(stack'), i < Len(stack'), NEW u \in Requests, NEW p \in Points,
               stack'[i] = <<u, p>>
        PROVE  HandlersAt(u, p)'
    <3>1. i \in 1..k /\ i \in DOMAIN stack /\ stack[i] = <<u, p>> /\ stack[i][1] = u /\ stack[i][2] = p
      BY <1>1, <2>1 DEF Changes
    <3>2. HandlersAt(u, p)
      <4>1. CASE i < Len(stack)
        BY <3>1, <4>1 DEF CalledByHandlers
      <4>2. CASE i = Len(stack)
        <5>1. PageRuns /\ stack # <<>> /\ Top = <<u, p>>
          BY <1>1, <2>1, <3>1, <4>2 DEF Top, Last
        <5>2. QED
          BY <5>1 DEF PageRuns, Idle
      <4>3. i \in 1..Len(stack) /\ Len(stack) \in Nat
        BY <1>1, <3>1
      <4>4. i < Len(stack) \/ i = Len(stack)
        BY <4>3
      <4>5. QED
        BY <4>1, <4>2, <4>4
    <3>3. q'[u].opt = q[u].opt /\ q'[u].fireGlobals = q[u].fireGlobals
      BY <3>1 DEF Changes
    <3>4. QED
      BY <3>2, <3>3 DEF HandlersAt
  <2>2. ASSUME NEW i \in 1..Len(stack'), i < Len(stack') PROVE HandlersAt(stack[i][1], stack[i][2])'
    <3>1. PICK u \in Requests, p \in Points : stack'[i] = <<u, p>>
      BY <1>3
    <3>2. HandlersAt(u, p)'
      BY <2>1, <2>2, <3>1
    <3>3. stack'[i][1] = u /\ stack'[i][2] = p
      BY <3>1
    <3>4. QED
      BY <3>2, <3>3 DEF HandlersAt
  <2>3. QED
    BY <1>1, <2>2 DEF CalledByHandlers
<1>10. StopsLast'
  <2>1. ASSUME NEW i \in 1..Len(stack'), NEW j \in 1..Len(stack'), i < j,
               stack'[j][2] = "ajaxStop", stack'[i][1] \in Counted'
        PROVE  FALSE
    <3>1. i \in 1..k /\ stack'[i] = stack[i] /\ i \in DOMAIN stack /\ stack[i][1] \in Requests
      BY <1>1, <1>2, <2>1 DEF Changes
    <3>2. CASE j <= k
      <4>1. j \in DOMAIN stack /\ stack'[j] = stack[j]
        BY <1>1, <3>2 DEF Changes
      <4>2. stack[i][1] \notin Counted
        BY <2>1, <3>1, <4>1 DEF StopsLast
      <4>3. stack[i][1] = r
        <5>1. ASSUME NEW u \in Requests, u # r, u \in Counted' PROVE u \in Counted
          BY <5>1, OthersCounted
        <5>2. QED
          BY <2>1, <3>1, <4>2, <5>1
      <4>4. QED
        BY <2>1, <3>1, <4>2, <4>3
    <3>3. CASE j > k
      BY <1>1, <2>1, <3>3 DEF Changes
    <3>4. QED
      BY <1>1, <3>2, <3>3
  <2>2. QED
    BY <1>1, <2>1 DEF StopsLast
<1>11. CompletesInv'
  <2>1. ASSUME NEW u \in Requests, u # r, completes'[u] = 1
        PROVE  q'[u].state = 2 /\ ~HasFrame(u, {"settle", "ajaxResult", "complete"})'
    <3>1. completes[u] = 1 /\ q'[u] = q[u]
      BY <2>1 DEF Changes
    <3>2. q[u].state = 2 /\ ~HasFrame(u, {"settle", "ajaxResult", "complete"})
      BY <3>1 DEF CompletesInv
    <3>3. \A P : HasFrame(u, P)' <=> HasFrame(u, P)
      BY <2>1, OthersFrames
    <3>4. QED
      BY <3>1, <3>2, <3>3
  <2>2. QED
    BY <2>1 DEF CompletesInv
<1>12. QED
  BY <1>5, <1>6, <1>7, <1>8, <1>9, <1>10, <1>11

-----------------------------------------------------------------------------
(* The frames of the request that goes on.                                 *)

\* Positions below the top, and the top.
LEMMA BelowTop ==
    ASSUME NEW n \in Nat \ {0}
    PROVE  /\ n \in 1..n
           /\ \A i \in 1..n : i \in 1..(n - 1) \/ i = n
           /\ \A i \in 1..(n - 1) : i \in 1..n /\ i # n
OBVIOUS

\* What a step leaves of the frames of its request, and what it adds.
LEMMA OwnFrames ==
    ASSUME TypeInv, NEW r \in Requests, NEW k, Changes(r, k), NEW P
    PROVE  HasFrame(r, P)' <=>
               \/ \E i \in 1..k : stack[i][1] = r /\ stack[i][2] \in P
               \/ \E j \in (k + 1)..Len(stack') : stack'[j][2] \in P
<1>1. DOMAIN stack' = 1..Len(stack') /\ Len(stack') \in Nat /\ k \in Nat /\ k <= Len(stack')
  BY DEF Changes
<1>2. \A i \in 1..k : stack'[i] = stack[i]
  BY DEF Changes
<1>3. \A j \in (k + 1)..Len(stack') : stack'[j][1] = r
  BY DEF Changes
<1>4. ASSUME HasFrame(r, P)'
      PROVE  \/ \E i \in 1..k : stack[i][1] = r /\ stack[i][2] \in P
             \/ \E j \in (k + 1)..Len(stack') : stack'[j][2] \in P
  <2>1. PICK i \in 1..Len(stack') : stack'[i][1] = r /\ stack'[i][2] \in P
    BY <1>1, <1>4 DEF HasFrame
  <2>2. i \in 1..k \/ i \in (k + 1)..Len(stack')
    BY <1>1
  <2>3. QED
    BY <1>2, <2>1, <2>2
<1>5. ASSUME NEW i \in 1..k, stack[i][1] = r, stack[i][2] \in P
      PROVE  HasFrame(r, P)'
  <2>1. i \in DOMAIN stack' /\ stack'[i] = stack[i]
    BY <1>1, <1>2
  <2>2. QED
    BY <1>5, <2>1 DEF HasFrame
<1>6. ASSUME NEW j \in (k + 1)..Len(stack'), stack'[j][2] \in P
      PROVE  HasFrame(r, P)'
  <2>1. j \in DOMAIN stack' /\ stack'[j][1] = r
    BY <1>1, <1>3
  <2>2. QED
    BY <1>6, <2>1 DEF HasFrame
<1>7. QED
  BY <1>4, <1>5, <1>6

\* The same, for the frames there are.
LEMMA TopFrames ==
    ASSUME TypeInv, NEW r \in Requests, NEW p, stack # <<>>, stack[Len(stack)] = <<r, p>>, NEW P
    PROVE  HasFrame(r, P) <=>
               \/ \E i \in 1..(Len(stack) - 1) : stack[i][1] = r /\ stack[i][2] \in P
               \/ p \in P
<1>1. DOMAIN stack = 1..Len(stack) /\ Len(stack) \in Nat \ {0}
  BY EmptySeq DEF TypeInv
<1>2. stack[Len(stack)][1] = r /\ stack[Len(stack)][2] = p
  OBVIOUS
<1>3. /\ Len(stack) \in 1..Len(stack)
      /\ \A i \in 1..Len(stack) : i \in 1..(Len(stack) - 1) \/ i = Len(stack)
      /\ \A i \in 1..(Len(stack) - 1) : i \in 1..Len(stack)
  BY <1>1, BelowTop
<1>4. HasFrame(r, P) <=> \E i \in 1..Len(stack) : stack[i][1] = r /\ stack[i][2] \in P
  BY <1>1 DEF HasFrame
<1>5. QED
  BY <1>2, <1>3, <1>4

\* The frames of r below its frame at p are of the other kind.
LEMMA OtherKind ==
    ASSUME AjaxInv, NEW r \in Requests, NEW p, stack # <<>>, stack[Len(stack)] = <<r, p>>,
           NEW i \in 1..(Len(stack) - 1), stack[i][1] = r
    PROVE  /\ FrameInv(r, stack[i][2])
           /\ ~(stack[i][2] \in CallPoints <=> p \in CallPoints)
           /\ stack[i][2] \in Points
<1>1. DOMAIN stack = 1..Len(stack) /\ Len(stack) \in Nat \ {0}
  BY EmptySeq DEF AjaxInv, TypeInv
<1>2. i \in DOMAIN stack /\ Len(stack) \in DOMAIN stack /\ i # Len(stack)
  BY <1>1, BelowTop
<1>3. stack[Len(stack)][1] = r /\ stack[Len(stack)][2] = p
  OBVIOUS
<1>4. stack[i] \in Requests \X Points
  BY <1>2, ElementOfSeq DEF AjaxInv, TypeInv
<1>5. QED
  BY <1>2, <1>3, <1>4 DEF AjaxInv, FramesInv, FramesOnce

\* The frame the code is at.
LEMMA AtFrame ==
    ASSUME AjaxInv, NEW r \in Requests, NEW p, At(r, p)
    PROVE  /\ stack # <<>> /\ stack[Len(stack)] = <<r, p>> /\ Len(stack) \in Nat \ {0}
           /\ FrameInv(r, p) /\ p \in Points
<1>1. stack # <<>> /\ stack[Len(stack)] = <<r, p>> /\ Len(stack) \in Nat \ {0}
  BY EmptySeq DEF AjaxInv, TypeInv, At, Idle, Top, Last
<1>2. stack[Len(stack)] \in Requests \X Points /\ Len(stack) \in DOMAIN stack
  BY <1>1, ElementOfSeq DEF AjaxInv, TypeInv
<1>3. stack[Len(stack)][1] = r /\ stack[Len(stack)][2] = p
  BY <1>1
<1>4. QED
  BY <1>1, <1>2, <1>3 DEF AjaxInv, FramesInv

\* A request that is not over has no call of done under way.
LEMMA OnlyFrame ==
    ASSUME AjaxInv, NEW r \in Requests, NEW p \in CallPoints, At(r, p), q[r].state # 2
    PROVE  \A i \in 1..(Len(stack) - 1) : stack[i][1] # r
BY AtFrame, OtherKind DEF FrameInv, CallPoints, Points

\* The counter, when r is counted as before, or is the one whose state changes.
LEMMA CountedChanges ==
    ASSUME TypeInv, NEW r \in Requests, NEW k, Changes(r, k)
    PROVE  /\ IsFiniteSet(Counted) /\ Cardinality(Counted) \in Nat
           /\ (r \in Counted)' /\ r \in Counted => Counted' = Counted
           /\ ~(r \in Counted)' /\ r \notin Counted => Counted' = Counted
           /\ (r \in Counted)' /\ r \notin Counted =>
                  Cardinality(Counted') = Cardinality(Counted) + 1
           /\ ~(r \in Counted)' /\ r \in Counted =>
                  Cardinality(Counted') = Cardinality(Counted) - 1
<1>1. IsFiniteSet(Counted)
  BY AjaxAssumption, FS_Subset DEF Counted
<1>2. Counted \subseteq Requests /\ Counted' \subseteq Requests
  BY DEF Counted
<1>3. \A u \in Requests : u # r => (u \in Counted' <=> u \in Counted)
  BY OthersCounted
<1>4. CASE r \in Counted' /\ r \notin Counted
  <2>1. Counted' = Counted \cup {r}
    BY <1>2, <1>3, <1>4
  <2>2. QED
    BY <1>1, <1>4, <2>1, FS_AddElement, FS_CardinalityType
<1>5. CASE r \notin Counted' /\ r \in Counted
  <2>1. Counted' = Counted \ {r}
    BY <1>2, <1>3, <1>5
  <2>2. QED
    BY <1>1, <1>5, <2>1, FS_RemoveElement, FS_CardinalityType
<1>6. CASE r \in Counted' <=> r \in Counted
  <2>1. \A u \in Requests : u \in Counted' <=> u \in Counted
    BY <1>3, <1>6
  <2>2. Counted' = Counted
    BY <1>2, <2>1
  <2>3. QED
    BY <1>1, <1>6, <2>2, FS_CardinalityType
<1>7. QED
  BY <1>4, <1>5, <1>6, <1>1, FS_CardinalityType

\* The counter, when r is counted as before.
LEMMA SameCount ==
    ASSUME TypeInv, CounterInv, NEW r \in Requests, NEW k, Changes(r, k),
           (r \in Counted)' <=> r \in Counted, UNCHANGED <<active, shown>>
    PROVE  CounterInv' /\ active' \in Nat
BY CountedChanges DEF CounterInv, TypeInv

-----------------------------------------------------------------------------
(* The kinds of steps.                                                     *)

\* ajax goes on with a request that is not over.
LEMMA CallMoves ==
    ASSUME AjaxInv, NEW r \in Requests, NEW p \in CallPoints, NEW p1 \in CallPoints,
           At(r, p), Goto(r, p1), q[r].state # 2,
           NEW y \in Closures, q' = [q EXCEPT ![r] = y], y.opt = q[r].opt, y.result = None,
           completes' = completes,
           y.state = 0 =>
               /\ y.xhr = "unsent" /\ ~y.callback /\ ~y.timer
               /\ y.fireGlobals => p1 \in {"ajaxStart", "beforeSend", "ajaxSend"},
           y.state = 1 => y.transport /\ y.xhr = "unsent" /\ ~y.callback /\ p1 = "send",
           y.state # 2,
           FrameInv(r, p1)',
           active' \in Nat, CounterInv'
    PROVE  AjaxInv'
<1>1. TypeInv
  BY DEF AjaxInv
<1>2. /\ Changes(r, Len(stack) - 1) /\ Len(stack') = Len(stack) /\ stack # <<>>
      /\ stack[Len(stack)] = <<r, p>> /\ stack'[Len(stack)] = <<r, p1>>
  BY <1>1, GotoChanges DEF Points
<1>3. \A i \in 1..(Len(stack) - 1) : stack[i][1] # r
  BY OnlyFrame
<1>4. Len(stack) \in Nat \ {0} /\ q[r].opt # None
  BY AtFrame DEF FrameInv
<1>5. q'[r] = y
  BY <1>1 DEF TypeInv
<1>6. /\ \A i \in 1..(Len(stack) - 1) : stack'[i][1] # r
      /\ \A j \in ((Len(stack) - 1) + 1)..Len(stack') : stack'[j] = <<r, p1>> /\ stack'[j][2] = p1
      /\ Len(stack) \in ((Len(stack) - 1) + 1)..Len(stack')
  BY <1>2, <1>3, <1>4 DEF Changes
<1>7. \A P : p1 \in P => HasFrame(r, P)'
  BY <1>1, <1>2, <1>6, OwnFrames
<1>8. /\ q'[r].state = 0 => Unsent(r)'
      /\ q'[r].state = 1 => Out(r)'
  BY <1>4, <1>5, <1>7 DEF Unsent, Out
<1>9. \A i \in 1..Len(stack') : \A p2 : stack'[i] = <<r, p2>> => FrameInv(r, p2)'
  <2>1. ASSUME NEW i \in 1..Len(stack'), NEW p2, stack'[i] = <<r, p2>>
        PROVE  p2 = p1
    <3>1. i = Len(stack)
      BY <1>2, <1>4, <1>6, <2>1, BelowTop
    <3>2. QED
      BY <1>2, <2>1, <3>1
  <2>2. QED
    BY <2>1
<1>10. completes[r] # 1
  BY DEF AjaxInv, CompletesInv
<1>11. p1 # "ajaxStop"
  BY DEF CallPoints
<1>12. completes' \in [Requests -> 0..1] /\ ~(Len(stack') > Len(stack))
  BY <1>1, <1>2, <1>4 DEF TypeInv
<1>13. QED
  BY <1>2, <1>3, <1>5, <1>6, <1>8, <1>9, <1>10, <1>11, <1>12, RequestStep

\* done goes on.
LEMMA DoneMoves ==
    ASSUME AjaxInv, NEW r \in Requests, NEW p \in DonePoints, NEW p1 \in DonePoints,
           At(r, p), Goto(r, p1), UNCHANGED q,
           p1 \in Uncounted => p \in Uncounted,
           p1 = "ajaxStop" => Counted' = {},
           completes' \in [Requests -> 0..1],
           \A u \in Requests : u # r => completes'[u] = completes[u],
           completes'[r] = 1 =>
               /\ p1 \notin {"settle", "ajaxResult", "complete"}
               /\ completes[r] = 1 \/ p = "complete",
           active' \in Nat, CounterInv'
    PROVE  AjaxInv'
<1>1. TypeInv
  BY DEF AjaxInv
<1>2. q[r] \in Closures /\ q' = [q EXCEPT ![r] = q[r]]
  BY <1>1 DEF TypeInv
<1>3. /\ Changes(r, Len(stack) - 1) /\ Len(stack') = Len(stack) /\ stack # <<>>
      /\ stack[Len(stack)] = <<r, p>> /\ stack'[Len(stack)] = <<r, p1>>
  BY <1>1, <1>2, GotoChanges DEF Points
<1>4. Len(stack) \in Nat \ {0} /\ q[r].state = 2 /\ q[r].opt # None
  BY AtFrame DEF FrameInv
<1>5. /\ \A i \in 1..(Len(stack) - 1) : stack'[i] = stack[i]
      /\ \A j \in ((Len(stack) - 1) + 1)..Len(stack') : stack'[j] = <<r, p1>> /\ stack'[j][2] = p1
  BY <1>3, <1>4 DEF Changes
<1>6. ASSUME NEW i \in 1..(Len(stack) - 1), stack[i][1] = r
      PROVE  stack[i][2] \in CallPoints /\ FrameInv(r, stack[i][2])
  BY <1>3, <1>6, OtherKind DEF CallPoints, DonePoints, Points
<1>7. Over(r)'
  BY <1>4 DEF AjaxInv, StatesInv, Over
<1>8. \A i \in 1..Len(stack') : \A p2 : stack'[i] = <<r, p2>> => FrameInv(r, p2)'
  <2>1. ASSUME NEW i \in 1..Len(stack'), NEW p2, stack'[i] = <<r, p2>>
        PROVE  FrameInv(r, p2)'
    <3>1. CASE i \in 1..(Len(stack) - 1)
      <4>1. stack[i][1] = r /\ stack[i][2] = p2
        BY <1>5, <2>1, <3>1
      <4>2. FrameInv(r, p2)
        BY <1>6, <3>1, <4>1
      <4>3. QED
        BY <4>2 DEF FrameInv
    <3>2. CASE i = Len(stack)
      <4>1. p2 = p1
        BY <1>3, <2>1, <3>2
      <4>2. QED
        BY <1>4, <4>1 DEF FrameInv, DonePoints
    <3>3. QED
      BY <1>3, <1>4, <3>1, <3>2, BelowTop
  <2>2. QED
    BY <2>1
<1>9. \A i \in 1..(Len(stack) - 1) : \A j \in ((Len(stack) - 1) + 1)..Len(stack') :
          stack[i][1] = r => ~(stack[i][2] \in CallPoints <=> stack'[j][2] \in CallPoints)
  BY <1>5, <1>6 DEF CallPoints, DonePoints
<1>10. ASSUME NEW P, P \cap CallPoints = {}
       PROVE  (HasFrame(r, P)' <=> p1 \in P) /\ (HasFrame(r, P) <=> p \in P)
  <2>1. HasFrame(r, P)' <=> p1 \in P
    <3>1. Len(stack) \in ((Len(stack) - 1) + 1)..Len(stack')
      BY <1>3, <1>4
    <3>2. QED
      BY <1>1, <1>3, <1>5, <1>6, <1>10, <3>1, OwnFrames
  <2>2. HasFrame(r, P) <=> p \in P
    BY <1>1, <1>3, <1>6, <1>10, TopFrames
  <2>3. QED
    BY <2>1, <2>2
<1>11. (r \in Counted)' => r \in Counted
  <2>1. Uncounted \cap CallPoints = {}
    BY DEF Uncounted, CallPoints
  <2>2. QED
    BY <1>4, <1>10, <2>1 DEF Counted
<1>12. completes'[r] = 1 => ~HasFrame(r, {"settle", "ajaxResult", "complete"})'
  <2>1. {"settle", "ajaxResult", "complete"} \cap CallPoints = {}
    BY DEF CallPoints
  <2>2. QED
    BY <1>10, <2>1
<1>13. ~(Len(stack') > Len(stack))
  BY <1>3, <1>4
<1>14. \A j \in ((Len(stack) - 1) + 1)..Len(stack') : stack'[j][2] = "ajaxStop" => Counted' = {}
  BY <1>5
<1>15. /\ q'[r].state = 2 /\ q'[r].opt = q[r].opt /\ q'[r].fireGlobals = q[r].fireGlobals
      /\ Over(r)'
  BY <1>4, <1>7
<1>16. /\ q'[r].state = 0 => Unsent(r)'
       /\ q'[r].state = 1 => Out(r)'
       /\ q'[r].state = 2 => Over(r)'
       /\ \/ q'[r].opt = q[r].opt /\ q'[r].fireGlobals = q[r].fireGlobals
          \/ \A i \in 1..(Len(stack) - 1) : stack[i][1] # r
       /\ Len(stack') > Len(stack) => PageRuns
       /\ (r \in Counted)' => r \in Counted \/ \A i \in 1..(Len(stack) - 1) : stack[i][1] # r
       /\ completes'[r] = 1 =>
              q'[r].state = 2 /\ ~HasFrame(r, {"settle", "ajaxResult", "complete"})'
  BY <1>11, <1>12, <1>13, <1>15
<1>17. QED
  BY <1>3, <1>8, <1>9, <1>14, <1>16, RequestStep

\* ajax or done returns, for a request that is over.
LEMMA Returns ==
    ASSUME AjaxInv, NEW r \in Requests, NEW p \in Points,
           At(r, p), Return, UNCHANGED <<q, completes>>, q[r].state = 2,
           p = "ajaxComplete" \/ p \notin Uncounted,
           IF p = "ajaxComplete" /\ q[r].fireGlobals
           THEN active > 1 /\ active' = active - 1 /\ UNCHANGED shown
           ELSE UNCHANGED <<active, shown>>
    PROVE  AjaxInv'
<1>1. TypeInv
  BY DEF AjaxInv
<1>2. q[r] \in Closures /\ q' = [q EXCEPT ![r] = q[r]]
  BY <1>1 DEF TypeInv
<1>3. /\ Changes(r, Len(stack) - 1) /\ Len(stack') = Len(stack) - 1 /\ stack # <<>>
      /\ stack[Len(stack)] = <<r, p>>
  BY <1>1, <1>2, ReturnChanges
<1>4. Len(stack) \in Nat \ {0} /\ q[r].opt # None
  BY AtFrame DEF FrameInv
<1>5. /\ \A i \in 1..(Len(stack) - 1) : stack'[i] = stack[i]
      /\ ((Len(stack) - 1) + 1)..Len(stack') = {}
  BY <1>3, <1>4 DEF Changes
<1>6. ASSUME NEW i \in 1..(Len(stack) - 1), stack[i][1] = r
      PROVE  ~(stack[i][2] \in CallPoints <=> p \in CallPoints) /\ FrameInv(r, stack[i][2])
             /\ stack[i][2] \in Points
  BY <1>3, <1>6, OtherKind
<1>7. Over(r)'
  BY DEF AjaxInv, StatesInv, Over
<1>8. \A i \in 1..Len(stack') : \A p2 : stack'[i] = <<r, p2>> => FrameInv(r, p2)'
  <2>1. ASSUME NEW i \in 1..Len(stack'), NEW p2, stack'[i] = <<r, p2>>
        PROVE  FrameInv(r, p2)'
    <3>1. stack[i][1] = r /\ stack[i][2] = p2 /\ i \in 1..(Len(stack) - 1)
      BY <1>3, <1>5, <2>1
    <3>2. FrameInv(r, p2)
      BY <1>6, <3>1
    <3>3. QED
      BY <3>2 DEF FrameInv
  <2>2. QED
    BY <2>1
<1>9. ASSUME NEW P
      PROVE  /\ HasFrame(r, P)' => HasFrame(r, P)
             /\ HasFrame(r, P) /\ p \notin P => HasFrame(r, P)'
  <2>1. HasFrame(r, P)' <=> \E i \in 1..(Len(stack) - 1) : stack[i][1] = r /\ stack[i][2] \in P
    BY <1>1, <1>3, <1>5, OwnFrames
  <2>2. QED
    BY <1>1, <1>3, <2>1, TopFrames
<1>10. IF p = "ajaxComplete" /\ q[r].fireGlobals
       THEN r \in Counted /\ ~(r \in Counted)'
       ELSE r \in Counted' <=> r \in Counted
  <2>1. CASE p = "ajaxComplete"
    <3>1. HasFrame(r, Uncounted)
      BY <1>1, <1>3, <2>1, TopFrames DEF Uncounted
    <3>2. ~HasFrame(r, Uncounted)'
      <4>1. \A i \in 1..(Len(stack) - 1) : stack[i][1] = r => stack[i][2] \notin Uncounted
        BY <1>6, <2>1 DEF CallPoints, Uncounted
      <4>2. QED
        BY <1>1, <1>3, <1>5, <4>1, OwnFrames
    <3>3. QED
      BY <2>1, <3>1, <3>2 DEF Counted
  <2>2. CASE p # "ajaxComplete"
    BY <1>9, <2>2 DEF Counted
  <2>3. QED
    BY <2>1, <2>2
<1>11. CounterInv' /\ active' \in Nat
  BY <1>1, <1>3, <1>10, CountedChanges DEF AjaxInv, CounterInv, TypeInv
<1>12. completes[r] = 1 => ~HasFrame(r, {"settle", "ajaxResult", "complete"})'
  BY <1>9 DEF AjaxInv, CompletesInv
<1>13. (r \in Counted)' => r \in Counted
  BY <1>10
<1>14. completes' \in [Requests -> 0..1] /\ ~(Len(stack') > Len(stack))
  BY <1>1, <1>3, <1>4 DEF TypeInv
<1>15. /\ q'[r].state = 2 /\ q'[r].opt = q[r].opt /\ q'[r].fireGlobals = q[r].fireGlobals
      /\ completes' = completes
  OBVIOUS
<1>16. /\ q'[r].state = 0 => Unsent(r)'
       /\ q'[r].state = 1 => Out(r)'
       /\ q'[r].state = 2 => Over(r)'
       /\ \/ q'[r].opt = q[r].opt /\ q'[r].fireGlobals = q[r].fireGlobals
          \/ \A i \in 1..(Len(stack) - 1) : stack[i][1] # r
       /\ Len(stack') > Len(stack) => PageRuns
       /\ (r \in Counted)' => r \in Counted \/ \A i \in 1..(Len(stack) - 1) : stack[i][1] # r
       /\ completes'[r] = 1 =>
              q'[r].state = 2 /\ ~HasFrame(r, {"settle", "ajaxResult", "complete"})'
       /\ \A u \in Requests : u # r => completes'[u] = completes[u]
       /\ \A i \in 1..(Len(stack) - 1) : \A j \in ((Len(stack) - 1) + 1)..Len(stack') :
              stack[i][1] = r => ~(stack[i][2] \in CallPoints <=> stack'[j][2] \in CallPoints)
       /\ \A j \in ((Len(stack) - 1) + 1)..Len(stack') : stack'[j][2] = "ajaxStop" => Counted' = {}
  BY <1>5, <1>7, <1>12, <1>13, <1>14, <1>15
<1>17. QED
  BY <1>3, <1>8, <1>11, <1>14, <1>16, RequestStep

\* A frame is the innermost or has one above it.
LEMMA TopOrBelow ==
    ASSUME NEW n \in Nat, NEW i \in 1..n
    PROVE  i < n \/ i = n
OBVIOUS

\* What is known of the frames of a request that handlers may abort now.
LEMMA AbortedFrames ==
    ASSUME AjaxInv, CarefulHandlers, NEW r \in Requests,
           PageRuns, Within(r) \subseteq AbortPoints, q[r].state # 2,
           NEW i \in 1..Len(stack), stack[i][1] = r
    PROVE  /\ q[r].opt # None
           /\ \/ stack[i][2] = "prefilter" /\ ~q[r].fireGlobals
              \/ stack[i][2] = "beforeSend" /\ q[r].opt.beforeSend
<1>1. DOMAIN stack = 1..Len(stack) /\ Len(stack) \in Nat
  BY DEF AjaxInv, TypeInv
<1>2. i \in DOMAIN stack /\ stack[i] \in Requests \X Points
  BY <1>1, ElementOfSeq DEF AjaxInv, TypeInv
<1>3. stack[i][2] \in Points /\ FrameInv(r, stack[i][2])
  BY <1>2 DEF AjaxInv, FramesInv
<1>4. stack[i][2] \in Within(r)
  BY <1>2 DEF Within
<1>5. HandlersAt(r, stack[i][2])
  <2>1. CASE i < Len(stack)
    BY <1>2, <2>1 DEF AjaxInv, CalledByHandlers
  <2>2. CASE i = Len(stack)
    <3>1. stack # <<>> /\ Top[1] = r /\ Top[2] = stack[i][2]
      BY <1>1, <2>2 DEF Top, Last
    <3>2. QED
      BY <3>1 DEF PageRuns, Idle
  <2>3. i < Len(stack) \/ i = Len(stack)
    BY <1>1, TopOrBelow
  <2>4. QED
    BY <2>1, <2>2, <2>3
<1>6. stack[i][2] \notin {"ajaxStart", "ajaxSend"}
  BY <1>4 DEF CarefulHandlers
<1>7. stack[i][2] \notin DonePoints
  BY <1>3 DEF FrameInv
<1>8. stack[i][2] # "send" /\ (stack[i][2] = "beforeSend" => q[r].opt.beforeSend)
  BY <1>5 DEF HandlersAt
<1>9. stack[i][2] \in {"prefilter", "beforeSend"}
  BY <1>3, <1>6, <1>7, <1>8 DEF Points, CallPoints
<1>10. q[r].opt # None /\ (stack[i][2] = "prefilter" => ~q[r].fireGlobals)
  BY <1>3 DEF FrameInv
<1>11. QED
  BY <1>8, <1>9, <1>10

\* done, of a request that is not over: from its own call of ajax, or by the code
\* of the page, which runs now.
LEMMA Settles ==
    ASSUME AjaxInv, CarefulHandlers, NEW r \in Requests, q[r].state # 2,
           NEW y \in Closures, q' = [q EXCEPT ![r] = y],
           y.opt = q[r].opt, y.opt # None, y.fireGlobals = q[r].fireGlobals,
           y.state = 2, ~y.timer, ~y.transport, y.xhr # "out",
           UNCHANGED <<active, shown, completes>>,
           \/ \E p \in CallPoints : At(r, p) /\ Goto(r, "settle")
           \/ /\ stack' = Append(stack, <<r, "settle">>)
              /\ PageRuns /\ Within(r) \subseteq AbortPoints
    PROVE  AjaxInv'
<1>1. TypeInv
  BY DEF AjaxInv
<1>2. q'[r] = y
  BY <1>1 DEF TypeInv
<1>3. PICK k : /\ Changes(r, k) /\ Len(stack') = k + 1 /\ stack'[k + 1] = <<r, "settle">>
               /\ k \in Nat
               /\ \A i \in 1..k : stack[i][1] = r =>
                      \/ stack[i][2] = "prefilter" /\ ~q[r].fireGlobals
                      \/ stack[i][2] = "beforeSend" /\ q[r].opt.beforeSend
               /\ Len(stack') > Len(stack) => PageRuns
  <2>1. ASSUME NEW p \in CallPoints, At(r, p), Goto(r, "settle")
        PROVE  /\ Changes(r, Len(stack) - 1) /\ Len(stack') = (Len(stack) - 1) + 1
               /\ stack'[(Len(stack) - 1) + 1] = <<r, "settle">>
               /\ Len(stack) - 1 \in Nat
               /\ \A i \in 1..(Len(stack) - 1) : stack[i][1] # r
               /\ ~(Len(stack') > Len(stack))
    <3>1. Len(stack) \in Nat \ {0} /\ \A i \in 1..(Len(stack) - 1) : stack[i][1] # r
      BY <2>1, AtFrame, OnlyFrame
    <3>2. Changes(r, Len(stack) - 1) /\ Len(stack') = Len(stack)
          /\ stack'[Len(stack)] = <<r, "settle">>
      BY <1>1, <2>1, GotoChanges DEF Points, DonePoints
    <3>3. (Len(stack) - 1) + 1 = Len(stack) /\ Len(stack) - 1 \in Nat /\ ~(Len(stack) > Len(stack))
      BY <3>1
    <3>4. QED
      BY <3>1, <3>2, <3>3
  <2>2. CASE stack' = Append(stack, <<r, "settle">>) /\ PageRuns /\ Within(r) \subseteq AbortPoints
    <3>1. Changes(r, Len(stack)) /\ Len(stack') = Len(stack) + 1
          /\ stack'[Len(stack) + 1] = <<r, "settle">>
      BY <1>1, <2>2, PushChanges DEF Points, DonePoints
    <3>2. \A i \in 1..Len(stack) : stack[i][1] = r =>
              \/ stack[i][2] = "prefilter" /\ ~q[r].fireGlobals
              \/ stack[i][2] = "beforeSend" /\ q[r].opt.beforeSend
      BY <2>2, AbortedFrames
    <3>3. Len(stack) \in Nat
      BY <1>1 DEF TypeInv
    <3>4. QED
      BY <2>2, <3>1, <3>2, <3>3
  <2>3. QED
    BY <2>1, <2>2
<1>4. /\ \A i \in 1..k : stack'[i] = stack[i]
      /\ k + 1 \in (k + 1)..Len(stack')
      /\ \A j \in (k + 1)..Len(stack') : stack'[j] = <<r, "settle">> /\ stack'[j][2] = "settle"
      /\ \A i \in 1..Len(stack') : i \in 1..k \/ i = k + 1
  <2>1. \A j \in (k + 1)..Len(stack') : j = k + 1
    BY <1>3
  <2>2. k + 1 \in (k + 1)..Len(stack') /\ \A i \in 1..Len(stack') : i \in 1..k \/ i = k + 1
    BY <1>3
  <2>3. QED
    BY <1>3, <2>1, <2>2 DEF Changes
<1>5. Over(r)'
  BY <1>2 DEF Over
<1>6. \A i \in 1..Len(stack') : \A p2 : stack'[i] = <<r, p2>> => FrameInv(r, p2)'
  <2>1. ASSUME NEW i \in 1..Len(stack'), NEW p2, stack'[i] = <<r, p2>>
        PROVE  FrameInv(r, p2)'
    <3>1. CASE i \in 1..k
      <4>1. stack[i][1] = r /\ stack[i][2] = p2
        BY <1>4, <2>1, <3>1
      <4>2. \/ p2 = "prefilter" /\ ~q[r].fireGlobals
            \/ p2 = "beforeSend" /\ q[r].opt.beforeSend
        BY <1>3, <3>1, <4>1
      <4>3. QED
        BY <1>2, <4>2 DEF FrameInv, DonePoints
    <3>2. CASE i = k + 1
      <4>1. p2 = "settle"
        BY <1>3, <2>1, <3>2
      <4>2. QED
        BY <1>2, <4>1 DEF FrameInv
    <3>3. QED
      BY <1>4, <3>1, <3>2
  <2>2. QED
    BY <2>1
<1>7. /\ \A i \in 1..k : \A j \in (k + 1)..Len(stack') :
             stack[i][1] = r => ~(stack[i][2] \in CallPoints <=> stack'[j][2] \in CallPoints)
      /\ \A j \in (k + 1)..Len(stack') : stack'[j][2] = "ajaxStop" => Counted' = {}
  BY <1>3, <1>4 DEF CallPoints
<1>8. (r \in Counted)' <=> r \in Counted
  <2>1. HasFrame(r, Uncounted)'
    BY <1>1, <1>3, <1>4, OwnFrames DEF Uncounted
  <2>2. QED
    BY <1>2, <2>1 DEF Counted
<1>9. CounterInv' /\ active' \in Nat
  BY <1>1, <1>3, <1>8, SameCount DEF AjaxInv
<1>10. /\ completes[r] # 1 /\ completes' = completes
       /\ completes' \in [Requests -> 0..1]
       /\ \A u \in Requests : u # r => completes'[u] = completes[u]
  BY <1>1 DEF AjaxInv, CompletesInv, TypeInv
<1>11. /\ q'[r].state = 0 => Unsent(r)'
       /\ q'[r].state = 1 => Out(r)'
       /\ q'[r].state = 2 => Over(r)'
       /\ \/ q'[r].opt = q[r].opt /\ q'[r].fireGlobals = q[r].fireGlobals
          \/ \A i \in 1..k : stack[i][1] # r
       /\ Len(stack') > Len(stack) => PageRuns
       /\ (r \in Counted)' => r \in Counted \/ \A i \in 1..k : stack[i][1] # r
       /\ completes'[r] = 1 =>
              q'[r].state = 2 /\ ~HasFrame(r, {"settle", "ajaxResult", "complete"})'
  BY <1>2, <1>3, <1>5, <1>8, <1>10
<1>12. QED
  BY <1>3, <1>6, <1>7, <1>9, <1>10, <1>11, RequestStep

\* A step that changes nothing.
LEMMA AjaxStutters ==
    ASSUME AjaxInv, UNCHANGED vars
    PROVE  AjaxInv'
<1> USE DEF vars, AjaxInv
<1>1. TypeInv' /\ FramesOnce' /\ CompletesInv'
  BY DEF TypeInv, FramesOnce, CompletesInv, HasFrame
<1>2. StatesInv'
  BY DEF StatesInv, Unsent, Out, Over, HasFrame
<1>3. FramesInv' /\ CalledByHandlers'
  BY DEF FramesInv, FrameInv, CalledByHandlers, HandlersAt
<1>4. Counted' = Counted
  BY DEF Counted, HasFrame
<1>5. CounterInv' /\ StopsLast'
  BY <1>4 DEF CounterInv, StopsLast
<1>6. QED
  BY <1>1, <1>2, <1>3, <1>5

\* What done makes of the closure variables.
LEMMA SettledClosure ==
    ASSUME NEW x \in Closures, NEW cause \in Causes, NEW y,
           y = [x EXCEPT !.state = 2, !.timer = FALSE, !.transport = FALSE, !.result = cause]
    PROVE  /\ y \in Closures /\ y.opt = x.opt /\ y.fireGlobals = x.fireGlobals /\ y.xhr = x.xhr
           /\ y.state = 2 /\ ~y.timer /\ ~y.transport
<1>1. y = [opt |-> x.opt, state |-> 2, fireGlobals |-> x.fireGlobals, transport |-> FALSE,
           strAbort |-> x.strAbort, timer |-> FALSE, callback |-> x.callback,
           xhr |-> x.xhr, result |-> cause]
  BY DEF Closures
<1>2. /\ x.opt \in Options \cup {None} /\ x.fireGlobals \in BOOLEAN
      /\ x.strAbort \in {"canceled", "abort"} /\ x.callback \in BOOLEAN
      /\ x.xhr \in {"unsent", "out", "over"} /\ cause \in Causes \cup {None}
  BY DEF Closures
<1>3. 2 \in 0..2 /\ FALSE \in BOOLEAN
  OBVIOUS
<1>4. y \in Closures
  BY <1>1, <1>2, <1>3 DEF Closures
<1>5. QED
  BY <1>1, <1>4

\* done is called with closure variables x of a request that is not over.
LEMMA TakeDone ==
    ASSUME AjaxInv, CarefulHandlers, NEW r \in Requests, q[r].state # 2,
           NEW x \in Closures, x.opt = q[r].opt, x.opt # None, x.fireGlobals = q[r].fireGlobals,
           x.state # 2, x.xhr # "out", NEW cause \in Causes,
           UNCHANGED <<active, shown, completes>>,
           NEW s, Take(r, s, Done(r, x, cause)),
           \/ s = Front(stack) /\ \E p \in CallPoints : At(r, p)
           \/ s = stack /\ PageRuns /\ Within(r) \subseteq AbortPoints
    PROVE  AjaxInv'
<1>1. PICK y : y = [x EXCEPT !.state = 2, !.timer = FALSE, !.transport = FALSE, !.result = cause]
  OBVIOUS
<1>2. Done(r, x, cause) = <<y, <<<<r, "settle">>>> >>
  BY <1>1 DEF Done
<1>3. q' = [q EXCEPT ![r] = y] /\ stack' = s \o <<<<r, "settle">>>>
  BY <1>2 DEF Take
<1>4. /\ y \in Closures /\ y.opt = x.opt /\ y.fireGlobals = x.fireGlobals /\ y.xhr = x.xhr
      /\ y.state = 2 /\ ~y.timer /\ ~y.transport
  <2> DEFINE z == [x EXCEPT !.state = 2, !.timer = FALSE, !.transport = FALSE, !.result = cause]
  <2>1. /\ z \in Closures /\ z.opt = x.opt /\ z.fireGlobals = x.fireGlobals /\ z.xhr = x.xhr
        /\ z.state = 2 /\ ~z.timer /\ ~z.transport
    BY SettledClosure
  <2>2. y = z
    BY <1>1
  <2> HIDE DEF z
  <2>3. QED
    BY <2>1, <2>2, Zenon
<1>5. stack \in Seq(Requests \X Points)
  BY DEF AjaxInv, TypeInv
<1>6. s \in Seq(Requests \X Points)
  <2>1. ASSUME NEW p \in CallPoints, At(r, p) PROVE Front(stack) \in Seq(Requests \X Points)
    BY <1>5, <2>1, AtFrame, FrontLast
  <2>2. QED
    BY <1>5, <2>1
<1>7. s \o <<<<r, "settle">>>> = Append(s, <<r, "settle">>)
  <2>1. <<r, "settle">> \in Requests \X Points
    BY DEF Points, DonePoints
  <2>2. QED
    BY ONLY <1>6, <2>1, AppendIsConcat
<1>8. QED
  BY <1>3, <1>4, <1>7, Settles DEF Goto

\* Between two turns of the event loop no request has a frame, and the page runs.
LEMMA IdleFrames ==
    ASSUME AjaxInv, Idle, NEW r \in Requests
    PROVE  /\ PageRuns /\ Within(r) = {} /\ \A P : ~HasFrame(r, P)
           /\ q[r].state = 0 => ~q[r].fireGlobals
           /\ q[r].state = 1 => q[r].xhr = "out" /\ q[r].callback
BY DEF AjaxInv, Idle, PageRuns, Within, HasFrame, StatesInv, Unsent, Out

\* A request that was made has settings.
LEMMA OptionsType ==
    ASSUME TypeInv, NEW r \in Requests, q[r].opt # None
    PROVE  q[r] \in Closures /\ q[r].opt \in OptionRecords
BY AjaxAssumption DEF TypeInv, Closures

-----------------------------------------------------------------------------
(* The steps.                                                              *)

\* abort, whoever calls it, of a request that was made.
LEMMA AbortStep ==
    ASSUME AjaxInv, CarefulHandlers, NEW r \in Requests, q[r].opt # None,
           NEW cause \in Causes, NEW z \in Closures,
           z = q[r] \/ z = [q[r] EXCEPT !.timer = FALSE],
           NEW s, Take(r, s, AbortOf(r, z, cause)),
           UNCHANGED <<active, shown, completes, thrown>>,
           \/ s = Front(stack) /\ q[r].state # 2 /\ At(r, "beforeSend")
           \/ s = stack /\ PageRuns /\ Within(r) \subseteq AbortPoints
    PROVE  AjaxInv'
<1> DEFINE x == IF z.transport THEN TransportAbort(z) ELSE z
<1>1. /\ z.opt = q[r].opt /\ z.fireGlobals = q[r].fireGlobals /\ z.state = q[r].state
      /\ z.transport = q[r].transport /\ z.callback = q[r].callback /\ z.xhr = q[r].xhr
  BY DEF AjaxInv, TypeInv, Closures
<1>2. CASE q[r].state = 2
  <2>1. ~z.transport /\ z = q[r]
    <3>1. q[r] \in Closures /\ ~q[r].timer /\ ~q[r].transport
      BY <1>2 DEF AjaxInv, TypeInv, StatesInv, Over
    <3>2. [q[r] EXCEPT !.timer = FALSE] = q[r]
      BY <3>1 DEF Closures
    <3>3. QED
      BY <3>1, <3>2
  <2>2. AbortOf(r, z, cause) = <<q[r], <<>> >>
    BY <1>2, <2>1 DEF AbortOf, Done
  <2>3. q' = q /\ stack' = stack
    <3>1. s = stack
      BY <1>2
    <3>2. QED
      BY <2>2, <3>1 DEF Take, AjaxInv, TypeInv
  <2>4. QED
    BY <2>3, AjaxStutters DEF vars
<1>3. CASE q[r].state # 2
  <2>1. /\ x \in Closures /\ x.opt = z.opt /\ x.fireGlobals = z.fireGlobals /\ x.state = z.state
        /\ x.xhr = IF z.transport /\ z.callback THEN "over" ELSE z.xhr
    BY DEF Closures, TransportAbort
  <2>2. x.xhr # "out"
    <3>1. q[r].state = 0 \/ q[r].state = 1
      BY <1>3 DEF AjaxInv, TypeInv, Closures
    <3>2. CASE q[r].state = 0
      BY <1>1, <2>1, <3>2 DEF AjaxInv, StatesInv, Unsent
    <3>3. CASE q[r].state = 1
      BY <1>1, <2>1, <3>3 DEF AjaxInv, StatesInv, Out
    <3>4. QED
      BY <3>1, <3>2, <3>3
  <2>3. Take(r, s, Done(r, x, cause))
    BY DEF AbortOf
  <2> HIDE DEF x
  <2>4. "beforeSend" \in CallPoints
    BY DEF CallPoints
  <2>5. QED
    BY <1>1, <1>3, <2>1, <2>2, <2>3, <2>4, TakeDone
<1>4. QED
  BY <1>2, <1>3

\* The page makes a request.
LEMMA CallStep ==
    ASSUME AjaxInv, NEW r \in Requests, NEW opt \in Options, Call(r, opt)
    PROVE  AjaxInv'
<1> DEFINE z == [q[r] EXCEPT !.opt = opt]
<1>1. TypeInv /\ q[r] \in Closures /\ q[r].opt = None
  BY DEF AjaxInv, TypeInv, Call
<1>2. PICK y :
          /\ y = z /\ y \in Closures /\ y.opt = opt /\ y.state = q[r].state
          /\ y.fireGlobals = q[r].fireGlobals /\ y.xhr = q[r].xhr /\ y.callback = q[r].callback
          /\ y.timer = q[r].timer /\ y.result = q[r].result
  <2>1. /\ z \in Closures /\ z.opt = opt /\ z.state = q[r].state
        /\ z.fireGlobals = q[r].fireGlobals /\ z.xhr = q[r].xhr /\ z.callback = q[r].callback
        /\ z.timer = q[r].timer /\ z.result = q[r].result
    BY <1>1 DEF Closures
  <2>2. QED
    BY <2>1
<1>3. /\ q' = [q EXCEPT ![r] = y]
      /\ stack' = Append(stack, <<r, "prefilter">>)
      /\ PageRuns /\ UNCHANGED <<active, shown, completes>>
  BY <1>2 DEF Call
<1> HIDE DEF z
<1>4. opt # None
  BY AjaxAssumption
<1>5. /\ Changes(r, Len(stack)) /\ Len(stack') = Len(stack) + 1
      /\ stack'[Len(stack) + 1] = <<r, "prefilter">> /\ Len(stack) \in Nat
  <2>1. "prefilter" \in Points /\ Len(stack) \in Nat
    BY <1>1 DEF Points, CallPoints, TypeInv
  <2>2. QED
    BY <1>1, <1>2, <1>3, <2>1, PushChanges
<1>6. \A i \in 1..Len(stack) : stack[i][1] # r
  <2>1. DOMAIN stack = 1..Len(stack)
    BY <1>1 DEF TypeInv
  <2>2. QED
    BY <1>1, <2>1 DEF AjaxInv, FramesInv, FrameInv
<1>7. ~HasFrame(r, Points)
  <2>1. DOMAIN stack = 1..Len(stack)
    BY <1>1 DEF TypeInv
  <2>2. QED
    BY <1>6, <2>1 DEF HasFrame
<1>8. q[r].state = 0 /\ ~q[r].fireGlobals /\ Unsent(r)
  <2>1. q[r].state = 0
    BY <1>1 DEF AjaxInv, StatesInv, Out, Over, Closures
  <2>2. Unsent(r)
    BY <2>1 DEF AjaxInv, StatesInv
  <2>3. ~HasFrame(r, {"ajaxStart", "beforeSend", "ajaxSend"})
    BY <1>7 DEF HasFrame, Points, CallPoints
  <2>4. QED
    BY <2>1, <2>2, <2>3 DEF Unsent
<1>9. q'[r] = y
  BY <1>1, <1>3 DEF TypeInv
<1>10. Unsent(r)' /\ q'[r].state = 0
  BY <1>2, <1>8, <1>9 DEF Unsent
<1>11. ~(r \in Counted)' /\ r \notin Counted
  BY <1>2, <1>8, <1>9 DEF Counted
<1>12. CounterInv' /\ active' \in Nat
  BY <1>1, <1>3, <1>5, <1>11, SameCount DEF AjaxInv
<1>13. \A i \in 1..Len(stack') : \A p2 : stack'[i] = <<r, p2>> => FrameInv(r, p2)'
  <2>1. ASSUME NEW i \in 1..Len(stack'), NEW p2, stack'[i] = <<r, p2>> PROVE FrameInv(r, p2)'
    <3>1. i \in 1..Len(stack) \/ i = Len(stack) + 1
      BY <1>5
    <3>2. i \notin 1..Len(stack)
      BY <1>5, <1>6, <2>1 DEF Changes
    <3>3. p2 = "prefilter"
      BY <1>5, <2>1, <3>1, <3>2
    <3>4. QED
      BY <1>2, <1>4, <1>8, <1>9, <3>3 DEF FrameInv, DonePoints
  <2>2. QED
    BY <2>1
<1>14. \A j \in (Len(stack) + 1)..Len(stack') : stack'[j][2] = "ajaxStop" => Counted' = {}
  <2>1. \A j \in (Len(stack) + 1)..Len(stack') : stack'[j] = <<r, "prefilter">>
    BY <1>5
  <2>2. QED
    BY <2>1
<1>15. /\ completes[r] # 1 /\ completes' = completes
       /\ completes' \in [Requests -> 0..1]
  BY <1>1, <1>3, <1>8 DEF AjaxInv, CompletesInv, TypeInv
<1>16. /\ q'[r].state = 0 => Unsent(r)'
       /\ q'[r].state = 1 => Out(r)'
       /\ q'[r].state = 2 => Over(r)'
       /\ \A u \in Requests : u # r => completes'[u] = completes[u]
       /\ \A i \in 1..Len(stack) : \A j \in (Len(stack) + 1)..Len(stack') :
              stack[i][1] = r => ~(stack[i][2] \in CallPoints <=> stack'[j][2] \in CallPoints)
       /\ \/ q'[r].opt = q[r].opt /\ q'[r].fireGlobals = q[r].fireGlobals
          \/ \A i \in 1..Len(stack) : stack[i][1] # r
       /\ Len(stack') > Len(stack) => PageRuns
       /\ (r \in Counted)' => r \in Counted \/ \A i \in 1..Len(stack) : stack[i][1] # r
       /\ completes'[r] = 1 =>
              q'[r].state = 2 /\ ~HasFrame(r, {"settle", "ajaxResult", "complete"})'
  BY <1>3, <1>6, <1>10, <1>15
<1>17. QED
  BY <1>5, <1>12, <1>13, <1>14, <1>15, <1>16, RequestStep

\* A request is counted, and the first one opens an ajaxStart.
LEMMA CountStep ==
    ASSUME AjaxInv, NEW r \in Requests, Count(r)
    PROVE  AjaxInv'
<1>1. TypeInv /\ q[r] \in Closures /\ At(r, "prefilter")
  BY DEF AjaxInv, TypeInv, Count
<1>2. q[r].opt # None /\ q[r].state = 0 /\ ~q[r].fireGlobals /\ q[r].opt \in OptionRecords
  <2>1. FrameInv(r, "prefilter") /\ q[r].state # 2
    BY <1>1, AtFrame DEF Count
  <2>2. QED
    BY <1>1, <2>1, OptionsType DEF FrameInv, Closures
<1>3. PICK y : /\ y = [q[r] EXCEPT !.fireGlobals = q[r].opt.global]
               /\ y \in Closures /\ y.opt = q[r].opt /\ y.state = 0 /\ y.result = q[r].result
               /\ y.xhr = q[r].xhr /\ y.callback = q[r].callback /\ y.timer = q[r].timer
               /\ y.fireGlobals = q[r].opt.global
  <2> DEFINE z == [q[r] EXCEPT !.fireGlobals = q[r].opt.global]
  <2>1. q[r].opt.global \in BOOLEAN
    BY <1>2 DEF OptionRecords
  <2>2. /\ z \in Closures /\ z.opt = q[r].opt /\ z.state = 0 /\ z.result = q[r].result
        /\ z.xhr = q[r].xhr /\ z.callback = q[r].callback /\ z.timer = q[r].timer
        /\ z.fireGlobals = q[r].opt.global
    BY <1>1, <1>2, <2>1 DEF Closures
  <2>3. QED
    BY <2>2
<1>4. PICK p1 \in {"ajaxStart", "beforeSend"} :
          /\ Goto(r, p1)
          /\ shown' = IF p1 = "ajaxStart" THEN shown + 1 ELSE shown
          /\ p1 = "ajaxStart" <=> q[r].opt.global /\ active = 0
  BY DEF Count
<1>5. /\ q' = [q EXCEPT ![r] = y] /\ completes' = completes
      /\ active' = IF q[r].opt.global THEN active + 1 ELSE active
  BY <1>3 DEF Count
<1>6. q'[r] = y
  BY <1>1, <1>5 DEF TypeInv
<1>7. p1 \in CallPoints /\ p1 \in Points /\ "prefilter" \in CallPoints
  BY DEF CallPoints, Points
<1>8. Unsent(r)
  BY <1>2 DEF AjaxInv, StatesInv
<1>9. Changes(r, Len(stack) - 1) /\ Len(stack') = Len(stack) /\ stack'[Len(stack)] = <<r, p1>>
  BY <1>1, <1>3, <1>4, <1>5, <1>7, GotoChanges
<1>10. r \notin Counted /\ ((r \in Counted)' <=> q[r].opt.global)
  <2>1. q'[r].fireGlobals = q[r].opt.global /\ q'[r].state = 0
    BY <1>3, <1>6
  <2>2. (r \in Counted)' <=> q'[r].fireGlobals
    BY <2>1 DEF Counted
  <2>3. QED
    BY <1>2, <2>1, <2>2 DEF Counted
<1>11. /\ ~q[r].opt.global => Cardinality(Counted') = Cardinality(Counted)
       /\ q[r].opt.global => Cardinality(Counted') = Cardinality(Counted) + 1
  BY <1>1, <1>9, <1>10, CountedChanges
<1>12. CounterInv' /\ active' \in Nat
  BY <1>1, <1>2, <1>4, <1>5, <1>11 DEF AjaxInv, CounterInv, TypeInv, OptionRecords
<1>13. FrameInv(r, p1)'
  BY <1>2, <1>3, <1>6, <1>7 DEF FrameInv, CallPoints, DonePoints
<1>14. /\ y.result = None /\ y.state # 2 /\ ~(y.state = 1)
       /\ y.state = 0 =>
              /\ y.xhr = "unsent" /\ ~y.callback /\ ~y.timer
              /\ y.fireGlobals => p1 \in {"ajaxStart", "beforeSend", "ajaxSend"}
  BY <1>3, <1>8 DEF Unsent
<1>15. QED
  BY <1>1, <1>2, <1>3, <1>4, <1>5, <1>7, <1>12, <1>13, <1>14, CallMoves

\* The headers are prepared.
LEMMA PrepareStep ==
    ASSUME AjaxInv, NEW r \in Requests, Prepare(r)
    PROVE  AjaxInv'
<1>1. /\ TypeInv /\ q[r] \in Closures /\ At(r, "ajaxStart") /\ Goto(r, "beforeSend")
      /\ UNCHANGED <<q, active, shown, completes>>
  BY DEF AjaxInv, TypeInv, Prepare
<1>2. q[r].opt # None /\ q[r].state = 0 /\ Unsent(r)
  BY <1>1, AtFrame DEF FrameInv, AjaxInv, StatesInv
<1>3. q' = [q EXCEPT ![r] = q[r]]
  BY <1>1 DEF TypeInv
<1>4. "ajaxStart" \in CallPoints /\ "beforeSend" \in CallPoints /\ "beforeSend" \in Points
  BY DEF CallPoints, Points
<1>5. Changes(r, Len(stack) - 1)
  BY <1>1, <1>3, <1>4, GotoChanges
<1>6. (r \in Counted)' <=> r \in Counted
  BY <1>1, <1>2 DEF Counted
<1>7. CounterInv' /\ active' \in Nat
  BY <1>1, <1>5, <1>6, SameCount DEF AjaxInv
<1>8. FrameInv(r, "beforeSend")'
  BY <1>1, <1>2 DEF FrameInv, DonePoints
<1>9. /\ q[r].result = None
      /\ q[r].xhr = "unsent" /\ ~q[r].callback /\ ~q[r].timer /\ q[r].state # 2
  BY <1>2 DEF Unsent
<1>10. QED
  BY <1>1, <1>2, <1>3, <1>4, <1>7, <1>8, <1>9, CallMoves

\* beforeSend cancels the request.
LEMMA CancelStep ==
    ASSUME AjaxInv, CarefulHandlers, NEW r \in Requests, Cancel(r)
    PROVE  AjaxInv'
<1>1. /\ TypeInv /\ q[r] \in Closures /\ At(r, "beforeSend")
      /\ Take(r, Front(stack), AbortOf(r, q[r], q[r].strAbort))
      /\ UNCHANGED <<active, shown, completes, thrown>>
  BY DEF AjaxInv, TypeInv, Cancel
<1>2. q[r].opt # None /\ q[r].strAbort \in Causes
  BY <1>1, AtFrame DEF FrameInv, Closures, Causes
<1>3. CASE q[r].state # 2
  BY <1>1, <1>2, <1>3, AbortStep
<1>4. CASE q[r].state = 2
  <2>1. ~q[r].transport
    BY <1>4 DEF AjaxInv, StatesInv, Over
  <2>2. AbortOf(r, q[r], q[r].strAbort) = <<q[r], <<>> >>
    BY <1>4, <2>1 DEF AbortOf, Done
  <2>3. stack # <<>> /\ stack \in Seq(Requests \X Points)
    BY <1>1, AtFrame DEF TypeInv
  <2>4. Front(stack) \in Seq(Requests \X Points)
    BY <2>3, FrontLast
  <2>5. q' = q /\ Return
    BY <1>1, <2>2, <2>4 DEF Take, TypeInv, Return
  <2>6. "beforeSend" \in Points /\ "beforeSend" \notin Uncounted
    BY DEF Points, CallPoints, Uncounted
  <2>7. QED
    BY <1>1, <1>4, <2>5, <2>6, Returns
<1>5. QED
  BY <1>3, <1>4

\* A transport is found, or the request ends with an error.
LEMMA SetUpStep ==
    ASSUME AjaxInv, CarefulHandlers, NEW r \in Requests, SetUp(r)
    PROVE  AjaxInv'
<1>1. /\ TypeInv /\ q[r] \in Closures /\ At(r, "beforeSend")
      /\ q[r].opt.beforeSend => q[r].state # 2
      /\ UNCHANGED <<active, shown, completes>>
  BY DEF AjaxInv, TypeInv, SetUp
<1>2. q[r].opt # None /\ q[r].state = 0 /\ Unsent(r)
  BY <1>1, AtFrame DEF FrameInv, AjaxInv, StatesInv
<1>3. PICK x : /\ x = [q[r] EXCEPT !.strAbort = "abort"]
               /\ x \in Closures /\ x.opt = q[r].opt /\ x.state = 0 /\ x.result = q[r].result
               /\ x.xhr = q[r].xhr /\ x.callback = q[r].callback /\ x.timer = q[r].timer
               /\ x.fireGlobals = q[r].fireGlobals
  <2> DEFINE z == [q[r] EXCEPT !.strAbort = "abort"]
  <2>1. /\ z \in Closures /\ z.opt = q[r].opt /\ z.state = 0 /\ z.result = q[r].result
        /\ z.xhr = q[r].xhr /\ z.callback = q[r].callback /\ z.timer = q[r].timer
        /\ z.fireGlobals = q[r].fireGlobals
    BY <1>1, <1>2 DEF Closures
  <2>2. QED
    BY <2>1
<1>4. "ajaxSend" \in CallPoints /\ "beforeSend" \in CallPoints /\ "ajaxSend" \in Points
  BY DEF CallPoints, Points
<1>5. x.result = None /\ x.xhr = "unsent" /\ ~x.callback /\ ~x.timer
  BY <1>2, <1>3 DEF Unsent
<1>6. CASE Take(r, Front(stack), Done(r, x, "error"))
  <2>1. "error" \in Causes
    BY DEF Causes, Answers
  <2>2. q[r].state # 2 /\ x.state # 2 /\ x.xhr # "out" /\ x.opt # None
    BY <1>2, <1>3, <1>5
  <2>3. QED
    BY <1>1, <1>3, <1>4, <1>6, <2>1, <2>2, TakeDone
<1>7. CASE q' = [q EXCEPT ![r] = [x EXCEPT !.transport = TRUE]] /\ Goto(r, "ajaxSend")
  <2>1. PICK y : /\ y = [x EXCEPT !.transport = TRUE]
                 /\ y \in Closures /\ y.opt = x.opt /\ y.state = x.state /\ y.result = x.result
                 /\ y.xhr = x.xhr /\ y.callback = x.callback /\ y.timer = x.timer
                 /\ y.fireGlobals = x.fireGlobals
    <3> DEFINE z == [x EXCEPT !.transport = TRUE]
    <3>1. /\ z \in Closures /\ z.opt = x.opt /\ z.state = x.state /\ z.result = x.result
          /\ z.xhr = x.xhr /\ z.callback = x.callback /\ z.timer = x.timer
          /\ z.fireGlobals = x.fireGlobals
      BY <1>3 DEF Closures
    <3>2. QED
      BY <3>1
  <2>2. q' = [q EXCEPT ![r] = y] /\ q'[r] = y
    BY <1>1, <1>7, <2>1 DEF TypeInv
  <2>3. Changes(r, Len(stack) - 1)
    BY <1>1, <1>4, <1>7, <2>1, <2>2, GotoChanges
  <2>4. (r \in Counted)' <=> r \in Counted
    BY <1>2, <1>3, <2>1, <2>2 DEF Counted
  <2>5. CounterInv' /\ active' \in Nat
    BY <1>1, <2>3, <2>4, SameCount DEF AjaxInv
  <2>6. FrameInv(r, "ajaxSend")'
    BY <1>2, <1>3, <2>1, <2>2 DEF FrameInv, DonePoints
  <2>7. /\ y.opt = q[r].opt /\ y.result = None /\ y.state # 2 /\ ~(y.state = 1)
        /\ completes' = completes /\ q[r].state # 2
        /\ y.state = 0 =>
               /\ y.xhr = "unsent" /\ ~y.callback /\ ~y.timer
               /\ y.fireGlobals => "ajaxSend" \in {"ajaxStart", "beforeSend", "ajaxSend"}
    BY <1>1, <1>2, <1>3, <1>5, <2>1
  <2>8. QED
    BY <1>1, <1>4, <1>7, <2>1, <2>2, <2>5, <2>6, <2>7, CallMoves
<1>8. QED
  BY <1>3, <1>6, <1>7 DEF SetUp

\* The timer is started and the request goes out, if it still has its transport.
LEMMA SendStep ==
    ASSUME AjaxInv, CarefulHandlers, NEW r \in Requests, Send(r)
    PROVE  AjaxInv'
<1>1. /\ TypeInv /\ q[r] \in Closures /\ At(r, "ajaxSend")
      /\ UNCHANGED <<active, shown, completes>>
  BY DEF AjaxInv, TypeInv, Send
<1>2. /\ q[r].opt # None /\ q[r].state = 0 /\ Unsent(r)
      /\ q[r].opt \in OptionRecords
  BY <1>1, AtFrame, OptionsType DEF FrameInv, AjaxInv, StatesInv
<1>3. PICK x : /\ x = [q[r] EXCEPT !.timer = q[r].opt.async /\ q[r].opt.timed, !.state = 1]
               /\ x \in Closures /\ x.opt = q[r].opt /\ x.state = 1 /\ x.result = q[r].result
               /\ x.xhr = q[r].xhr /\ x.callback = q[r].callback
               /\ x.transport = q[r].transport /\ x.fireGlobals = q[r].fireGlobals
  <2>1. PICK timed \in BOOLEAN : timed = (q[r].opt.async /\ q[r].opt.timed)
    OBVIOUS
  <2> DEFINE z == [q[r] EXCEPT !.timer = timed, !.state = 1]
  <2>2. /\ z \in Closures /\ z.opt = q[r].opt /\ z.state = 1 /\ z.result = q[r].result
        /\ z.xhr = q[r].xhr /\ z.callback = q[r].callback
        /\ z.transport = q[r].transport /\ z.fireGlobals = q[r].fireGlobals
    <3>1. z = [[q[r] EXCEPT !.state = 1] EXCEPT !.timer = timed]
      BY <1>1 DEF Closures
    <3>2. [q[r] EXCEPT !.state = 1] \in Closures
      BY <1>1 DEF Closures
    <3>3. z \in Closures
      BY <3>1, <3>2 DEF Closures
    <3>4. QED
      BY <1>1, <3>3 DEF Closures
  <2>3. z = [q[r] EXCEPT !.timer = q[r].opt.async /\ q[r].opt.timed, !.state = 1]
    BY <2>1
  <2> HIDE DEF z
  <2>4. QED
    BY <2>2, <2>3
<1>4. "ajaxSend" \in CallPoints /\ "send" \in CallPoints /\ "send" \in Points
  BY DEF CallPoints, Points
<1>5. x.result = None /\ x.xhr = "unsent" /\ ~x.callback
  BY <1>2, <1>3 DEF Unsent
<1>6. CASE ~x.transport
  <2>1. "error" \in Causes
    BY DEF Causes, Answers
  <2>2. q[r].state # 2 /\ x.state # 2 /\ x.xhr # "out" /\ x.opt # None
    BY <1>2, <1>3, <1>5
  <2>3. Take(r, Front(stack), Done(r, x, "error"))
    BY <1>3, <1>6 DEF Send
  <2>4. QED
    BY <1>1, <1>3, <1>4, <2>1, <2>2, <2>3, TakeDone
<1>7. CASE x.transport
  <2>1. q' = [q EXCEPT ![r] = x] /\ Goto(r, "send") /\ q'[r] = x
    BY <1>1, <1>3, <1>7 DEF Send, TypeInv
  <2>2. Changes(r, Len(stack) - 1)
    BY <1>1, <1>3, <1>4, <2>1, GotoChanges
  <2>3. (r \in Counted)' <=> r \in Counted
    BY <1>2, <1>3, <2>1 DEF Counted
  <2>4. CounterInv' /\ active' \in Nat
    BY <1>1, <2>2, <2>3, SameCount DEF AjaxInv
  <2>5. FrameInv(r, "send")'
    BY <1>2, <1>3, <1>5, <2>1 DEF FrameInv, DonePoints
  <2>6. /\ x.opt = q[r].opt /\ x.result = None /\ x.state # 2 /\ ~(x.state = 0)
        /\ completes' = completes /\ q[r].state # 2
        /\ x.state = 1 => x.transport /\ x.xhr = "unsent" /\ ~x.callback /\ "send" = "send"
    BY <1>1, <1>2, <1>3, <1>5, <1>7
  <2>7. QED
    BY <1>1, <1>3, <1>4, <2>1, <2>4, <2>5, <2>6, CallMoves
<1>8. QED
  BY <1>6, <1>7

\* An asynchronous request is out.
LEMMA SendAsyncStep ==
    ASSUME AjaxInv, NEW r \in Requests, SendAsync(r)
    PROVE  AjaxInv'
<1>1. /\ TypeInv /\ q[r] \in Closures /\ At(r, "send") /\ Return
      /\ UNCHANGED <<active, shown, completes>>
  BY DEF AjaxInv, TypeInv, SendAsync
<1>2. q[r].opt # None /\ q[r].state = 1 /\ Out(r)
  BY <1>1, AtFrame DEF FrameInv, AjaxInv, StatesInv
<1>3. PICK y : /\ y = [q[r] EXCEPT !.callback = TRUE, !.xhr = "out"]
               /\ y \in Closures /\ y.opt = q[r].opt /\ y.state = 1 /\ y.result = q[r].result
               /\ y.xhr = "out" /\ y.callback
               /\ y.transport = q[r].transport /\ y.fireGlobals = q[r].fireGlobals
  <2> DEFINE z == [q[r] EXCEPT !.callback = TRUE, !.xhr = "out"]
  <2>1. /\ z \in Closures /\ z.opt = q[r].opt /\ z.state = 1 /\ z.result = q[r].result
        /\ z.xhr = "out" /\ z.callback
        /\ z.transport = q[r].transport /\ z.fireGlobals = q[r].fireGlobals
    BY <1>1, <1>2 DEF Closures
  <2>2. QED
    BY <2>1
<1>4. q' = [q EXCEPT ![r] = y] /\ q'[r] = y
  BY <1>1, <1>3 DEF SendAsync, TypeInv
<1>5. /\ Changes(r, Len(stack) - 1) /\ Len(stack') = Len(stack) - 1 /\ Len(stack) \in Nat \ {0}
  BY <1>1, <1>3, <1>4, ReturnChanges, AtFrame
<1>6. \A i \in 1..(Len(stack) - 1) : stack[i][1] # r
  <2>1. "send" \in CallPoints /\ q[r].state # 2
    BY <1>2 DEF CallPoints
  <2>2. QED
    BY <1>1, <2>1, OnlyFrame
<1>7. /\ ((Len(stack) - 1) + 1)..Len(stack') = {}
      /\ \A i \in 1..Len(stack') : stack'[i][1] # r
      /\ ~(Len(stack') > Len(stack))
  BY <1>5, <1>6 DEF Changes
<1>8. Out(r)'
  BY <1>2, <1>3, <1>4 DEF Out
<1>9. (r \in Counted)' <=> r \in Counted
  BY <1>2, <1>3, <1>4 DEF Counted
<1>10. CounterInv' /\ active' \in Nat
  BY <1>1, <1>5, <1>9, SameCount DEF AjaxInv
<1>11. completes[r] # 1 /\ completes' = completes /\ completes' \in [Requests -> 0..1]
  BY <1>1, <1>2 DEF AjaxInv, CompletesInv, TypeInv
<1>12. /\ q'[r].state = 0 => Unsent(r)'
       /\ q'[r].state = 1 => Out(r)'
       /\ q'[r].state = 2 => Over(r)'
       /\ \A u \in Requests : u # r => completes'[u] = completes[u]
       /\ \A i \in 1..Len(stack') : \A p : stack'[i] = <<r, p>> => FrameInv(r, p)'
       /\ \A i \in 1..(Len(stack) - 1) : \A j \in ((Len(stack) - 1) + 1)..Len(stack') :
              stack[i][1] = r => ~(stack[i][2] \in CallPoints <=> stack'[j][2] \in CallPoints)
       /\ \A j \in ((Len(stack) - 1) + 1)..Len(stack') : stack'[j][2] = "ajaxStop" => Counted' = {}
       /\ \/ q'[r].opt = q[r].opt /\ q'[r].fireGlobals = q[r].fireGlobals
          \/ \A i \in 1..(Len(stack) - 1) : stack[i][1] # r
       /\ Len(stack') > Len(stack) => PageRuns
       /\ (r \in Counted)' => r \in Counted \/ \A i \in 1..(Len(stack) - 1) : stack[i][1] # r
       /\ completes'[r] = 1 =>
              q'[r].state = 2 /\ ~HasFrame(r, {"settle", "ajaxResult", "complete"})'
  BY <1>3, <1>4, <1>6, <1>7, <1>8, <1>11
<1>13. QED
  BY <1>5, <1>10, <1>11, <1>12, RequestStep

\* A synchronous request is answered, or the XMLHttpRequest throws.
LEMMA SendEndsStep ==
    ASSUME AjaxInv, CarefulHandlers, NEW r \in Requests,
           SendThrows(r) \/ \E answer \in Answers : SendSync(r, answer)
    PROVE  AjaxInv'
<1>1. /\ TypeInv /\ q[r] \in Closures /\ At(r, "send")
      /\ UNCHANGED <<active, shown, completes>>
  BY DEF AjaxInv, TypeInv, SendThrows, SendSync
<1>2. q[r].opt # None /\ q[r].state = 1
  BY <1>1, AtFrame DEF FrameInv
<1>3. PICK cause \in Causes, callback \in BOOLEAN :
          Take(r, Front(stack),
               Done(r, [q[r] EXCEPT !.xhr = "over", !.callback = callback], cause))
  <2>1. CASE SendThrows(r)
    <3>1. "error" \in Causes
      BY DEF Causes, Answers
    <3>2. QED
      BY <2>1, <3>1 DEF SendThrows
  <2>2. CASE \E answer \in Answers : SendSync(r, answer)
    <3>1. PICK answer \in Answers :
              Take(r, Front(stack), Done(r, [q[r] EXCEPT !.xhr = "over"], answer))
      BY <2>2 DEF SendSync
    <3>2. [q[r] EXCEPT !.xhr = "over"] = [q[r] EXCEPT !.xhr = "over", !.callback = q[r].callback]
          /\ q[r].callback \in BOOLEAN
      BY <1>1 DEF Closures
    <3>3. answer \in Causes
      BY DEF Causes
    <3>4. QED
      BY <3>1, <3>2, <3>3
  <2>3. QED
    BY <2>1, <2>2
<1>4. PICK x : /\ x = [q[r] EXCEPT !.xhr = "over", !.callback = callback]
               /\ x \in Closures /\ x.opt = q[r].opt /\ x.state = 1
               /\ x.xhr = "over" /\ x.fireGlobals = q[r].fireGlobals
  <2> DEFINE z == [q[r] EXCEPT !.xhr = "over", !.callback = callback]
  <2>1. /\ z \in Closures /\ z.opt = q[r].opt /\ z.state = 1
        /\ z.xhr = "over" /\ z.fireGlobals = q[r].fireGlobals
    BY <1>1, <1>2 DEF Closures
  <2>2. QED
    BY <2>1
<1>5. q[r].state # 2 /\ x.state # 2 /\ x.xhr # "out" /\ x.opt # None /\ "send" \in CallPoints
  BY <1>2, <1>4 DEF CallPoints
<1>6. Take(r, Front(stack), Done(r, x, cause))
  BY <1>3, <1>4
<1>7. QED
  BY <1>1, <1>4, <1>5, <1>6, TakeDone

\* The page aborts a request it has made.
LEMMA PageAbortStep ==
    ASSUME AjaxInv, CarefulHandlers, NEW r \in Requests, Abort(r)
    PROVE  AjaxInv'
<1>1. q[r] \in Closures
  BY DEF AjaxInv, TypeInv
<1>2. q[r].strAbort \in Causes
  BY <1>1 DEF Closures, Causes
<1>3. QED
  BY <1>1, <1>2, AbortStep DEF Abort

\* The XMLHttpRequest has its answer.
LEMMA AnswerStep ==
    ASSUME AjaxInv, CarefulHandlers, NEW r \in Requests, NEW answer \in Answers,
           XhrAnswers(r, answer)
    PROVE  AjaxInv'
<1>1. /\ q[r] \in Closures /\ stack = <<>> /\ Idle /\ q[r].xhr = "out"
      /\ UNCHANGED <<active, shown, completes>>
  BY DEF AjaxInv, TypeInv, XhrAnswers, Idle
<1>2. q[r].state = 1 /\ q[r].callback /\ q[r].opt # None
  BY <1>1 DEF AjaxInv, StatesInv, Unsent, Over, Out, Closures
<1>3. PICK x : /\ x = [q[r] EXCEPT !.xhr = "over", !.callback = FALSE]
               /\ x \in Closures /\ x.opt = q[r].opt /\ x.state = 1
               /\ x.xhr = "over" /\ x.fireGlobals = q[r].fireGlobals
  <2> DEFINE z == [q[r] EXCEPT !.xhr = "over", !.callback = FALSE]
  <2>1. /\ z \in Closures /\ z.opt = q[r].opt /\ z.state = 1
        /\ z.xhr = "over" /\ z.fireGlobals = q[r].fireGlobals
    BY <1>1, <1>2 DEF Closures
  <2>2. QED
    BY <2>1
<1>4. Take(r, stack, Done(r, x, answer))
  BY <1>1, <1>2, <1>3 DEF XhrAnswers
<1>5. PageRuns /\ Within(r) \subseteq AbortPoints
  BY <1>1, IdleFrames
<1>6. /\ q[r].state # 2 /\ x.state # 2 /\ x.xhr # "out" /\ x.opt # None
      /\ answer \in Causes
  BY <1>2, <1>3 DEF Causes
<1>7. QED
  BY <1>1, <1>3, <1>4, <1>5, <1>6, TakeDone

\* The timer aborts the request.
LEMMA TimeoutStep ==
    ASSUME AjaxInv, CarefulHandlers, NEW r \in Requests, TimesOut(r)
    PROVE  AjaxInv'
<1>1. /\ q[r] \in Closures /\ stack = <<>> /\ Idle /\ q[r].timer
      /\ UNCHANGED <<active, shown, completes, thrown>>
  BY DEF AjaxInv, TypeInv, TimesOut, Idle
<1>2. q[r].opt # None
  BY <1>1 DEF AjaxInv, StatesInv, Unsent, Over, Out, Closures
<1>3. PICK z \in Closures : z = [q[r] EXCEPT !.timer = FALSE]
  BY <1>1 DEF Closures
<1>4. Take(r, stack, AbortOf(r, z, "timeout"))
  BY <1>1, <1>3 DEF TimesOut
<1>5. PageRuns /\ Within(r) \subseteq AbortPoints
  BY <1>1, IdleFrames
<1>6. "timeout" \in Causes
  BY DEF Causes
<1>7. QED
  BY <1>1, <1>2, <1>3, <1>4, <1>5, <1>6, AbortStep

\* A prefilter has aborted the request, or ajaxStop has been fired.
LEMMA ReturnStep ==
    ASSUME AjaxInv, NEW r \in Requests, StopEarly(r) \/ Stopped(r)
    PROVE  AjaxInv'
<1>1. PICK p \in {"prefilter", "ajaxStop"} :
          /\ At(r, p) /\ Return /\ UNCHANGED <<q, active, shown, completes>>
          /\ p = "prefilter" => q[r].state = 2
  BY DEF StopEarly, Stopped
<1>2. p \in Points /\ p \notin Uncounted /\ p # "ajaxComplete"
  BY DEF Points, CallPoints, DonePoints, Uncounted
<1>3. q[r].state = 2
  BY <1>1, AtFrame DEF FrameInv, DonePoints
<1>4. QED
  BY <1>1, <1>2, <1>3, Returns

\* The handlers of the outcome are through, or completeDeferred has fired, or
\* ajaxComplete is fired.
LEMMA ReportStep ==
    ASSUME AjaxInv, NEW r \in Requests,
           ReportResult(r) \/ Complete(r) \/ ReportComplete(r)
    PROVE  AjaxInv'
<1>1. TypeInv /\ q[r] \in Closures /\ q' = [q EXCEPT ![r] = q[r]] /\ UNCHANGED <<q, active, shown>>
  BY DEF AjaxInv, TypeInv, ReportResult, Complete, ReportComplete
<1>2. PICK p \in {"settle", "ajaxResult", "complete"},
           p1 \in {"ajaxResult", "complete", "ajaxComplete"} :
          /\ At(r, p) /\ Goto(r, p1)
          /\ p1 = "ajaxComplete" <=> p = "complete"
          /\ p # "complete" => completes' = completes
          /\ p = "complete" =>
                 completes' = IF q[r].fireGlobals THEN [completes EXCEPT ![r] = @ + 1] ELSE completes
  BY DEF ReportResult, Complete, ReportComplete
<1>3. /\ p \in DonePoints /\ p1 \in DonePoints /\ p \in Points /\ p1 \in Points
      /\ p \in Uncounted /\ p1 \in Uncounted /\ p1 # "ajaxStop"
  BY DEF DonePoints, Points, Uncounted
<1>4. HasFrame(r, {"settle", "ajaxResult", "complete"})
  BY <1>1, <1>2, AtFrame, TopFrames
<1>5. completes[r] = 0 /\ completes \in [Requests -> 0..1]
  BY <1>1, <1>4 DEF AjaxInv, CompletesInv, TypeInv
<1>6. /\ completes' \in [Requests -> 0..1]
      /\ \A u \in Requests : u # r => completes'[u] = completes[u]
      /\ p # "complete" => completes'[r] = 0
  BY <1>2, <1>5
<1>7. completes'[r] = 1 =>
          /\ p1 \notin {"settle", "ajaxResult", "complete"}
          /\ completes[r] = 1 \/ p = "complete"
  BY <1>2, <1>6
<1>8. Changes(r, Len(stack) - 1) /\ Len(stack') = Len(stack) /\ stack'[Len(stack)] = <<r, p1>>
  BY <1>1, <1>2, <1>3, GotoChanges
<1>9. (r \in Counted)' <=> r \in Counted
  <2>1. HasFrame(r, Uncounted)
    BY <1>1, <1>2, <1>3, AtFrame, TopFrames
  <2>2. Len(stack) \in ((Len(stack) - 1) + 1)..Len(stack') /\ stack'[Len(stack)][2] = p1
    BY <1>2, <1>8, AtFrame
  <2>3. HasFrame(r, Uncounted)'
    BY <1>1, <1>3, <1>8, <2>2, OwnFrames
  <2>4. QED
    BY <1>1, <2>1, <2>3 DEF Counted
<1>10. CounterInv' /\ active' \in Nat
  BY <1>1, <1>8, <1>9, SameCount DEF AjaxInv
<1>11. QED
  BY <1>1, <1>2, <1>3, <1>6, <1>7, <1>10, DoneMoves

\* The request is no longer counted, and the last one fires ajaxStop.
LEMMA DiscountStep ==
    ASSUME AjaxInv, NEW r \in Requests, Discount(r)
    PROVE  AjaxInv'
<1>1. /\ TypeInv /\ q[r] \in Closures /\ At(r, "ajaxComplete")
      /\ q' = [q EXCEPT ![r] = q[r]] /\ UNCHANGED <<q, completes>>
  BY DEF AjaxInv, TypeInv, Discount
<1>2. /\ stack # <<>> /\ stack[Len(stack)] = <<r, "ajaxComplete">> /\ Len(stack) \in Nat \ {0}
      /\ q[r].state = 2
  BY <1>1, AtFrame DEF FrameInv, DonePoints
<1>3. q[r].fireGlobals => r \in Counted
  BY <1>1, <1>2, TopFrames DEF Counted, Uncounted
<1>4. "ajaxComplete" \in DonePoints /\ "ajaxStop" \in DonePoints /\ "ajaxStop" \in Points
      /\ "ajaxComplete" \in Points /\ "ajaxStop" \notin Uncounted /\ "ajaxComplete" \in Uncounted
  BY DEF DonePoints, Points, Uncounted
<1>5. CASE q[r].fireGlobals /\ active = 1
  <2>1. Goto(r, "ajaxStop") /\ active' = 0 /\ shown' = shown - 1
    BY <1>5 DEF Discount
  <2>2. /\ Changes(r, Len(stack) - 1) /\ Len(stack') = Len(stack)
        /\ stack'[Len(stack)] = <<r, "ajaxStop">>
    BY <1>1, <1>4, <2>1, GotoChanges
  <2>3. ~HasFrame(r, Uncounted)'
    <3>1. ASSUME NEW i \in 1..(Len(stack) - 1), stack[i][1] = r PROVE stack[i][2] \notin Uncounted
      <4>1. stack[i][2] \in CallPoints
        BY <1>2, <1>4, <3>1, OtherKind DEF CallPoints, DonePoints, Points
      <4>2. QED
        BY <4>1 DEF CallPoints, Uncounted
    <3>2. \A j \in ((Len(stack) - 1) + 1)..Len(stack') : stack'[j][2] = "ajaxStop"
      BY <1>2, <2>2
    <3>3. QED
      BY <1>1, <1>4, <2>2, <3>1, <3>2, OwnFrames
  <2>4. ~(r \in Counted)'
    BY <1>1, <1>2, <2>3 DEF Counted
  <2>5. IsFiniteSet(Counted) /\ Cardinality(Counted') = Cardinality(Counted) - 1
    BY <1>1, <1>3, <1>5, <2>2, <2>4, CountedChanges
  <2>6. Cardinality(Counted) = 1 /\ shown = 1
    BY <1>5 DEF AjaxInv, CounterInv
  <2>7. Cardinality(Counted') = 0
    BY <2>5, <2>6
  <2>8. IsFiniteSet(Counted')
    <3>1. Counted' \subseteq Requests
      BY DEF Counted
    <3>2. QED
      BY <3>1, AjaxAssumption, FS_Subset
  <2>9. Counted' = {}
    BY <2>7, <2>8, FS_EmptySet
  <2>10. CounterInv' /\ active' \in Nat
    BY <2>1, <2>6, <2>7 DEF CounterInv
  <2>11. /\ completes' \in [Requests -> 0..1]
         /\ \A u \in Requests : u # r => completes'[u] = completes[u]
         /\ completes'[r] = 1 =>
               /\ "ajaxStop" \notin {"settle", "ajaxResult", "complete"}
               /\ completes[r] = 1 \/ "ajaxComplete" = "complete"
    BY <1>1 DEF TypeInv
  <2>12. QED
    BY <1>1, <1>4, <2>1, <2>9, <2>10, <2>11, DoneMoves
<1>6. CASE ~(q[r].fireGlobals /\ active = 1)
  <2>1. Return /\ UNCHANGED shown /\ active' = IF q[r].fireGlobals THEN active - 1 ELSE active
    BY <1>6 DEF Discount
  <2>2. q[r].fireGlobals => active > 1
    <3>1. ASSUME q[r].fireGlobals PROVE active # 0
      <4>1. IsFiniteSet(Counted) /\ Counted # {}
        BY <1>3, <3>1, AjaxAssumption, FS_Subset DEF Counted
      <4>2. QED
        BY <4>1, FS_EmptySet DEF AjaxInv, CounterInv
    <3>2. active \in Nat
      BY <1>1 DEF TypeInv
    <3>3. QED
      BY <1>6, <3>1, <3>2
  <2>3. QED
    BY <1>1, <1>2, <1>4, <2>1, <2>2, Returns
<1>7. QED
  BY <1>5, <1>6

\* A handler of ajaxStop throws: the calls that are left were not counted.
LEMMA ThrowStep ==
    ASSUME AjaxInv, CarefulHandlers, HandlerThrows
    PROVE  AjaxInv'
<1>1. /\ TypeInv /\ stack # <<>> /\ Top[2] = "ajaxStop" /\ stack' = <<>>
      /\ UNCHANGED <<q, active, shown, completes>>
  BY DEF AjaxInv, HandlerThrows, Idle, CarefulHandlers
<1>2. /\ Len(stack) \in Nat \ {0} /\ DOMAIN stack = 1..Len(stack)
      /\ stack[Len(stack)][2] = "ajaxStop"
  BY <1>1, EmptySeq DEF TypeInv, Top, Last
<1>3. DOMAIN stack' = {} /\ Len(stack') = 0
  BY <1>1
<1>4. \A r \in Requests : \A P : ~HasFrame(r, P)'
  BY <1>3 DEF HasFrame
<1>5. ASSUME NEW r \in Requests, NEW P, HasFrame(r, P), "ajaxStop" \notin P
      PROVE  /\ r \notin Counted
             /\ \E i \in 1..(Len(stack) - 1) : /\ stack[i][1] = r /\ stack[i][2] \in P
                                               /\ HandlersAt(r, stack[i][2])
  <2>1. PICK i \in DOMAIN stack : stack[i][1] = r /\ stack[i][2] \in P
    BY <1>5 DEF HasFrame
  <2>2. i < Len(stack) /\ i \in 1..(Len(stack) - 1) /\ Len(stack) \in DOMAIN stack
    BY <1>2, <1>5, <2>1, BelowTop
  <2>3. HandlersAt(r, stack[i][2])
    BY <2>1, <2>2 DEF AjaxInv, CalledByHandlers
  <2>4. r \notin Counted
    BY <1>2, <2>1, <2>2 DEF AjaxInv, StopsLast
  <2>5. QED
    BY <2>1, <2>2, <2>3, <2>4
<1>6. Counted' = Counted
  <2>1. ASSUME NEW r \in Requests, r \in Counted PROVE q[r].state # 2
    <3>1. ~HasFrame(r, Uncounted)
      BY <1>5, <2>1 DEF Uncounted
    <3>2. QED
      BY <2>1, <3>1 DEF Counted
  <2>2. \A r \in Requests : r \in Counted <=> q[r].fireGlobals /\ q[r].state # 2
    BY <2>1 DEF Counted
  <2>3. \A r \in Requests : (r \in Counted)' <=> q[r].fireGlobals /\ q[r].state # 2
    BY <1>1, <1>4 DEF Counted
  <2>4. Counted \subseteq Requests /\ Counted' \subseteq Requests
    BY DEF Counted
  <2>5. QED
    BY <2>2, <2>3, <2>4
<1>7. TypeInv'
  BY <1>1 DEF TypeInv
<1>8. StatesInv'
  <2>1. ASSUME NEW r \in Requests, q[r].state = 0 PROVE Unsent(r)'
    <3>1. Unsent(r)
      BY <2>1 DEF AjaxInv, StatesInv
    <3>2. ~q[r].fireGlobals
      <4>1. ASSUME q[r].fireGlobals PROVE FALSE
        <5>1. r \in Counted
          BY <2>1, <4>1 DEF Counted
        <5>2. HasFrame(r, {"ajaxStart", "beforeSend", "ajaxSend"})
          BY <3>1, <4>1 DEF Unsent
        <5>3. QED
          BY <1>5, <5>1, <5>2
      <4>2. QED
        BY <4>1
    <3>3. QED
      BY <1>1, <3>1, <3>2 DEF Unsent
  <2>2. ASSUME NEW r \in Requests, q[r].state = 1 PROVE Out(r)'
    <3>1. Out(r)
      BY <2>2 DEF AjaxInv, StatesInv
    <3>2. ~HasFrame(r, {"send"})
      <4>1. ASSUME HasFrame(r, {"send"}) PROVE FALSE
        <5>1. HandlersAt(r, "send")
          BY <1>5, <4>1
        <5>2. QED
          BY <5>1 DEF HandlersAt
      <4>2. QED
        BY <4>1
    <3>3. QED
      BY <1>1, <3>1, <3>2 DEF Out
  <2>3. ASSUME NEW r \in Requests, q[r].state = 2 PROVE Over(r)'
    BY <1>1, <2>3 DEF AjaxInv, StatesInv, Over
  <2>4. QED
    BY <1>1, <2>1, <2>2, <2>3 DEF StatesInv
<1>9. FramesInv' /\ FramesOnce' /\ CalledByHandlers' /\ StopsLast'
  BY <1>3 DEF FramesInv, FramesOnce, CalledByHandlers, StopsLast
<1>10. CounterInv'
  BY <1>1, <1>6 DEF AjaxInv, CounterInv
<1>11. CompletesInv'
  BY <1>1, <1>4 DEF AjaxInv, CompletesInv
<1>12. QED
  BY <1>7, <1>8, <1>9, <1>10, <1>11 DEF AjaxInv

\* No request has been made.
LEMMA AjaxStarts ==
    ASSUME Init
    PROVE  AjaxInv
<1>1. Fresh \in Closures /\ Fresh.state = 0 /\ ~Fresh.fireGlobals /\ Fresh.xhr = "unsent"
      /\ ~Fresh.callback /\ ~Fresh.timer /\ Fresh.result = None
  BY DEF Fresh, Closures
<1>2. \A r \in Requests : q[r] = Fresh
  BY DEF Init
<1>3. stack = <<>> /\ DOMAIN stack = {} /\ Len(stack) = 0
  BY DEF Init
<1>4. TypeInv
  BY <1>1 DEF Init, TypeInv
<1>5. StatesInv
  BY <1>1, <1>2 DEF StatesInv, Unsent
<1>6. FramesInv /\ FramesOnce /\ CalledByHandlers /\ StopsLast
  BY <1>3 DEF FramesInv, FramesOnce, CalledByHandlers, StopsLast
<1>7. Counted = {}
  BY <1>1, <1>2 DEF Counted
<1>8. CounterInv
  BY <1>7, FS_EmptySet DEF Init, CounterInv
<1>9. CompletesInv
  BY DEF Init, CompletesInv
<1>10. QED
  BY <1>4, <1>5, <1>6, <1>8, <1>9 DEF AjaxInv

\* Every step preserves the invariant.
LEMMA AjaxSteps ==
    ASSUME AjaxInv, CarefulHandlers, [Next]_vars
    PROVE  AjaxInv'
<1>1. ASSUME NEW r \in Requests, NEW opt \in Options, Call(r, opt) PROVE AjaxInv'
  BY <1>1, CallStep
<1>2. ASSUME NEW r \in Requests, Abort(r) PROVE AjaxInv'
  BY <1>2, PageAbortStep
<1>3. ASSUME NEW r \in Requests, Continue(r) PROVE AjaxInv'
  <2>1. CASE Count(r) \/ Prepare(r) \/ Cancel(r) \/ SetUp(r)
    BY <2>1, CountStep, PrepareStep, CancelStep, SetUpStep
  <2>2. CASE Send(r) \/ SendAsync(r)
    BY <2>2, SendStep, SendAsyncStep
  <2>3. CASE SendThrows(r) \/ \E answer \in Answers : SendSync(r, answer)
    BY <2>3, SendEndsStep
  <2>4. CASE StopEarly(r) \/ Stopped(r)
    BY <2>4, ReturnStep
  <2>5. CASE ReportResult(r) \/ Complete(r) \/ ReportComplete(r)
    BY <2>5, ReportStep
  <2>6. CASE Discount(r)
    BY <2>6, DiscountStep
  <2>7. QED
    BY <1>3, <2>1, <2>2, <2>3, <2>4, <2>5, <2>6 DEF Continue
<1>4. ASSUME NEW r \in Requests, TimesOut(r) PROVE AjaxInv'
  BY <1>4, TimeoutStep
<1>5. ASSUME NEW r \in Requests, NEW answer \in Answers, XhrAnswers(r, answer) PROVE AjaxInv'
  BY <1>5, AnswerStep
<1>6. CASE HandlerThrows
  BY <1>6, ThrowStep
<1>7. CASE UNCHANGED vars
  BY <1>7, AjaxStutters
<1>8. QED
  BY <1>1, <1>2, <1>3, <1>4, <1>5, <1>6, <1>7 DEF Next

\* The invariant of requests whose handlers are careful.
LEMMA AjaxInvariant == CarefulHandlers => (Spec => []AjaxInv)
<1>1. SUFFICES ASSUME CarefulHandlers PROVE Spec => []AjaxInv
  OBVIOUS
<1>2. Init => AjaxInv
  BY AjaxStarts
<1>3. AjaxInv /\ [Next]_vars => AjaxInv'
  BY <1>1, AjaxSteps
<1>4. QED
  BY <1>2, <1>3, PTL DEF Spec

-----------------------------------------------------------------------------
(* What follows from it.                                                   *)

\* jQuery.active is the number of requests that are out, and ajaxStart and
\* ajaxStop alternate, however requests end and whatever handlers do at the
\* points where the code stands it (ActiveCounts; jQuery.ajax and done).
THEOREM RequestsAreCounted == CarefulHandlers => (Spec => []ActiveCounts)
<1>1. AjaxInv => ActiveCounts
  <2>1. SUFFICES ASSUME AjaxInv PROVE ActiveCounts
    OBVIOUS
  <2>2. active \in Nat /\ active = Cardinality(Counted)
        /\ shown = (IF active > 0 THEN 1 ELSE 0)
    BY <2>1 DEF AjaxInv, TypeInv, CounterInv
  <2>3. ASSUME Idle
        PROVE  Counted = {r \in Requests : q[r].fireGlobals /\ q[r].state = 1}
    <3>1. ASSUME NEW r \in Requests
          PROVE  r \in Counted <=> q[r].fireGlobals /\ q[r].state = 1
      <4>1. /\ ~HasFrame(r, Uncounted) /\ q[r].state \in 0..2
            /\ q[r].state = 0 => ~q[r].fireGlobals
        BY <2>1, <2>3, IdleFrames DEF AjaxInv, TypeInv, Closures
      <4>2. QED
        BY <4>1 DEF Counted
    <3>2. QED
      BY <3>1 DEF Counted
  <2>4. Idle => active = Cardinality({r \in Requests : q[r].fireGlobals /\ q[r].state = 1})
    BY <2>2, <2>3, Zenon
  <2>5. shown = (IF active > 0 THEN 1 ELSE 0) /\ shown \in 0..1
    BY <2>2
  <2>6. QED
    BY <2>4, <2>5 DEF ActiveCounts
<1>2. QED
  BY <1>1, AjaxInvariant, PTL

\* Every request is completed once at most, and when it is done nothing of it is
\* left behind: no timer, no transport, no XMLHttpRequest (RequestInv; done,
\* abort and the callbacks of the transport).
THEOREM RequestsCleanUp == CarefulHandlers => (Spec => []RequestInv)
<1>1. AjaxInv => RequestInv
  <2>1. SUFFICES ASSUME AjaxInv PROVE RequestInv
    OBVIOUS
  <2>2. TypeOK
    <3>1. active \in 0..Cardinality(Requests)
      <4>1. Counted \subseteq Requests
        BY DEF Counted
      <4>2. /\ Cardinality(Counted) <= Cardinality(Requests)
            /\ Cardinality(Requests) \in Nat
        BY <4>1, AjaxAssumption, FS_Subset, FS_CardinalityType
      <4>3. QED
        BY <2>1, <4>2 DEF AjaxInv, CounterInv, TypeInv
    <3>2. \A r \in Requests : q[r] \in Closures
      BY <2>1 DEF AjaxInv, TypeInv
    <3>3. QED
      BY <2>1, <3>1, <3>2 DEF TypeOK, AjaxInv, TypeInv, Closures, Causes
  <2>3. CompleteOnce
    BY <2>1 DEF CompleteOnce, AjaxInv, TypeInv
  <2>4. NothingLeftBehind
    <3>1. ASSUME Idle, NEW r \in Requests
          PROVE  /\ q[r].state = 1 <=> q[r].xhr = "out"
                 /\ q[r].state = 1 => q[r].transport /\ q[r].callback
                 /\ q[r].timer => q[r].state = 1
      <4>1. q[r].state = 0 \/ q[r].state = 1 \/ q[r].state = 2
        BY <2>1 DEF AjaxInv, TypeInv, Closures
      <4>2. CASE q[r].state = 0
        BY <2>1, <4>2 DEF AjaxInv, StatesInv, Unsent
      <4>3. CASE q[r].state = 1
        BY <2>1, <3>1, <4>3, IdleFrames DEF AjaxInv, StatesInv, Out
      <4>4. CASE q[r].state = 2
        BY <2>1, <4>4 DEF AjaxInv, StatesInv, Over
      <4>5. QED
        BY <4>1, <4>2, <4>3, <4>4
    <3>2. QED
      BY <3>1 DEF NothingLeftBehind
  <2>5. QED
    BY <2>2, <2>3, <2>4 DEF RequestInv
<1>2. QED
  BY <1>1, AjaxInvariant, PTL

\* A step of one request leaves the others as they are, and its own as it is when
\* it is over.
LEMMA OverStays ==
    ASSUME AjaxInv, [Next]_vars, NEW r \in Requests, q[r].state = 2
    PROVE  q'[r] = q[r]
<1>1. q \in [Requests -> Closures] /\ Over(r)
  BY DEF AjaxInv, TypeInv, StatesInv
<1>2. q[r].opt # None /\ ~q[r].transport /\ ~q[r].timer /\ q[r].xhr # "out"
  BY <1>1 DEF Over
<1>3. ASSUME NEW u \in Requests, NEW y, q' = [q EXCEPT ![u] = y], u = r => y = q[r]
      PROVE  q'[r] = q[r]
  BY <1>1, <1>3
<1>4. ASSUME NEW u \in Requests, NEW s, NEW cause, Take(u, s, AbortOf(u, q[u], cause))
      PROVE  q'[r] = q[r]
  <2>1. q' = [q EXCEPT ![u] = AbortOf(u, q[u], cause)[1]]
    BY <1>4 DEF Take
  <2>2. u = r => AbortOf(u, q[u], cause)[1] = q[r]
    BY <1>2 DEF AbortOf, Done
  <2>3. QED
    BY <1>3, <2>1, <2>2
<1>5. ASSUME NEW u \in Requests, NEW s, NEW x, Take(u, s, x), u # r
      PROVE  q'[r] = q[r]
  BY <1>1, <1>5 DEF Take
<1>6. ASSUME NEW u \in Requests, Continue(u)
      PROVE  q'[r] = q[r]
  <2>1. CASE UNCHANGED q
    BY <2>1
  <2>2. CASE Count(u) \/ Send(u) \/ SendAsync(u) \/ SendThrows(u)
             \/ \E answer \in Answers : SendSync(u, answer)
    <3>1. u # r
      <4>1. PICK p \in {"prefilter", "ajaxSend", "send"} :
                At(u, p) /\ (p = "prefilter" => q[u].state # 2)
        BY <2>2 DEF Count, Send, SendAsync, SendThrows, SendSync
      <4>2. FrameInv(u, p)
        BY <4>1, AtFrame
      <4>3. QED
        BY <4>1, <4>2 DEF FrameInv
    <3>2. CASE Count(u) \/ SendAsync(u)
      BY <1>1, <3>1, <3>2 DEF Count, SendAsync
    <3>3. CASE Send(u)
      BY <1>1, <1>5, <3>1, <3>3 DEF Send
    <3>4. CASE SendThrows(u)
      BY <1>5, <3>1, <3>4 DEF SendThrows
    <3>5. CASE \E answer \in Answers : SendSync(u, answer)
      BY <1>5, <3>1, <3>5 DEF SendSync
    <3>6. QED
      BY <2>2, <3>2, <3>3, <3>4, <3>5
  <2>3. CASE Cancel(u)
    BY <1>4, <2>3 DEF Cancel
  <2>4. CASE SetUp(u)
    <3>1. u # r
      <4>1. FrameInv(u, "beforeSend")
        BY <2>4, AtFrame DEF SetUp
      <4>2. QED
        BY <2>4, <4>1 DEF SetUp, FrameInv
    <3>2. QED
      BY <1>1, <1>5, <2>4, <3>1 DEF SetUp
  <2>5. QED
    BY <1>6, <2>1, <2>2, <2>3, <2>4
    DEF Continue, StopEarly, Prepare, ReportResult, Complete, ReportComplete, Discount, Stopped
<1>7. ASSUME NEW u \in Requests, NEW opt \in Options, Call(u, opt)
      PROVE  q'[r] = q[r]
  BY <1>1, <1>2, <1>7 DEF Call
<1>8. ASSUME NEW u \in Requests, Abort(u)
      PROVE  q'[r] = q[r]
  BY <1>4, <1>8 DEF Abort
<1>9. ASSUME NEW u \in Requests, TimesOut(u)
      PROVE  q'[r] = q[r]
  BY <1>2, <1>5, <1>9 DEF TimesOut
<1>10. ASSUME NEW u \in Requests, NEW answer, XhrAnswers(u, answer)
       PROVE  q'[r] = q[r]
  BY <1>1, <1>2, <1>5, <1>10 DEF XhrAnswers
<1>11. CASE HandlerThrows \/ UNCHANGED vars
  BY <1>11 DEF HandlerThrows, vars
<1>12. QED
  BY <1>6, <1>7, <1>8, <1>9, <1>10, <1>11 DEF Next

\* The first cause that settles a request decides its result, whatever comes
\* after it (FirstCauseWins; the test of the state in done, and abort).
THEOREM FirstCauseDecides == CarefulHandlers => (Spec => FirstCauseWins)
<1>1. ASSUME AjaxInv, [Next]_vars, NEW r \in Requests, q[r].result # None
      PROVE  q'[r].result = q[r].result
  <2>1. q[r].state = 2
    <3>1. q[r].state = 0 \/ q[r].state = 1 \/ q[r].state = 2
      BY <1>1 DEF AjaxInv, TypeInv, Closures
    <3>2. q[r].state # 0 /\ q[r].state # 1
      BY <1>1 DEF AjaxInv, StatesInv, Unsent, Out
    <3>3. QED
      BY <3>1, <3>2
  <2>2. QED
    BY <1>1, <2>1, OverStays
<1>2. AjaxInv /\ [Next]_vars =>
          [\A r \in Requests : q[r].result # None => q'[r].result = q[r].result]_vars
  BY <1>1
<1>3. QED
  BY <1>2, AjaxInvariant, PTL DEF FirstCauseWins, Spec

-----------------------------------------------------------------------------
(* JSONP.                                                                  *)

\* The values of the variables.
ScriptTypes ==
    /\ window \in [Script!Names -> ScriptRequests \cup {"page", None}]
    /\ oldCallbacks \in Seq(Nat) /\ ajaxNonce \in Nat
    /\ \A i \in DOMAIN oldCallbacks : oldCallbacks[i] \in 1..ajaxNonce
    /\ name \in [ScriptRequests -> Script!Names]
    /\ transport \in [ScriptRequests -> {"tag", "xhr", None}]
    /\ overwritten \in [ScriptRequests -> ScriptRequests \cup {"page", None}]
    /\ result \in [ScriptRequests -> ScriptRequests \cup {"failed", None}]
    /\ script \subseteq ScriptRequests

Shares == "share" \in habits
Aborts == "abort" \in habits

\* What is known of one request: it has the function under its name while it is
\* open, unless the name is shared, and its script runs by then, unless requests are
\* aborted; it notes what was there for a name of the page's only.
Lender(r) ==
    /\ Script!Open(r) /\ Script!Kept(name[r]) => window[name[r]] = r
    /\ Script!Open(r) => \A i \in DOMAIN oldCallbacks : oldCallbacks[i] # name[r]
    /\ r \in script => transport[r] # None /\ (Aborts \/ Script!Open(r))
    /\ Script!Open(r) /\ transport[r] = "xhr" => r \in script
    /\ result[r] # None => transport[r] # None
    /\ overwritten[r] # None => Script!Open(r) /\ name[r] = Script!Shared
    /\ overwritten[r] \in ScriptRequests =>
           Shares /\ transport[overwritten[r]] # None /\ name[overwritten[r]] = Script!Shared
    /\ ~Aborts /\ Script!Kept(name[r]) => result[r] \in {r, "failed", None}
    /\ name[r] <= ajaxNonce

\* A function under a name is that of a request with that name, an open one if the
\* name is not shared, or the page's.
Lent(n) ==
    /\ window[n] \in ScriptRequests =>
           /\ transport[window[n]] # None /\ name[window[n]] = n
           /\ Script!Kept(n) => Script!Open(window[n])
    /\ window[n] = "page" => n = Script!Shared

\* Whether t, which the page was told, has the response v.
Heard(v, t) == \E i \in DOMAIN t : t[i] = v

\* The response v is in one place: its script is to run and is in s, or it is in one
\* container of c, or the page was told and has it in t, or a request ended with it.
InOnePlace(v, s, c, t) ==
    /\ v \in s => ~Heard(v, t) /\ \A r \in ScriptRequests : c[r] # v
    /\ \A r \in ScriptRequests : c[r] = v => transport[v] # None /\ ~Heard(v, t)
    /\ \A r, u \in ScriptRequests : c[r] = v /\ c[u] = v => r = u
    /\ Heard(v, t) => transport[v] # None
    /\ \A r \in ScriptRequests :
           result[r] = v =>
               /\ transport[v] # None
               /\ ~Shares => v \notin s /\ \A u \in ScriptRequests : c[u] # v
    /\ ~Shares => \A r, u \in ScriptRequests : result[r] = v /\ result[u] = v => r = u

\* The responses that are on their way, with the scripts s, the containers c and
\* what the page was told, t.
Delivery(s, c, t) ==
    /\ c \in [ScriptRequests -> ScriptRequests \cup {None}]
    /\ t \in Seq(ScriptRequests) /\ IsInjective(t)
    /\ \A r \in ScriptRequests :
           /\ transport[r] = None => c[r] = None
           /\ ~Aborts /\ Script!Kept(name[r]) => c[r] \in {r, None}
    /\ \A v \in ScriptRequests : InOnePlace(v, s, c, t)

\* The page's own function was told of every response under its name.
TellingInv ==
    ~Shares /\ Script!PageHasFunction =>
        \A r \in ScriptRequests : result[r] = r /\ name[r] = Script!Shared => Heard(r, told)

\* The inductive invariant of JSONP.
LendingInv ==
    /\ ScriptTypes
    /\ \A r \in ScriptRequests : Lender(r)
    /\ \A n \in Script!Names : Lent(n)
    /\ IsInjective(oldCallbacks)
    /\ Delivery(script, container, told)
    /\ TellingInv

\* No name is lent at first.
LEMMA LendingStarts ==
    ASSUME Script!Init
    PROVE  LendingInv
<1>1. 0 \in Script!Names
  <2>1. Script!Cardinality(ScriptRequests) = Cardinality(ScriptRequests)
    BY DEF Script!Cardinality, Cardinality
  <2>2. QED
    BY <2>1, PartsAssumption, FS_CardinalityType DEF Script!Names
<1>2. ScriptTypes
  BY <1>1 DEF Script!Init, ScriptTypes, Script!Shared
<1>3. DOMAIN oldCallbacks = {} /\ DOMAIN told = {} /\ told \in Seq(ScriptRequests)
  BY DEF Script!Init
<1>4. /\ None \notin ScriptRequests /\ "page" \notin ScriptRequests /\ None # "page"
      /\ "failed" # None
  BY PartsAssumption
<1>5. ASSUME NEW r \in ScriptRequests PROVE Lender(r)
  BY <1>3, <1>4 DEF Script!Init, Lender, Script!Open, Script!Shared
<1>6. ASSUME NEW n \in Script!Names PROVE Lent(n)
  BY <1>4 DEF Script!Init, Lent
<1>7. IsInjective(oldCallbacks) /\ IsInjective(told)
  BY <1>3 DEF IsInjective
<1>8. Delivery(script, container, told)
  <2>1. ASSUME NEW v \in ScriptRequests PROVE InOnePlace(v, script, container, told)
    BY <1>3, <1>4 DEF Script!Init, InOnePlace, Heard
  <2>2. QED
    BY <1>3, <1>7, <2>1 DEF Script!Init, Delivery
<1>9. TellingInv
  BY <1>4 DEF Script!Init, TellingInv
<1>10. QED
  BY <1>2, <1>5, <1>6, <1>7, <1>8, <1>9 DEF LendingInv

\* A name that a request may take is nobody's, unless it is shared.
LEMMA NameIsFree ==
    ASSUME LendingInv, NEW r \in ScriptRequests, NEW n \in Script!Names, NEW kind,
           Script!Start(r, n, kind)
    PROVE  /\ Script!Kept(n) => \A u \in ScriptRequests : Script!Open(u) => name[u] # n
           /\ oldCallbacks' \in Seq(Nat) /\ ajaxNonce' \in Nat
           /\ ajaxNonce <= ajaxNonce' /\ n <= ajaxNonce'
           /\ \A i \in DOMAIN oldCallbacks' :
                  /\ i \in DOMAIN oldCallbacks /\ oldCallbacks'[i] = oldCallbacks[i]
                  /\ oldCallbacks'[i] # n
           /\ IsInjective(oldCallbacks')
<1>1. /\ oldCallbacks \in Seq(Nat) /\ ajaxNonce \in Nat
      /\ \A i \in DOMAIN oldCallbacks : oldCallbacks[i] \in 1..ajaxNonce
      /\ IsInjective(oldCallbacks)
      /\ DOMAIN oldCallbacks = 1..Len(oldCallbacks) /\ Len(oldCallbacks) \in Nat
  BY DEF LendingInv, ScriptTypes
<1>2. oldCallbacks # <<>> =>
          /\ Len(oldCallbacks) \in 1..Len(oldCallbacks)
          /\ Last(oldCallbacks) = oldCallbacks[Len(oldCallbacks)]
          /\ Front(oldCallbacks) \in Seq(Nat)
          /\ DOMAIN Front(oldCallbacks) = 1..(Len(oldCallbacks) - 1)
          /\ \A i \in 1..(Len(oldCallbacks) - 1) :
                 Front(oldCallbacks)[i] = oldCallbacks[i] /\ i \in 1..Len(oldCallbacks)
                 /\ i # Len(oldCallbacks)
  <2>1. SUFFICES ASSUME oldCallbacks # <<>> PROVE
          /\ Len(oldCallbacks) \in 1..Len(oldCallbacks)
          /\ Last(oldCallbacks) = oldCallbacks[Len(oldCallbacks)]
          /\ Front(oldCallbacks) \in Seq(Nat)
          /\ DOMAIN Front(oldCallbacks) = 1..(Len(oldCallbacks) - 1)
          /\ \A i \in 1..(Len(oldCallbacks) - 1) :
                 Front(oldCallbacks)[i] = oldCallbacks[i] /\ i \in 1..Len(oldCallbacks)
                 /\ i # Len(oldCallbacks)
    OBVIOUS
  <2>2. Len(oldCallbacks) \in Nat \ {0}
    BY <1>1, <2>1, EmptySeq
  <2>3. /\ Front(oldCallbacks) \in Seq(Nat) /\ Len(Front(oldCallbacks)) = Len(oldCallbacks) - 1
        /\ \A i \in 1..(Len(oldCallbacks) - 1) : Front(oldCallbacks)[i] = oldCallbacks[i]
        /\ Last(oldCallbacks) = oldCallbacks[Len(oldCallbacks)]
    BY <1>1, <2>2, SubSeqProperties DEF Front, Last
  <2>4. QED
    BY <2>2, <2>3
<1>3. n = Script!Shared \/ (oldCallbacks # <<>> /\ n = Last(oldCallbacks))
      \/ (oldCallbacks = <<>> /\ n = ajaxNonce + 1)
  BY DEF Script!Start, Script!NewName, Script!Last, Last
<1>4. Script!Kept(n) => \A u \in ScriptRequests : Script!Open(u) => name[u] # n
  <2>1. SUFFICES ASSUME Script!Kept(n), NEW u \in ScriptRequests, Script!Open(u), name[u] = n
                 PROVE  FALSE
    OBVIOUS
  <2>2. Lender(u)
    BY DEF LendingInv
  <2>3. CASE n = Script!Shared
    BY <2>1, <2>3 DEF Script!Start, Script!Opened, Script!Kept
  <2>4. CASE oldCallbacks # <<>> /\ n = Last(oldCallbacks)
    BY <1>1, <1>2, <2>1, <2>2, <2>4 DEF Lender
  <2>5. CASE n = ajaxNonce + 1
    BY <1>1, <2>1, <2>2, <2>5 DEF Lender
  <2>6. QED
    BY <1>3, <2>3, <2>4, <2>5
<1>5. /\ ajaxNonce' \in Nat /\ ajaxNonce <= ajaxNonce' /\ n <= ajaxNonce'
  <2>1. /\ ajaxNonce' = IF n = ajaxNonce + 1 THEN n ELSE ajaxNonce
        /\ n \in Nat /\ n <= ajaxNonce + 1
    <3>1. ajaxNonce' = IF n = ajaxNonce + 1 THEN n ELSE ajaxNonce
      BY DEF Script!Start
    <3>2. CASE oldCallbacks # <<>> /\ n = Last(oldCallbacks)
      <4>1. n \in 1..ajaxNonce
        BY <1>1, <1>2, <3>2
      <4>2. QED
        BY <1>1, <3>1, <4>1
    <3>3. CASE n = 0 \/ n = ajaxNonce + 1
      BY <1>1, <3>1, <3>3
    <3>4. QED
      BY <1>3, <3>2, <3>3 DEF Script!Shared
  <2>2. QED
    BY <1>1, <2>1
<1>6. CASE oldCallbacks # <<>> /\ n = Last(oldCallbacks)
  <2>1. oldCallbacks' = Front(oldCallbacks)
    BY <1>6 DEF Script!Start, Script!FreeNamesWithout, Script!Last, Last, Script!Front, Front
  <2>2. \A i \in DOMAIN oldCallbacks' :
                  /\ i \in DOMAIN oldCallbacks /\ oldCallbacks'[i] = oldCallbacks[i]
                  /\ oldCallbacks'[i] # n
    BY <1>1, <1>2, <1>6, <2>1 DEF IsInjective
  <2>3. IsInjective(oldCallbacks')
    BY <1>1, <2>2 DEF IsInjective
  <2>4. QED
    BY <1>2, <1>4, <1>5, <1>6, <2>1, <2>2, <2>3
<1>7. CASE ~(oldCallbacks # <<>> /\ n = Last(oldCallbacks))
  <2>1. oldCallbacks' = oldCallbacks
    BY <1>7 DEF Script!Start, Script!FreeNamesWithout, Script!Last, Last
  <2>2. \A i \in DOMAIN oldCallbacks : oldCallbacks[i] # n
    <3>1. n = 0 \/ n = ajaxNonce + 1
      BY <1>3, <1>7 DEF Script!Shared
    <3>2. QED
      BY <1>1, <3>1
  <2>3. QED
    BY <1>1, <1>4, <1>5, <2>1, <2>2
<1>8. QED
  BY <1>6, <1>7

\* A request takes a name.
LEMMA StartStep ==
    ASSUME LendingInv, NEW r \in ScriptRequests, NEW n \in Script!Names,
           NEW kind \in {"tag", "xhr"}, Script!Start(r, n, kind)
    PROVE  LendingInv'
<1>1. /\ transport[r] = None
      /\ name' = [name EXCEPT ![r] = n]
      /\ overwritten' = [overwritten EXCEPT ![r] = window[n]]
      /\ window' = [window EXCEPT ![n] = r]
      /\ transport' = [transport EXCEPT ![r] = kind]
      /\ script' = script \cup {r}
      /\ UNCHANGED <<habits, container, result, told>>
  BY DEF Script!Start
<1>2. /\ Script!Kept(n) => \A u \in ScriptRequests : Script!Open(u) => name[u] # n
      /\ oldCallbacks' \in Seq(Nat) /\ ajaxNonce' \in Nat
      /\ ajaxNonce <= ajaxNonce' /\ n <= ajaxNonce'
      /\ \A i \in DOMAIN oldCallbacks' :
             /\ i \in DOMAIN oldCallbacks /\ oldCallbacks'[i] = oldCallbacks[i]
             /\ oldCallbacks'[i] # n
      /\ IsInjective(oldCallbacks')
  BY NameIsFree
<1>3. /\ ScriptTypes /\ Lender(r) /\ Lent(n) /\ Delivery(script, container, told)
      /\ None \notin ScriptRequests \cup {"page", "tag", "xhr"} /\ kind # None
      /\ "page" \notin ScriptRequests
  BY PartsAssumption DEF LendingInv
<1>4. /\ window[n] \in ScriptRequests \cup {"page", None}
      /\ window[n] = "page" => n = Script!Shared
      /\ window[n] \in ScriptRequests =>
             /\ Shares /\ n = Script!Shared /\ ~Script!Kept(n)
             /\ transport[window[n]] # None /\ name[window[n]] = n
  BY <1>2, <1>3 DEF Lent, ScriptTypes, Script!Kept, Shares
<1>5. /\ result[r] = None /\ container[r] = None /\ ~Script!Open(r) /\ r \notin script
  BY <1>1, <1>3 DEF Lender, Delivery, Script!Open
<1>6. /\ name'[r] = n /\ window'[n] = r /\ transport'[r] = kind /\ overwritten'[r] = window[n]
      /\ \A u \in ScriptRequests : u # r =>
             /\ name'[u] = name[u] /\ overwritten'[u] = overwritten[u]
             /\ transport'[u] = transport[u]
      /\ \A m \in Script!Names : m # n => window'[m] = window[m]
  BY <1>1, <1>3 DEF ScriptTypes
<1>7. ScriptTypes'
  <2>1. ASSUME NEW i \in DOMAIN oldCallbacks' PROVE oldCallbacks'[i] \in 1..ajaxNonce'
    <3>1. oldCallbacks'[i] \in 1..ajaxNonce /\ ajaxNonce \in Nat
      BY <1>2, <1>3 DEF ScriptTypes
    <3>2. QED
      BY <1>2, <3>1
  <2>2. /\ window' \in [Script!Names -> ScriptRequests \cup {"page", None}]
        /\ name' \in [ScriptRequests -> Script!Names]
    BY <1>1, <1>3 DEF ScriptTypes
  <2>3. /\ transport' \in [ScriptRequests -> {"tag", "xhr", None}]
        /\ overwritten' \in [ScriptRequests -> ScriptRequests \cup {"page", None}]
    BY <1>1, <1>3, <1>4 DEF ScriptTypes
  <2>4. QED
    BY <1>1, <1>2, <1>3, <2>1, <2>2, <2>3 DEF ScriptTypes
<1>8. /\ \A u \in ScriptRequests : Script!Open(u)' <=> Script!Open(u) \/ u = r
      /\ \A m : Script!Kept(m)' <=> Script!Kept(m)
      /\ (Shares' <=> Shares) /\ (Aborts' <=> Aborts)
  BY <1>1, <1>3, <1>5, <1>6 DEF Script!Open, Script!Kept, Shares, Aborts
<1>9. ASSUME NEW u \in ScriptRequests PROVE Lender(u)'
  <2>1. CASE u = r
    <3>1. overwritten'[r] \in ScriptRequests =>
              Shares /\ transport'[overwritten'[r]] # None
              /\ name'[overwritten'[r]] = Script!Shared
      BY <1>1, <1>4, <1>6
    <3>2. overwritten'[r] # None => n = Script!Shared
      BY <1>4, <1>6
    <3>3. QED
      BY <1>1, <1>2, <1>3, <1>5, <1>6, <1>8, <2>1, <3>1, <3>2 DEF Lender
  <2>2. CASE u # r
    <3>1. Lender(u)
      BY DEF LendingInv
    <3>2. Script!Open(u) /\ Script!Kept(name[u]) => name[u] \in Script!Names /\ name[u] # n
      BY <1>2, <1>3 DEF ScriptTypes
    <3>3. name[u] <= ajaxNonce'
      <4>1. name[u] <= ajaxNonce /\ name[u] \in Int /\ ajaxNonce \in Nat
        BY <1>3, <3>1 DEF Lender, ScriptTypes, Script!Names
      <4>2. QED
        BY <1>2, <4>1
    <3>4. overwritten[u] \in ScriptRequests =>
              Shares /\ transport'[overwritten[u]] # None /\ name'[overwritten[u]] = Script!Shared
      BY <1>1, <1>6, <3>1 DEF Lender
    <3>5. QED
      BY <1>1, <1>2, <1>6, <1>8, <2>2, <3>1, <3>2, <3>3, <3>4 DEF Lender
  <2>3. QED
    BY <2>1, <2>2
<1>10. ASSUME NEW m \in Script!Names PROVE Lent(m)'
  <2>1. CASE m = n
    BY <1>3, <1>6, <1>8, <2>1 DEF Lent
  <2>2. CASE m # n
    <3>1. Lent(m) /\ window'[m] = window[m]
      BY <1>6, <2>2 DEF LendingInv
    <3>2. window[m] \in ScriptRequests => window[m] # r
      BY <1>1, <3>1 DEF Lent
    <3>3. QED
      BY <1>6, <1>8, <3>1, <3>2 DEF Lent
  <2>3. QED
    BY <2>1, <2>2
<1>11. Delivery(script, container, told)'
  <2>1. ASSUME NEW v \in ScriptRequests PROVE InOnePlace(v, script, container, told)'
    <3>1. InOnePlace(v, script, container, told) /\ (transport[v] # None => transport'[v] # None)
      BY <1>1, <1>3, <1>6 DEF Delivery
    <3>2. CASE v = r
      BY <1>1, <1>8, <3>1, <3>2 DEF InOnePlace, Heard
    <3>3. CASE v # r
      BY <1>1, <1>8, <3>1, <3>3 DEF InOnePlace, Heard
    <3>4. QED
      BY <3>2, <3>3
  <2>2. ASSUME NEW u \in ScriptRequests
        PROVE  /\ transport'[u] = None => container'[u] = None
               /\ ~Aborts' /\ Script!Kept(name[u])' => container'[u] \in {u, None}
    BY <1>1, <1>3, <1>5, <1>6, <1>8 DEF Delivery
  <2>3. QED
    BY <1>1, <1>3, <2>1, <2>2 DEF Delivery, IsInjective
<1>12. TellingInv'
  <2>1. ASSUME ~Shares, Script!PageHasFunction' PROVE Script!PageHasFunction
    <3>1. CASE window[n] = "page"
      BY <1>4, <3>1 DEF Script!PageHasFunction
    <3>2. CASE window[n] # "page"
      <4>1. CASE window'[Script!Shared] = "page"
        <5>1. n # Script!Shared
          BY <1>3, <1>6, <4>1
        <5>2. window'[Script!Shared] = window[Script!Shared]
          BY <1>1, <1>3, <5>1 DEF ScriptTypes
        <5>3. QED
          BY <4>1, <5>2 DEF Script!PageHasFunction
      <4>2. CASE \E u \in Script!Opened' : overwritten'[u] = "page"
        BY <1>6, <1>8, <3>2, <4>2 DEF Script!PageHasFunction, Script!Opened
      <4>3. QED
        BY <2>1, <4>1, <4>2 DEF Script!PageHasFunction
    <3>3. QED
      BY <3>1, <3>2
  <2>2. \A u \in ScriptRequests : result[u] = u => u # r
    BY <1>3, <1>5
  <2>3. QED
    BY <1>1, <1>6, <1>8, <2>1, <2>2 DEF TellingInv, LendingInv, Heard
<1>13. QED
  BY <1>2, <1>7, <1>9, <1>10, <1>11, <1>12 DEF LendingInv

\* A response that was not told is told.
LEMMA TellsOne ==
    ASSUME NEW t \in Seq(ScriptRequests), IsInjective(t), NEW v \in ScriptRequests, ~Heard(v, t)
    PROVE  /\ Append(t, v) \in Seq(ScriptRequests) /\ IsInjective(Append(t, v))
           /\ \A w : Heard(w, Append(t, v)) <=> Heard(w, t) \/ w = v
<1> DEFINE u == Append(t, v)
<1>1. /\ u \in Seq(ScriptRequests) /\ Len(t) \in Nat /\ DOMAIN t = 1..Len(t)
      /\ DOMAIN u = 1..(Len(t) + 1)
      /\ u[Len(t) + 1] = v /\ \A i \in 1..Len(t) : u[i] = t[i]
  OBVIOUS
<1>2. \A i \in 1..(Len(t) + 1) : i \in 1..Len(t) \/ i = Len(t) + 1
  BY <1>1
<1>3. /\ \A i \in 1..Len(t) : i \in 1..(Len(t) + 1)
      /\ Len(t) + 1 \in 1..(Len(t) + 1)
  BY <1>1
<1> HIDE DEF u
<1>4. IsInjective(u)
  BY <1>1, <1>2 DEF IsInjective, Heard
<1>5. \A w : Heard(w, u) <=> Heard(w, t) \/ w = v
  BY <1>1, <1>2, <1>3 DEF Heard
<1>6. QED
  BY <1>1, <1>4, <1>5 DEF u

\* A function under a name is called with the response v, which is nowhere else by
\* now: it goes to a container, or to the page.
LEMMA ResponseComes ==
    ASSUME LendingInv, NEW v \in script,
           NEW c, c = Script!Filled(window[name[v]], v, container),
           NEW t, t = Script!Told(window[name[v]], v, told)
    PROVE  Delivery(script \ {v}, c, t) /\ \A w : Heard(w, told) => Heard(w, t)
<1> DEFINE f == window[name[v]]
           s == script \ {v}
<1>1. /\ v \in ScriptRequests /\ ScriptTypes /\ Delivery(script, container, told)
      /\ Lender(v) /\ Lent(name[v]) /\ name[v] \in Script!Names
      /\ None \notin ScriptRequests /\ "page" \notin ScriptRequests
  <2>1. v \in ScriptRequests /\ name[v] \in Script!Names
    BY DEF LendingInv, ScriptTypes
  <2>2. QED
    BY <2>1, PartsAssumption DEF LendingInv
<1>2. /\ transport[v] # None /\ ~Heard(v, told)
      /\ \A u \in ScriptRequests : container[u] # v
      /\ ~Shares => \A u \in ScriptRequests : result[u] # v
  BY <1>1 DEF Lender, Delivery, InOnePlace
<1>3. CASE f \in ScriptRequests
  <2>1. c = [container EXCEPT ![f] = v] /\ t = told
    BY <1>1, <1>3 DEF Script!Filled, Script!Told
  <2>2. /\ c \in [ScriptRequests -> ScriptRequests \cup {None}] /\ c[f] = v
        /\ \A u \in ScriptRequests : u # f => c[u] = container[u]
    BY <1>1, <1>3, <2>1 DEF Delivery
  <2>3. transport[f] # None /\ name[f] = name[v]
    BY <1>1, <1>3 DEF Lent
  <2>4. ~Aborts /\ Script!Kept(name[f]) => f = v
    BY <1>1, <2>3 DEF Lender
  <2>5. ASSUME NEW u \in ScriptRequests
        PROVE  /\ transport[u] = None => c[u] = None
               /\ ~Aborts /\ Script!Kept(name[u]) => c[u] \in {u, None}
    BY <1>1, <2>2, <2>3, <2>4 DEF Delivery
  <2>6. ASSUME NEW w \in ScriptRequests PROVE InOnePlace(w, s, c, t)
    <3>1. InOnePlace(w, script, container, told)
      BY <1>1 DEF Delivery
    <3>2. CASE w = v
      BY <1>2, <2>1, <2>2, <3>1, <3>2 DEF InOnePlace
    <3>3. CASE w # v
      BY <2>1, <2>2, <3>1, <3>3 DEF InOnePlace
    <3>4. QED
      BY <3>2, <3>3
  <2>7. QED
    BY <1>1, <2>1, <2>2, <2>5, <2>6 DEF Delivery
<1>4. CASE f = "page"
  <2>1. c = container /\ t = Append(told, v)
    BY <1>1, <1>4 DEF Script!Filled, Script!Told
  <2>2. /\ t \in Seq(ScriptRequests) /\ IsInjective(t)
        /\ \A w : Heard(w, t) <=> Heard(w, told) \/ w = v
    BY <1>1, <1>2, <2>1, TellsOne DEF Delivery
  <2>3. ASSUME NEW w \in ScriptRequests PROVE InOnePlace(w, s, c, t)
    <3>1. InOnePlace(w, script, container, told)
      BY <1>1 DEF Delivery
    <3>2. CASE w = v
      BY <1>2, <2>1, <2>2, <3>1, <3>2 DEF InOnePlace
    <3>3. CASE w # v
      BY <2>1, <2>2, <3>1, <3>3 DEF InOnePlace
    <3>4. QED
      BY <3>2, <3>3
  <2>4. QED
    BY <1>1, <2>1, <2>2, <2>3 DEF Delivery
<1>5. CASE f \notin ScriptRequests /\ f # "page"
  <2>1. c = container /\ t = told
    BY <1>5 DEF Script!Filled, Script!Told
  <2>2. ASSUME NEW w \in ScriptRequests PROVE InOnePlace(w, s, c, t)
    BY <1>1, <2>1 DEF Delivery, InOnePlace
  <2>3. QED
    BY <1>1, <2>1, <2>2 DEF Delivery
<1>6. QED
  BY <1>3, <1>4, <1>5

\* The script of a request runs.
LEMMA ScriptRunsStep ==
    ASSUME LendingInv, NEW r \in ScriptRequests, Script!ScriptRuns(r)
    PROVE  LendingInv'
<1>1. /\ r \in script /\ script' = script \ {r} /\ transport[r] = "tag"
      /\ container' = Script!Filled(window[name[r]], r, container)
      /\ told' = Script!Told(window[name[r]], r, told)
      /\ UNCHANGED <<habits, window, oldCallbacks, ajaxNonce, name, transport, overwritten,
                     result>>
  BY DEF Script!ScriptRuns
<1>2. /\ Delivery(script \ {r}, container', told')
      /\ \A w : Heard(w, told) => Heard(w, told')
  BY <1>1, ResponseComes
<1>3. Delivery(script, container, told)'
  <2>1. ASSUME NEW v \in ScriptRequests PROVE InOnePlace(v, script, container, told)'
    <3>1. InOnePlace(v, script \ {r}, container', told')
      BY <1>2 DEF Delivery
    <3>2. QED
      BY <1>1, <3>1 DEF InOnePlace, Heard, Shares
  <2>2. QED
    BY <1>1, <1>2, <2>1 DEF Delivery, IsInjective, Aborts, Script!Kept
<1>4. ScriptTypes'
  BY <1>1 DEF LendingInv, ScriptTypes
<1>5. ASSUME NEW u \in ScriptRequests PROVE Lender(u)'
  <2>1. Lender(u)
    BY DEF LendingInv
  <2>2. QED
    BY <1>1, <2>1 DEF Lender, Script!Open, Script!Kept, Shares, Aborts
<1>6. ASSUME NEW m \in Script!Names PROVE Lent(m)'
  BY <1>1 DEF LendingInv, Lent, Script!Open, Script!Kept
<1>7. TellingInv'
  <2>1. TellingInv /\ (Script!PageHasFunction' <=> Script!PageHasFunction) /\ (Shares' <=> Shares)
    BY <1>1 DEF LendingInv, Script!PageHasFunction, Script!Opened, Script!Open, Shares
  <2>2. \A u : Heard(u, told) => Heard(u, told)'
    BY <1>2 DEF Heard
  <2>3. QED
    BY <1>1, <2>1, <2>2 DEF TellingInv
<1>8. IsInjective(oldCallbacks)'
  BY <1>1 DEF LendingInv, IsInjective
<1>9. QED
  BY <1>3, <1>4, <1>5, <1>6, <1>7, <1>8 DEF LendingInv

\* The request ends, when c is in the containers and the page was told t.
LEMMA EndStep ==
    ASSUME LendingInv, NEW r \in ScriptRequests, Script!Open(r), NEW success \in BOOLEAN,
           NEW c, NEW t, Script!End(r, success, c, t), script' \in {script, script \ {r}},
           Aborts \/ r \notin script',
           Delivery(script', c, t), \A v : Heard(v, told) => Heard(v, t)
    PROVE  LendingInv'
<1>1. /\ ScriptTypes /\ Lender(r) /\ r \notin {"page", "nobody", "failed", None}
      /\ None \notin {"page", "nobody", "failed"} /\ "page" \notin ScriptRequests
      /\ "failed" \notin ScriptRequests /\ "nobody" \notin ScriptRequests
      /\ None \notin ScriptRequests
  BY PartsAssumption DEF LendingInv
<1>2. /\ c \in [ScriptRequests -> ScriptRequests \cup {None}]
      /\ t \in Seq(ScriptRequests) /\ IsInjective(t)
  BY DEF Delivery
<1>3. /\ name[r] \in Script!Names /\ result[r] = None /\ transport[r] # None
      /\ Script!Kept(name[r]) => window[name[r]] = r
      /\ overwritten[r] \in ScriptRequests \cup {"page", None}
      /\ overwritten[r] # None => name[r] = Script!Shared
  BY <1>1 DEF Lender, ScriptTypes, Script!Open
<1>4. PICK outcome \in {c[r], "failed"} :
          /\ result' = [result EXCEPT ![r] = outcome]
          /\ outcome # None
  <2>1. result' = [result EXCEPT ![r] = IF success /\ c[r] # None THEN c[r] ELSE "failed"]
    BY DEF Script!End
  <2>2. CASE success /\ c[r] # None
    BY <2>1, <2>2
  <2>3. CASE ~(success /\ c[r] # None)
    <3>1. result' = [result EXCEPT ![r] = "failed"]
      BY <2>1, <2>3
    <3>2. QED
      BY <1>1, <3>1
  <2>4. QED
    BY <2>2, <2>3
<1>5. /\ window' = [window EXCEPT ![name[r]] = overwritten[r]]
      /\ overwritten' = [overwritten EXCEPT ![r] = None]
      /\ UNCHANGED <<habits, ajaxNonce, name, transport>>
  BY DEF Script!End, Script!PutBack
<1>6. /\ result'[r] = outcome /\ overwritten'[r] = None
      /\ window'[name[r]] = overwritten[r]
      /\ \A u \in ScriptRequests : u # r => result'[u] = result[u] /\ overwritten'[u] = overwritten[u]
      /\ \A m \in Script!Names : m # name[r] => window'[m] = window[m]
  BY <1>1, <1>3, <1>4, <1>5 DEF ScriptTypes
<1>7. /\ \A u \in ScriptRequests : Script!Open(u)' <=> Script!Open(u) /\ u # r
      /\ \A m : Script!Kept(m)' <=> Script!Kept(m)
      /\ (Shares' <=> Shares) /\ (Aborts' <=> Aborts)
  BY <1>4, <1>5, <1>6 DEF Script!Open, Script!Kept, Shares, Aborts
<1>8. PICK calls \in ScriptRequests \cup {"page", "nobody", None} :
          /\ container' = [Script!Filled(calls, c[r], c) EXCEPT ![r] = None]
          /\ told' = Script!Told(calls, c[r], t)
          /\ calls \notin {"nobody", None} => c[r] # None /\ calls = overwritten[r]
          /\ c[r] # None => calls = overwritten[r]
  <2>1. /\ Script!TellsNext(r, c) = IF c[r] = None THEN "nobody" ELSE overwritten[r]
        /\ container' = [Script!Filled(Script!TellsNext(r, c), c[r], c) EXCEPT ![r] = None]
        /\ told' = Script!Told(Script!TellsNext(r, c), c[r], t)
    BY DEF Script!End, Script!TellsNext
  <2>2. QED
    BY <1>3, <2>1
<1>9. /\ oldCallbacks \in Seq(Nat) /\ Len(oldCallbacks) \in Nat
      /\ DOMAIN oldCallbacks = 1..Len(oldCallbacks)
      /\ \A i \in DOMAIN oldCallbacks : oldCallbacks[i] # name[r] /\ oldCallbacks[i] \in 1..ajaxNonce
      /\ IsInjective(oldCallbacks) /\ ajaxNonce \in Nat
  BY <1>1 DEF ScriptTypes, Lender, LendingInv
<1>10. /\ oldCallbacks' \in Seq(Nat)
       /\ \A i \in DOMAIN oldCallbacks' :
              \/ i \in DOMAIN oldCallbacks /\ oldCallbacks'[i] = oldCallbacks[i]
              \/ /\ oldCallbacks'[i] = name[r] /\ name[r] \in 1..ajaxNonce
                 /\ name[r] # Script!Shared
       /\ IsInjective(oldCallbacks')
  <2>1. CASE name[r] = Script!Shared
    BY <1>9, <2>1 DEF Script!End, Script!Freed
  <2>2. CASE name[r] # Script!Shared
    <3>1. name[r] \in 1..ajaxNonce
      BY <1>1, <1>3, <1>9, <2>2 DEF Lender, Script!Names, Script!Shared
    <3>2. oldCallbacks' = Append(oldCallbacks, name[r])
      BY <2>2 DEF Script!End, Script!Freed
    <3>3. /\ oldCallbacks' \in Seq(Nat) /\ Len(oldCallbacks') = Len(oldCallbacks) + 1
          /\ DOMAIN oldCallbacks' = 1..(Len(oldCallbacks) + 1)
          /\ oldCallbacks'[Len(oldCallbacks) + 1] = name[r]
          /\ \A i \in 1..Len(oldCallbacks) : oldCallbacks'[i] = oldCallbacks[i]
      BY <1>9, <3>1, <3>2
    <3>4. \A i \in 1..(Len(oldCallbacks) + 1) : i \in 1..Len(oldCallbacks) \/ i = Len(oldCallbacks) + 1
      BY <1>9
    <3>5. IsInjective(oldCallbacks')
      BY <1>9, <3>3, <3>4 DEF IsInjective
    <3>6. QED
      BY <1>9, <2>2, <3>1, <3>3, <3>4, <3>5
  <2>3. QED
    BY <2>1, <2>2
<1>11. ScriptTypes'
  <2>1. /\ window' \in [Script!Names -> ScriptRequests \cup {"page", None}]
        /\ overwritten' \in [ScriptRequests -> ScriptRequests \cup {"page", None}]
        /\ result' \in [ScriptRequests -> ScriptRequests \cup {"failed", None}]
    BY <1>1, <1>2, <1>3, <1>4, <1>5 DEF ScriptTypes
  <2>2. QED
    BY <1>1, <1>5, <1>9, <1>10, <2>1 DEF ScriptTypes
<1>12. ASSUME NEW u \in ScriptRequests, u # r, Script!Open(u), Script!Kept(name[u])
       PROVE  name[u] # name[r]
  BY <1>3, <1>12 DEF LendingInv, Lender
<1>13. ASSUME NEW u \in ScriptRequests PROVE Lender(u)'
  <2>1. Lender(u) /\ name[u] \in Script!Names
    BY <1>1 DEF LendingInv, ScriptTypes
  <2>2. Script!Open(u)' => \A i \in DOMAIN oldCallbacks' : oldCallbacks'[i] # name'[u]
    BY <1>5, <1>7, <1>10, <1>12, <2>1 DEF Lender, Script!Kept
  <2>3. /\ u \in script' => transport'[u] # None /\ (Aborts' \/ Script!Open(u)')
        /\ Script!Open(u)' /\ transport'[u] = "xhr" => u \in script'
    BY <1>5, <1>7, <2>1 DEF Lender
  <2>4. ~Aborts /\ Script!Kept(name[u]) => result'[u] \in {u, "failed", None}
    BY <1>1, <1>4, <1>6, <2>1 DEF Lender, Delivery
  <2>5. result'[u] # None => transport'[u] # None
    BY <1>3, <1>5, <1>6, <2>1 DEF Lender
  <2>6. CASE u = r
    BY <1>1, <1>5, <1>6, <1>7, <2>1, <2>2, <2>3, <2>4, <2>5, <2>6 DEF Lender
  <2>7. CASE u # r
    <3>1. Script!Open(u)' /\ Script!Kept(name[u])' => window'[name'[u]] = u
      BY <1>5, <1>6, <1>7, <1>12, <2>1, <2>7 DEF Lender
    <3>2. QED
      BY <1>5, <1>6, <1>7, <2>1, <2>2, <2>3, <2>4, <2>5, <2>7, <3>1 DEF Lender
  <2>8. QED
    BY <2>6, <2>7
<1>14. ASSUME NEW m \in Script!Names PROVE Lent(m)'
  <2>1. Lent(m)
    BY DEF LendingInv
  <2>2. CASE m = name[r]
    <3>1. overwritten[r] \in ScriptRequests =>
              Shares /\ transport[overwritten[r]] # None /\ name[overwritten[r]] = Script!Shared
      BY <1>1 DEF Lender
    <3>2. Shares /\ name[r] = Script!Shared => ~Script!Kept(name[r])
      BY DEF Shares, Script!Kept
    <3>3. QED
      BY <1>1, <1>3, <1>5, <1>6, <1>7, <2>2, <3>1, <3>2 DEF Lent
  <2>3. CASE m # name[r]
    BY <1>5, <1>6, <1>7, <2>1, <2>3 DEF Lent
  <2>4. QED
    BY <2>2, <2>3
<1>15. Delivery(script, container, told)'
  <2>1. /\ container' \in [ScriptRequests -> ScriptRequests \cup {None}]
        /\ container'[r] = None
        /\ \A u \in ScriptRequests : u # r =>
               container'[u] = IF u = calls THEN c[r] ELSE c[u]
    <3>1. CASE calls \in ScriptRequests
      BY <1>2, <1>8, <3>1 DEF Script!Filled
    <3>2. CASE calls \notin ScriptRequests
      BY <1>2, <1>8, <3>2 DEF Script!Filled
    <3>3. QED
      BY <3>1, <3>2
  <2>2. /\ told' \in Seq(ScriptRequests) /\ IsInjective(told')
        /\ \A w : Heard(w, told') <=> Heard(w, t) \/ (calls = "page" /\ w = c[r])
    <3>1. CASE calls = "page"
      <4>1. told' = Append(t, c[r]) /\ c[r] \in ScriptRequests
        BY <1>1, <1>2, <1>8, <3>1 DEF Script!Told
      <4>2. ~Heard(c[r], t)
        BY <4>1 DEF Delivery, InOnePlace
      <4>3. QED
        BY <1>2, <3>1, <4>1, <4>2, TellsOne
    <3>2. CASE calls # "page"
      BY <1>2, <1>8, <3>2 DEF Script!Told
    <3>3. QED
      BY <3>1, <3>2
  <2>3. calls \in ScriptRequests =>
            /\ Shares /\ transport[calls] # None /\ ~Script!Kept(name[calls])
            /\ c[r] \in ScriptRequests
    BY <1>1, <1>2, <1>8 DEF Lender, Shares, Script!Kept
  <2>4. ASSUME NEW u \in ScriptRequests
        PROVE  /\ transport'[u] = None => container'[u] = None
               /\ ~Aborts' /\ Script!Kept(name[u])' => container'[u] \in {u, None}
    <3>1. /\ transport[u] = None => c[u] = None
          /\ ~Aborts /\ Script!Kept(name[u]) => c[u] \in {u, None}
      BY DEF Delivery
    <3>2. QED
      BY <1>5, <1>7, <2>1, <2>3, <3>1
  <2>5. ASSUME NEW w \in ScriptRequests PROVE InOnePlace(w, script, container, told)'
    <3>1. InOnePlace(w, script', c, t)
      BY DEF Delivery
    <3>2. /\ transport' = transport /\ (Shares' <=> Shares)
          /\ \A u \in ScriptRequests : u # r => result'[u] = result[u]
          /\ result'[r] = outcome /\ outcome \in {c[r], "failed"} /\ w # "failed"
          /\ w # None
      BY <1>1, <1>4, <1>5, <1>6, <1>7
    <3>3. /\ w \in script' => ~Heard(w, told') /\ \A u \in ScriptRequests : container'[u] # w
          /\ Heard(w, told') => transport[w] # None
      BY <2>1, <2>2, <3>1, <3>2 DEF InOnePlace
    <3>4. ASSUME NEW u \in ScriptRequests, container'[u] = w
          PROVE  /\ transport[w] # None /\ ~Heard(w, told')
                 /\ \A x \in ScriptRequests : container'[x] = w => u = x
      <4>1. u # r /\ (c[u] = w \/ (u = calls /\ c[r] = w))
        BY <2>1, <3>2, <3>4
      <4>2. QED
        BY <1>1, <2>1, <2>2, <3>1, <3>2, <3>4, <4>1 DEF InOnePlace
    <3>5. ASSUME NEW u \in ScriptRequests, result'[u] = w
          PROVE  /\ transport[w] # None
                 /\ ~Shares =>
                       /\ w \notin script' /\ \A x \in ScriptRequests : container'[x] # w
                       /\ \A x \in ScriptRequests : result'[x] = w => u = x
      <4>1. CASE u = r
        BY <2>1, <2>3, <3>1, <3>2, <3>5, <4>1 DEF InOnePlace
      <4>2. CASE u # r
        BY <2>1, <2>3, <3>1, <3>2, <3>5, <4>2 DEF InOnePlace
      <4>3. QED
        BY <4>1, <4>2
    <3>6. QED
      BY <3>2, <3>3, <3>4, <3>5 DEF InOnePlace, Heard
  <2>6. QED
    BY <1>5, <1>7, <2>1, <2>2, <2>4, <2>5 DEF Delivery
<1>16. TellingInv'
  <2>1. ASSUME ~Shares, Script!PageHasFunction'
        PROVE  Script!PageHasFunction /\ (name[r] = Script!Shared => overwritten[r] = "page")
    <3>1. \A u \in ScriptRequests : u # r /\ Script!Open(u) /\ overwritten[u] = "page"
              => name[r] # Script!Shared
      BY <1>1, <1>12, <2>1 DEF LendingInv, Lender, Script!Kept, Shares
    <3>2. CASE \E u \in Script!Opened' : overwritten'[u] = "page"
      <4>1. PICK u \in ScriptRequests : u # r /\ Script!Open(u) /\ overwritten[u] = "page"
        BY <1>6, <1>7, <3>2 DEF Script!Opened
      <4>2. QED
        BY <3>1, <4>1 DEF Script!PageHasFunction, Script!Opened
    <3>3. CASE window'[Script!Shared] = "page"
      <4>1. CASE name[r] = Script!Shared
        BY <1>6, <3>3, <4>1 DEF Script!PageHasFunction, Script!Opened
      <4>2. CASE name[r] # Script!Shared
        <5>1. window'[Script!Shared] = window[Script!Shared]
          BY <1>1, <1>5, <4>2 DEF ScriptTypes
        <5>2. QED
          BY <3>3, <4>2, <5>1 DEF Script!PageHasFunction
      <4>3. QED
        BY <4>1, <4>2
    <3>4. QED
      BY <2>1, <3>2, <3>3 DEF Script!PageHasFunction
  <2>2. ASSUME ~Shares, Script!PageHasFunction', NEW u \in ScriptRequests, result'[u] = u,
               name'[u] = Script!Shared
        PROVE  Heard(u, told')
    <3>1. \A w : Heard(w, told) => Heard(w, told')
      <4>1. CASE calls = "page"
        BY <1>1, <1>2, <1>8, <4>1, TellsOne DEF Script!Told, Delivery, InOnePlace
      <4>2. CASE calls # "page"
        BY <1>8, <4>2 DEF Script!Told
      <4>3. QED
        BY <4>1, <4>2
    <3>2. CASE u = r
      <4>1. c[r] = r /\ overwritten[r] = "page"
        BY <1>1, <1>4, <1>5, <1>6, <2>1, <2>2, <3>2
      <4>2. told' = Append(t, r) /\ ~Heard(r, t)
        BY <1>1, <1>8, <4>1 DEF Script!Told, Delivery, InOnePlace
      <4>3. QED
        BY <1>2, <3>2, <4>2, TellsOne
    <3>3. CASE u # r
      BY <1>5, <1>6, <2>1, <2>2, <3>1, <3>3 DEF LendingInv, TellingInv
    <3>4. QED
      BY <3>2, <3>3
  <2>3. QED
    BY <1>7, <2>2 DEF TellingInv, Heard
<1>17. QED
  BY <1>10, <1>11, <1>13, <1>14, <1>15, <1>16 DEF LendingInv

\* Every step of JSONP preserves its invariant.
LEMMA LendingSteps ==
    ASSUME LendingInv, Script!Next
    PROVE  LendingInv'
<1>1. PICK r \in ScriptRequests :
          \/ \E n \in Script!Names, kind \in {"tag", "xhr"} : Script!Start(r, n, kind)
          \/ Script!ScriptRuns(r) \/ Script!Loaded(r) \/ Script!LoadFails(r)
          \/ (\E success \in BOOLEAN : Script!XhrAnswers(r, success)) \/ Script!Abort(r)
  BY DEF Script!Next
<1>2. ScriptTypes /\ Lender(r) /\ Delivery(script, container, told)
  BY DEF LendingInv
<1>3. CASE \E n \in Script!Names, kind \in {"tag", "xhr"} : Script!Start(r, n, kind)
  BY <1>3, StartStep
<1>4. CASE Script!ScriptRuns(r)
  BY <1>4, ScriptRunsStep
<1>5. ASSUME NEW s, s \subseteq script PROVE Delivery(s, container, told)
  <2>1. ASSUME NEW v \in ScriptRequests PROVE InOnePlace(v, s, container, told)
    BY <1>2, <1>5 DEF Delivery, InOnePlace
  <2>2. QED
    BY <1>2, <2>1 DEF Delivery
<1>6. CASE Script!Loaded(r)
  <2>1. script' = script /\ r \notin script
    BY <1>6 DEF Script!Loaded
  <2>2. QED
    BY <1>2, <1>6, <2>1, EndStep DEF Script!Loaded
<1>7. CASE Script!LoadFails(r)
  <2>1. script' = script \ {r} /\ Delivery(script', container, told)
    BY <1>5, <1>7 DEF Script!LoadFails
  <2>2. QED
    BY <1>7, <2>1, EndStep DEF Script!LoadFails
<1>8. ASSUME NEW success \in BOOLEAN, Script!XhrAnswers(r, success) PROVE LendingInv'
  <2> DEFINE c == Script!Filled(window[name[r]], r, container)
             t == Script!Told(window[name[r]], r, told)
  <2>1. /\ script' = script \ {r} /\ Script!Open(r) /\ transport[r] = "xhr"
        /\ Script!End(r, success, c, t)
    BY <1>8 DEF Script!XhrAnswers
  <2>2. r \in script
    BY <1>2, <2>1 DEF Lender
  <2>3. Delivery(script', c, t) /\ \A w : Heard(w, told) => Heard(w, t)
    BY <2>1, <2>2, ResponseComes
  <2> HIDE DEF c, t
  <2>4. QED
    BY <2>1, <2>3, EndStep
<1>9. CASE Script!Abort(r)
  <2>1. script' \in {script, script \ {r}} /\ (Aborts \/ r \notin script')
    BY <1>2, <1>9 DEF Script!Abort, Aborts
  <2>2. Delivery(script', container, told)
    BY <1>5, <2>1
  <2>3. QED
    BY <1>9, <2>1, <2>2, EndStep DEF Script!Abort
<1>10. QED
  BY <1>1, <1>3, <1>4, <1>6, <1>7, <1>8, <1>9

-----------------------------------------------------------------------------
(* Conversion.                                                             *)

\* What is known before ajaxHandleResponses has run.
BeforeConversion ==
    /\ dataTypes \in Convert!Lists
    /\ asked = <<>> /\ current = None /\ response = None

\* How far conversion has come.
Place == Len(asked) - Len(dataTypes)

\* The types that are ahead are the last of those that were asked for, those
\* behind have been linked, and the current one is the one in between, or one
\* from which a converter leads to the next.
OnTheWay ==
    /\ dataTypes \in Seq(Types)
    /\ Len(dataTypes) <= Len(asked)
    /\ \A j \in 1..Len(dataTypes) : dataTypes[j] = asked[Place + j]
    /\ \A i \in 1..(Place - 1) : Convert!Linked(asked[i], asked[i + 1])
    /\ asked = <<>> => current = None
    /\ asked # <<>> =>
           /\ Place \in 1..Len(asked)
           /\ \/ current = asked[Place]
              \/ /\ dataTypes # <<>> /\ current \in Types /\ current # dataTypes[1]
                 /\ Convert!Converter(current, dataTypes[1])
                 /\ Convert!Linked(asked[Place], asked[Place + 1])

\* The values of the variables.
ConvertTypes ==
    /\ contentType \in Types \cup {None}
    /\ responses = None \/ responses \subseteq Types
    /\ asked \in Seq(Types \cup {Convert!Auto})
    /\ current \in Types \cup {None, Convert!Auto}
    /\ response \in Convert!Values
    /\ fields \in [Types -> Convert!Values]
    /\ phase \in {"handle", "convert", "success", "noconversion", "error"}

\* The inductive invariant of conversion.
WayInv ==
    /\ ConvertTypes
    /\ Convert!ValueOfCurrentType
    /\ phase = "handle" => BeforeConversion
    /\ phase # "handle" => OnTheWay
    /\ phase = "success" => dataTypes = <<>>
    /\ phase = "noconversion" => ~Convert!AllLinked

\* No response has been looked at.
LEMMA WayStarts ==
    ASSUME Convert!Init
    PROVE  WayInv
<1>1. ConvertTypes
  BY DEF Convert!Init, ConvertTypes, Convert!Values
<1>2. Convert!ValueOfCurrentType
  BY DEF Convert!Init, Convert!ValueOfCurrentType
<1>3. BeforeConversion /\ phase = "handle"
  BY DEF Convert!Init, BeforeConversion
<1>4. QED
  BY <1>1, <1>2, <1>3 DEF WayInv

\* The list without its automatic head has types only.
LEMMA KnownTypes ==
    ASSUME dataTypes \in Convert!Lists, contentType \in Types \cup {None}
    PROVE  Convert!Known \in Seq(Types)
<1>1. ASSUME NEW t \in Types PROVE <<t>> \in Seq(Types)
  BY <1>1
<1>2. CASE dataTypes = <<Convert!Auto>>
  BY <1>2 DEF Convert!Known
<1>3. CASE \E t \in Types : dataTypes = <<t>>
  BY <1>3 DEF Convert!Known
<1>4. CASE \E t \in Types : dataTypes = <<Convert!Auto, t>>
  BY <1>4 DEF Convert!Known
<1>5. CASE \E t, u \in Types : dataTypes = <<t, u>>
  BY <1>5 DEF Convert!Known
<1>6. QED
  BY <1>2, <1>3, <1>4, <1>5 DEF Convert!Lists

\* What ajaxHandleResponses picks is a type there is a response in.
LEMMA PickedType ==
    ASSUME BeforeConversion, ConvertTypes, responses # None,
           NEW t \in Convert!FinalDataType(responses)
    PROVE  t \in Types
<1>1. Convert!Known \in Seq(Types) /\ responses \subseteq Types
  BY KnownTypes DEF BeforeConversion, ConvertTypes
<1>2. CASE Convert!FinalDataType(responses) \subseteq responses
  BY <1>1, <1>2
<1>3. CASE Convert!Known # <<>> /\ Convert!FinalDataType(responses) = {Convert!Known[1]}
  BY <1>1, <1>3, EmptySeq, ElementOfSeq
<1>4. QED
  BY <1>2, <1>3 DEF Convert!FinalDataType

\* A sequence is one of whatever has all its items.
LEMMA SeqOfItems ==
    ASSUME NEW S, NEW T, NEW s \in Seq(S), \A j \in 1..Len(s) : s[j] \in T
    PROVE  s \in Seq(T)
<1>1. Len(s) \in Nat /\ s \in [1..Len(s) -> S]
  OBVIOUS
<1>2. s \in [1..Len(s) -> T]
  BY <1>1
<1>3. QED
  BY <1>1, <1>2, SeqDef

\* A response is picked, and conversion begins with its type.
LEMMA HandleStep ==
    ASSUME WayInv, Convert!HandleResponses
    PROVE  WayInv'
<1> DEFINE Listed == Types \cup {Convert!Auto}
<1>1. /\ phase = "handle" /\ phase' = "convert" /\ BeforeConversion /\ ConvertTypes
      /\ Convert!ValueOfCurrentType
      /\ UNCHANGED <<converters, contentType, responses, fields>>
  BY DEF Convert!HandleResponses, WayInv
<1>2. Convert!Known \in Seq(Types)
  BY <1>1, KnownTypes DEF BeforeConversion, ConvertTypes
<1>3. /\ asked' \in Seq(Listed) /\ response' \in Convert!Values
      /\ \A j \in 2..Len(asked') : asked'[j] \in Types
      /\ asked' # <<>> =>
            IF response' = None THEN responses \in {None, {}} ELSE asked'[1] \in response'
  <2>1. CASE responses = {} /\ asked' = Convert!Known /\ UNCHANGED response
    <3>1. asked' \in Seq(Types) /\ response' = None /\ responses = {}
      BY <1>1, <1>2, <2>1 DEF BeforeConversion
    <3>2. \A j \in 2..Len(asked') : asked'[j] \in Types
      BY <3>1, ElementOfSeq
    <3>3. QED
      BY <3>1, <3>2 DEF Convert!Values
  <2>2. CASE responses = None /\ asked' = dataTypes /\ UNCHANGED response
    <3>1. response' = None /\ asked' \in Convert!Lists
      BY <1>1, <2>2 DEF BeforeConversion
    <3>2. asked' \in Seq(Listed) /\ \A j \in 2..Len(asked') : asked'[j] \in Types
      <4>1. CASE asked' = <<Convert!Auto>>
        BY <4>1
      <4>2. CASE \E t \in Types : asked' = <<t>>
        BY <4>2
      <4>3. CASE \E t \in Types : asked' = <<Convert!Auto, t>>
        BY <4>3
      <4>4. CASE \E t, u \in Types : asked' = <<t, u>>
        BY <4>4
      <4>5. QED
        BY <3>1, <4>1, <4>2, <4>3, <4>4 DEF Convert!Lists
    <3>3. QED
      BY <2>2, <3>1, <3>2 DEF Convert!Values
  <2>3. ASSUME responses # None,
               NEW t \in Convert!FinalDataType(responses), response' = {t},
               asked' = IF Convert!Known # <<>> /\ t = Convert!Known[1]
                        THEN Convert!Known ELSE <<t>> \o Convert!Known
        PROVE  /\ asked' \in Seq(Types) /\ response' \in Convert!Values
               /\ asked' # <<>> /\ asked'[1] = t /\ response' # None
    <3>1. t \in Types
      BY <1>1, <2>3, PickedType
    <3>2. {t} \in SUBSET Types /\ {t} # None
      BY <3>1, PartsAssumption
    <3>3. CASE Convert!Known # <<>> /\ t = Convert!Known[1]
      BY <1>2, <2>3, <3>2, <3>3 DEF Convert!Values
    <3>4. CASE ~(Convert!Known # <<>> /\ t = Convert!Known[1])
      <4>1. asked' = <<t>> \o Convert!Known /\ <<t>> \in Seq(Types) /\ Len(<<t>>) = 1
        BY <2>3, <3>1, <3>4
      <4>2. asked' \in Seq(Types) /\ Len(asked') = 1 + Len(Convert!Known) /\ asked'[1] = t
        BY <1>2, <4>1
      <4>3. asked' # <<>>
        BY <1>2, <4>2
      <4>4. QED
        BY <2>3, <3>2, <4>2, <4>3 DEF Convert!Values
    <3>5. QED
      BY <3>3, <3>4
  <2>4. ASSUME responses # None,
               NEW t \in Convert!FinalDataType(responses), response' = {t},
               asked' = IF Convert!Known # <<>> /\ t = Convert!Known[1]
                        THEN Convert!Known ELSE <<t>> \o Convert!Known
        PROVE  /\ asked' \in Seq(Listed) /\ response' \in Convert!Values
               /\ \A j \in 2..Len(asked') : asked'[j] \in Types
               /\ response' # None /\ asked'[1] \in response'
    <3>1. /\ asked' \in Seq(Types) /\ response' \in Convert!Values
          /\ asked'[1] = t /\ response' # None
      BY <2>3, <2>4
    <3>2. \A j \in 2..Len(asked') : asked'[j] \in Types
      BY <3>1, ElementOfSeq
    <3>3. asked' \in Seq(Listed)
      BY <3>1
    <3>4. QED
      BY <2>4, <3>1, <3>2, <3>3
  <2>5. QED
    BY <2>1, <2>2, <2>4 DEF Convert!HandleResponses
<1>4. /\ current' = IF asked' = <<>> THEN None ELSE Head(asked')
      /\ dataTypes' = IF asked' = <<>> THEN <<>> ELSE Tail(asked')
  BY DEF Convert!HandleResponses
<1>5. CASE asked' = <<>>
  <2>1. /\ current' = None /\ dataTypes' = <<>> /\ Len(asked') = 0
        /\ Len(dataTypes') = 0
    BY <1>4, <1>5
  <2>2. OnTheWay'
    BY <1>5, <2>1 DEF OnTheWay, Place
  <2>3. ConvertTypes'
    BY <1>1, <1>3, <2>1 DEF ConvertTypes
  <2>4. Convert!ValueOfCurrentType'
    BY <1>1, <2>1 DEF Convert!ValueOfCurrentType
  <2>5. QED
    BY <1>1, <2>2, <2>3, <2>4 DEF WayInv
<1>6. CASE asked' # <<>>
  <2>1. /\ Len(asked') \in Nat \ {0} /\ current' = asked'[1] /\ current' \in Listed
        /\ dataTypes' \in Seq(Types) /\ Len(dataTypes') = Len(asked') - 1
        /\ \A j \in 1..Len(dataTypes') : dataTypes'[j] = asked'[1 + j]
    <3>1. Len(asked') \in Nat \ {0}
      BY <1>3, <1>6, EmptySeq
    <3>2. asked'[1] \in Listed /\ Head(asked') = asked'[1]
      BY <1>3, <3>1, ElementOfSeq
    <3>3. /\ Tail(asked') \in Seq(Listed) /\ Len(Tail(asked')) = Len(asked') - 1
          /\ \A j \in 1..(Len(asked') - 1) : Tail(asked')[j] = asked'[j + 1]
      BY <1>3, <1>6, <3>1, HeadTailProperties
    <3>4. \A j \in 1..(Len(asked') - 1) : Tail(asked')[j] \in Types
      <4>1. \A j \in 1..(Len(asked') - 1) : j + 1 \in 2..Len(asked')
        BY <3>1
      <4>2. QED
        BY <1>3, <3>3, <4>1
    <3>5. Tail(asked') \in Seq(Types)
      BY <3>1, <3>3, <3>4, SeqOfItems
    <3>6. QED
      BY <1>4, <1>6, <3>1, <3>2, <3>3, <3>5
  <2>2. Place' = 1
    BY <2>1 DEF Place
  <2>3. OnTheWay'
    BY <1>6, <2>1, <2>2 DEF OnTheWay
  <2>4. ConvertTypes'
    BY <1>1, <1>3, <2>1 DEF ConvertTypes
  <2>5. Convert!ValueOfCurrentType'
    BY <1>1, <1>3, <2>1 DEF Convert!ValueOfCurrentType
  <2>6. QED
    BY <1>1, <2>3, <2>4, <2>5 DEF WayInv
<1>7. QED
  BY <1>5, <1>6

\* A value that may be taken for type t, if there is one.
FitsType(value, t) ==
    /\ value \in Convert!Values
    /\ IF value = None THEN responses \in {None, {}} ELSE t \in value

\* A type is added to a value, and a function is called with one that may be taken
\* for the type it is from.
LEMMA CountedOrCalled ==
    ASSUME NEW a, NEW b \in Types, NEW value, FitsType(value, a) \/ a = Convert!Auto
    PROVE  /\ value \in Convert!Values /\ (value = None => responses \in {None, {}})
                => FitsType(Convert!CountAs(b, value), b)
           /\ FitsType(Convert!Call(a, b, value), b)
<1>1. {b} \in SUBSET Types /\ {b} # None
  BY PartsAssumption
<1>2. ASSUME value \in Convert!Values, value # None
      PROVE  value \cup {b} \in SUBSET Types /\ value \cup {b} # None
  BY <1>2, PartsAssumption DEF Convert!Values
<1>3. value \in Convert!Values /\ (value = None => responses \in {None, {}})
          => FitsType(Convert!CountAs(b, value), b)
  BY <1>2 DEF FitsType, Convert!CountAs, Convert!Values
<1>4. FitsType(Convert!Call(a, b, value), b)
  BY <1>1 DEF FitsType, Convert!Call, Convert!Values
<1>5. QED
  BY <1>3, <1>4

\* A converter from the type of a value, or from any, leads to the type it is to.
LEMMA AppliedType ==
    ASSUME NEW a, NEW x \in {a, Convert!Auto}, NEW b \in Types, NEW value, FitsType(value, a)
    PROVE  FitsType(Convert!Apply(x, b, value), b)
<1>1. value \in Convert!Values /\ (value = None => responses \in {None, {}})
  BY DEF FitsType
<1>2. FitsType(value, x) \/ x = Convert!Auto
  OBVIOUS
<1>3. FitsType(Convert!CountAs(b, value), b) /\ FitsType(Convert!Call(x, b, value), b)
  BY <1>1, <1>2, CountedOrCalled
<1>4. QED
  BY <1>3 DEF Convert!Apply

\* Two converters, one of which is an equivalence, lead to the type of the second.
LEMMA CondensedType ==
    ASSUME NEW a, NEW x \in {a, Convert!Auto}, NEW m \in Types, NEW b \in Types,
           FitsType(response, a), Convert!Condense(x, m, b)
    PROVE  FitsType(Convert!CondensedValue(x, m, b), b)
<1>1. response \in Convert!Values /\ (response = None => responses \in {None, {}})
  BY DEF FitsType
<1>2. FitsType(response, x) \/ x = Convert!Auto
  OBVIOUS
<1>3. FitsType(Convert!CountAs(m, response), m) /\ FitsType(Convert!Call(x, m, response), m)
  BY <1>1, <1>2, CountedOrCalled
<1>4. FitsType(Convert!Apply(m, b, Convert!CountAs(m, response)), b)
  BY <1>3, AppliedType
<1>5. FitsType(Convert!CountAs(b, Convert!Call(x, m, response)), b)
  BY <1>3, CountedOrCalled DEF FitsType
<1>6. QED
  BY <1>4, <1>5 DEF Convert!Condense, Convert!CondensedValue

\* The value that conversion has may be taken for its type; of "*" there is none.
LEMMA CurrentFits ==
    ASSUME WayInv, current # None
    PROVE  /\ FitsType(response, current)
           /\ current = Convert!Auto => response = None
<1>1. FitsType(response, current)
  BY DEF WayInv, ConvertTypes, Convert!ValueOfCurrentType, FitsType
<1>2. Convert!Auto \notin Types
  BY PartsAssumption DEF Convert!Auto
<1>3. QED
  BY <1>1, <1>2 DEF FitsType, Convert!Values

\* Its field is set.
LEMMA FieldIsSet ==
    ASSUME WayInv, Convert!SetField
    PROVE  /\ fields' \in [Types -> Convert!Values]
           /\ \A t \in Types : fields'[t] # None => t \in fields'[t]
<1>1. ConvertTypes /\ Convert!ValueOfCurrentType
  BY DEF WayInv
<1>2. CASE current \in {None, Convert!Auto}
  BY <1>1, <1>2 DEF Convert!SetField, ConvertTypes, Convert!ValueOfCurrentType
<1>3. CASE current \notin {None, Convert!Auto}
  <2>1. current \in Types /\ fields' = [fields EXCEPT ![current] = response]
    BY <1>1, <1>3 DEF Convert!SetField, ConvertTypes
  <2>2. response # None => current \in response
    BY <1>1, <1>3 DEF Convert!ValueOfCurrentType
  <2>3. QED
    BY <1>1, <2>1, <2>2 DEF ConvertTypes, Convert!ValueOfCurrentType
<1>4. QED
  BY <1>2, <1>3

\* A round that does not leave the way.
LEMMA RoundStep ==
    ASSUME WayInv, NEW next \in Types, NEW rest, NEW value, FitsType(value, next),
           Convert!Round(next, rest, value), OnTheWay'
    PROVE  WayInv'
<1>1. /\ ConvertTypes /\ Convert!ValueOfCurrentType /\ phase = "convert" /\ current # None
      /\ Convert!SetField
      /\ current' = next /\ response' = value
      /\ UNCHANGED <<converters, contentType, responses, asked, phase>>
  BY DEF WayInv, Convert!Round
<1>2. ConvertTypes'
  BY <1>1, FieldIsSet DEF ConvertTypes, FitsType
<1>3. Convert!ValueOfCurrentType'
  BY <1>1, FieldIsSet DEF Convert!ValueOfCurrentType, FitsType
<1>4. QED
  BY <1>1, <1>2, <1>3 DEF WayInv

\* The next type is come to.
LEMMA Advances ==
    ASSUME WayInv, NEW b, Convert!Ahead(b), current # None,
           Convert!Linked(asked[Place], b),
           current' = b, dataTypes' = Tail(dataTypes), UNCHANGED <<converters, asked>>
    PROVE  OnTheWay' /\ b \in Types
<1>1. /\ OnTheWay /\ asked \in Seq(Types \cup {Convert!Auto})
      /\ dataTypes # <<>> /\ b = Head(dataTypes)
      /\ dataTypes \in Seq(Types)
  BY DEF WayInv, Convert!Ahead, ConvertTypes, OnTheWay
<1>2. /\ Len(dataTypes) \in Nat \ {0} /\ Len(asked) \in Nat
      /\ b = dataTypes[1] /\ b \in Types
  BY <1>1, EmptySeq, HeadTailProperties
<1>3. asked # <<>> /\ Place \in 1..Len(asked) /\ Len(dataTypes) <= Len(asked)
  BY <1>1, <1>2, EmptySeq DEF OnTheWay
<1>4. /\ Tail(dataTypes) \in Seq(Types) /\ Len(Tail(dataTypes)) = Len(dataTypes) - 1
      /\ \A j \in 1..(Len(dataTypes) - 1) : Tail(dataTypes)[j] = dataTypes[j + 1]
  BY <1>1, HeadTailProperties
<1>5. Place' = Place + 1 /\ Place + 1 \in 1..Len(asked)
  <2>1. Place' = Len(asked) - Len(Tail(dataTypes))
    BY DEF Place
  <2>2. Place = Len(asked) - Len(dataTypes)
    BY DEF Place
  <2>3. Len(Tail(dataTypes)) = Len(dataTypes) - 1
    BY <1>4
  <2>4. QED
    BY ONLY <1>2, <1>3, <2>1, <2>2, <2>3
<1>6. b = asked[Place + 1]
  BY <1>1, <1>2, SMTT(30) DEF OnTheWay
<1>7. ASSUME NEW j \in 1..Len(dataTypes') PROVE dataTypes'[j] = asked'[Place' + j]
  <2>1. j \in 1..(Len(dataTypes) - 1) /\ j + 1 \in 1..Len(dataTypes)
    BY <1>2, <1>4
  <2>2. dataTypes'[j] = dataTypes[j + 1]
    BY <1>4, <2>1
  <2>3. dataTypes[j + 1] = asked[Place + (j + 1)]
    BY <1>1, <2>1 DEF OnTheWay
  <2>4. Place + (j + 1) = Place' + j
    BY <1>3, <1>5, <2>1
  <2>5. QED
    BY <2>2, <2>3, <2>4
<1>8. ASSUME NEW i \in 1..(Place' - 1) PROVE Convert!Linked(asked[i], asked[i + 1])
  <2>1. i \in 1..(Place - 1) \/ i = Place
    BY <1>3, <1>5
  <2>2. QED
    BY <1>1, <1>6, <2>1 DEF OnTheWay
<1>9. \A i \in 1..(Place' - 1) : Convert!Linked(asked[i], asked[i + 1])'
  BY <1>8 DEF Convert!Linked, Convert!Converter
<1>10. Len(dataTypes') <= Len(asked')
  BY <1>2, <1>3, <1>4
<1>11. asked' # <<>> /\ Place' \in 1..Len(asked') /\ current' = asked'[Place']
  BY <1>3, <1>5, <1>6
<1>12. QED
  BY <1>2, <1>4, <1>7, <1>9, <1>10, <1>11 DEF OnTheWay

\* Where there is no converter from the current type to the next, the current
\* type is one that was asked for.
LEMMA AtAskedType ==
    ASSUME WayInv, NEW b, Convert!Differs(b), Convert!Direct(current, b) = {}
    PROVE  /\ current = asked[Place] /\ b = asked[Place + 1]
           /\ Place \in 1..(Len(asked) - 1) /\ OnTheWay
<1>1. /\ OnTheWay /\ asked \in Seq(Types \cup {Convert!Auto})
      /\ dataTypes # <<>> /\ b = Head(dataTypes)
      /\ dataTypes \in Seq(Types)
  BY DEF WayInv, Convert!Differs, Convert!Ahead, ConvertTypes, OnTheWay
<1>2. /\ Len(dataTypes) \in Nat \ {0} /\ Len(asked) \in Nat
      /\ b = dataTypes[1]
  BY <1>1, EmptySeq
<1>3. asked # <<>> /\ Place \in 1..Len(asked) /\ Place \in 1..(Len(asked) - 1)
  BY <1>1, <1>2, EmptySeq DEF OnTheWay, Place
<1>4. b = asked[Place + 1]
  BY <1>1, <1>2 DEF OnTheWay
<1>5. ~Convert!Converter(current, b)
  BY DEF Convert!Direct
<1>6. QED
  BY <1>1, <1>2, <1>3, <1>4, <1>5 DEF OnTheWay

\* The next type is the current one, or there is nothing to convert.
LEMMA SkipStep ==
    ASSUME WayInv, NEW b \in Types, Convert!Skip(b)
    PROVE  WayInv'
<1>1. /\ Convert!Ahead(b) /\ Convert!Round(b, Tail(dataTypes), response)
      /\ current \in {b, Convert!Auto}
      /\ current # None /\ current' = b /\ dataTypes' = Tail(dataTypes)
      /\ UNCHANGED <<converters, asked>>
  BY DEF Convert!Skip, Convert!Round
<1>2. /\ b = Head(dataTypes) /\ OnTheWay /\ dataTypes # <<>> /\ dataTypes \in Seq(Types)
      /\ asked \in Seq(Types \cup {Convert!Auto})
  BY <1>1 DEF WayInv, Convert!Ahead, OnTheWay, ConvertTypes
<1>3. asked # <<>> /\ b = dataTypes[1]
  BY <1>2, EmptySeq DEF OnTheWay
<1>4. CASE current = asked[Place]
  <2>1. Convert!Linked(asked[Place], b)
    BY <1>1, <1>4 DEF Convert!Linked
  <2>2. OnTheWay' /\ b \in Types
    BY <1>1, <2>1, Advances
  <2>3. FitsType(response, b)
    BY <1>1, CurrentFits DEF FitsType
  <2>4. QED
    BY <1>1, <2>2, <2>3, RoundStep
<1>5. CASE current # asked[Place]
  <2>1. current \in Types /\ current # b
    BY <1>2, <1>3, <1>5 DEF OnTheWay
  <2>2. Convert!Auto \notin Types
    BY PartsAssumption DEF Convert!Auto
  <2>3. QED
    BY <1>1, <2>1, <2>2
<1>6. QED
  BY <1>4, <1>5

\* One converter leads to the next type.
LEMMA DirectStep ==
    ASSUME WayInv, NEW b, Convert!ConvertDirectly(b)
    PROVE  WayInv'
<1>1. PICK x \in Convert!Direct(current, b) :
          Convert!Round(b, Tail(dataTypes), Convert!Apply(x, b, response))
  BY DEF Convert!ConvertDirectly
<1>2. /\ Convert!Ahead(b) /\ current # None /\ current' = b
      /\ dataTypes' = Tail(dataTypes) /\ UNCHANGED <<converters, asked>>
  BY <1>1 DEF Convert!ConvertDirectly, Convert!Differs, Convert!Round
<1>3. Convert!Linked(asked[Place], b)
  <2>1. b = Head(dataTypes) /\ OnTheWay /\ dataTypes # <<>> /\ dataTypes \in Seq(Types)
        /\ asked \in Seq(Types \cup {Convert!Auto})
    BY <1>2 DEF WayInv, Convert!Ahead, OnTheWay, ConvertTypes
  <2>2. asked # <<>> /\ b = dataTypes[1] /\ b = asked[Place + 1]
    <3>1. Len(dataTypes) \in Nat \ {0} /\ b = dataTypes[1]
      BY <2>1, EmptySeq
    <3>2. QED
      BY <2>1, <3>1, EmptySeq DEF OnTheWay
  <2>3. CASE current = asked[Place]
    BY <1>1, <2>3 DEF Convert!Linked, Convert!Direct
  <2>4. CASE current # asked[Place]
    BY <2>1, <2>2, <2>4 DEF OnTheWay
  <2>5. QED
    BY <2>3, <2>4
<1>4. OnTheWay' /\ b \in Types
  BY <1>2, <1>3, Advances
<1>5. FitsType(response, current) /\ x \in {current, Convert!Auto}
  BY <1>1, <1>2, CurrentFits DEF Convert!Direct
<1>6. FitsType(Convert!Apply(x, b, response), b)
  BY <1>4, <1>5, AppliedType
<1>7. QED
  BY <1>1, <1>4, <1>6, RoundStep

\* Two converters lead there, over a type in between.
LEMMA ViaStep ==
    ASSUME WayInv, NEW b, Convert!ConvertVia(b)
    PROVE  WayInv'
<1>1. PICK x \in {current, Convert!Auto}, m \in Types \ {current, b} :
          /\ current # None
          /\ Convert!Converter(x, m) /\ Convert!Converter(m, b)
          /\ IF Convert!Condense(x, m, b)
             THEN Convert!Round(b, Tail(dataTypes), Convert!CondensedValue(x, m, b))
             ELSE Convert!Round(m, dataTypes, Convert!Apply(x, m, response))
  BY DEF Convert!ConvertVia, Convert!Via, Convert!Round
<1>2. /\ Convert!Ahead(b) /\ Convert!Differs(b) /\ Convert!Direct(current, b) = {}
      /\ m \in Types
  BY DEF Convert!ConvertVia, Convert!Differs
<1>3. /\ current = asked[Place] /\ b = asked[Place + 1]
      /\ Place \in 1..(Len(asked) - 1) /\ OnTheWay
  BY <1>2, AtAskedType
<1>4. Convert!Linked(asked[Place], b)
  BY <1>1, <1>3 DEF Convert!Linked
<1>5. CASE Convert!Condense(x, m, b)
  <2>1. /\ Convert!Round(b, Tail(dataTypes), Convert!CondensedValue(x, m, b))
        /\ current # None /\ current' = b
        /\ dataTypes' = Tail(dataTypes) /\ UNCHANGED <<converters, asked>>
    BY <1>1, <1>5 DEF Convert!Round
  <2>2. OnTheWay' /\ b \in Types
    BY <1>2, <1>4, <2>1, Advances
  <2>3. FitsType(response, current)
    BY <1>1, CurrentFits
  <2>4. FitsType(Convert!CondensedValue(x, m, b), b)
    BY <1>2, <1>5, <2>2, <2>3, CondensedType
  <2>5. QED
    BY <2>1, <2>2, <2>4, RoundStep
<1>6. CASE ~Convert!Condense(x, m, b)
  <2>1. /\ Convert!Round(m, dataTypes, Convert!Apply(x, m, response))
        /\ current' = m /\ dataTypes' = dataTypes /\ UNCHANGED <<converters, asked>>
    BY <1>1, <1>6 DEF Convert!Round
  <2>2. /\ dataTypes # <<>> /\ dataTypes \in Seq(Types) /\ b = dataTypes[1]
    BY <1>2, <1>3 DEF Convert!Ahead, OnTheWay
  <2>3. OnTheWay'
    <3>1. Place' = Place
      BY <2>1 DEF Place
    <3>2. /\ current' # dataTypes'[1] /\ current' \in Types
          /\ Convert!Converter(current, dataTypes[1])'
          /\ Convert!Linked(asked[Place], asked[Place + 1])'
      <4>1. current' # dataTypes'[1] /\ current' \in Types /\ Convert!Converter(current, dataTypes[1])'
        BY <1>1, <2>1, <2>2 DEF Convert!Converter
      <4>2. Convert!Linked(asked[Place], asked[Place + 1])
        BY <1>3, <1>4
      <4>3. QED
        BY <2>1, <3>1, <4>1, <4>2 DEF Convert!Converter, Convert!Linked
    <3>3. \A i \in 1..(Place - 1) : Convert!Linked(asked[i], asked[i + 1])'
      <4>1. \A i \in 1..(Place - 1) : Convert!Linked(asked[i], asked[i + 1])
        BY <1>3 DEF OnTheWay
      <4>2. \A x1, x2 : Convert!Linked(x1, x2) <=> Convert!Linked(x1, x2)'
        <5>1. \A x1, x2 : Convert!Converter(x1, x2)' = Convert!Converter(x1, x2)
          BY <2>1 DEF Convert!Converter
        <5>2. QED
          BY <5>1, Zenon DEF Convert!Linked
      <4>3. QED
        BY <2>1, <4>1, <4>2
    <3>4. /\ dataTypes' \in Seq(Types) /\ Len(dataTypes') <= Len(asked')
          /\ \A j \in 1..Len(dataTypes') : dataTypes'[j] = asked'[Place' + j]
      BY <1>3, <2>1, <3>1 DEF OnTheWay
    <3>5. asked' # <<>> /\ Place' \in 1..Len(asked') /\ dataTypes' # <<>>
      BY <1>3, <2>1, <2>2, <3>1 DEF OnTheWay
    <3>6. \A i \in 1..(Place' - 1) : Convert!Linked(asked[i], asked[i + 1])'
      BY <3>1, <3>3
    <3>7. QED
      BY <2>1, <3>1, <3>2, <3>4, <3>5, <3>6 DEF OnTheWay
  <2>4. FitsType(response, current)
    BY <1>1, CurrentFits
  <2>5. FitsType(Convert!Apply(x, m, response), m)
    BY <1>2, <2>4, AppliedType
  <2>6. QED
    BY <1>2, <2>1, <2>3, <2>5, RoundStep
<1>7. QED
  BY <1>5, <1>6

\* What does not touch the list nor the converters leaves conversion on its way.
LEMMA WayStays ==
    ASSUME UNCHANGED <<converters, dataTypes, asked, current>>
    PROVE  /\ OnTheWay => OnTheWay'
           /\ Convert!AllLinked <=> Convert!AllLinked'
<1>1. Place' = Place
  BY DEF Place
<1>2. ASSUME NEW a, NEW b PROVE Convert!Converter(a, b)' <=> Convert!Converter(a, b)
  BY DEF Convert!Converter
<1>3. ASSUME NEW a, NEW b PROVE Convert!Linked(a, b)' <=> Convert!Linked(a, b)
  BY <1>2 DEF Convert!Linked
<1>4. \A i : Convert!Linked(asked[i], asked[i + 1])' <=> Convert!Linked(asked[i], asked[i + 1])
  BY DEF Convert!Linked, Convert!Converter
<1>5. Convert!AllLinked <=> Convert!AllLinked'
  BY <1>4 DEF Convert!AllLinked
<1>6. ASSUME OnTheWay PROVE OnTheWay'
  <2>1. Convert!Linked(asked[Place], asked[Place + 1])
            => Convert!Linked(asked[Place], asked[Place + 1])'
    BY <1>1 DEF Convert!Linked, Convert!Converter
  <2>2. Convert!Converter(current, dataTypes[1]) => Convert!Converter(current, dataTypes[1])'
    BY DEF Convert!Converter
  <2>3. QED
    BY <1>1, <1>4, <1>6, <2>1, <2>2 DEF OnTheWay
<1>7. QED
  BY <1>5, <1>6

\* Conversion ends: it has come to the last type, or cannot go on.
LEMMA EndsStep ==
    ASSUME WayInv, NEW outcome \in {"success", "noconversion", "error"}, Convert!Ends(outcome),
           outcome = "success" => dataTypes = <<>>,
           outcome = "noconversion" => ~Convert!AllLinked
    PROVE  WayInv'
<1>1. /\ ConvertTypes /\ Convert!ValueOfCurrentType /\ OnTheWay /\ phase' = outcome
      /\ Convert!SetField
      /\ UNCHANGED <<converters, contentType, responses, dataTypes, asked, current, response>>
  BY DEF WayInv, Convert!Ends
<1>2. ConvertTypes'
  BY <1>1, FieldIsSet DEF ConvertTypes
<1>3. Convert!ValueOfCurrentType'
  BY <1>1, FieldIsSet DEF Convert!ValueOfCurrentType
<1>4. OnTheWay' /\ (Convert!AllLinked <=> Convert!AllLinked')
  BY <1>1, WayStays
<1>5. QED
  BY <1>1, <1>2, <1>3, <1>4 DEF WayInv

\* No converter leads there: what was asked for is not linked.
LEMMA NoConversionStep ==
    ASSUME WayInv, NEW b, Convert!NoConversion(b)
    PROVE  WayInv'
<1>1. /\ Convert!Differs(b) /\ current \notin {b, Convert!Auto}
      /\ Convert!Ends("noconversion")
      /\ Convert!Direct(current, b) = {} /\ Convert!Via(current, b) = {}
  BY DEF Convert!NoConversion, Convert!Differs
<1>2. /\ current = asked[Place] /\ b = asked[Place + 1] /\ Place \in 1..(Len(asked) - 1)
  BY <1>1, AtAskedType
<1>3. ~Convert!Linked(current, b)
  <2>1. SUFFICES ASSUME Convert!Linked(current, b) PROVE FALSE
    OBVIOUS
  <2>2. PICK x \in {current, Convert!Auto} :
            \/ Convert!Converter(x, b)
            \/ \E m \in Types \ {current, b} : Convert!Converter(x, m) /\ Convert!Converter(m, b)
    BY <1>1, <2>1 DEF Convert!Linked
  <2>3. ~Convert!Converter(x, b)
    BY <1>1 DEF Convert!Direct
  <2>4. PICK m \in Types \ {current, b} : Convert!Converter(x, m) /\ Convert!Converter(m, b)
    BY <2>2, <2>3
  <2>5. <<x, m>> \in Convert!Via(current, b)
    BY <2>4 DEF Convert!Via
  <2>6. QED
    BY <1>1, <2>5
<1>4. ~Convert!AllLinked
  BY <1>2, <1>3 DEF Convert!AllLinked
<1>5. QED
  BY <1>1, <1>4, EndsStep

\* Every step of conversion preserves its invariant.
LEMMA WaySteps ==
    ASSUME WayInv, Convert!Next
    PROVE  WayInv'
<1>1. CASE Convert!HandleResponses
  BY <1>1, HandleStep
<1>2. ASSUME NEW b \in Types, Convert!Skip(b) PROVE WayInv'
  BY <1>2, SkipStep
<1>3. ASSUME NEW b \in Types, Convert!ConvertDirectly(b) PROVE WayInv'
  BY <1>3, DirectStep
<1>4. ASSUME NEW b \in Types, Convert!ConvertVia(b) PROVE WayInv'
  BY <1>4, ViaStep
<1>5. ASSUME NEW b \in Types, Convert!NoConversion(b) PROVE WayInv'
  BY <1>5, NoConversionStep
<1>6. ASSUME NEW b \in Types, Convert!ConverterThrows(b) PROVE WayInv'
  BY <1>6, EndsStep DEF Convert!ConverterThrows
<1>7. CASE Convert!Succeeds
  BY <1>7, EndsStep DEF Convert!Succeeds
<1>8. QED
  BY <1>1, <1>2, <1>3, <1>4, <1>5, <1>6, <1>7 DEF Convert!Next

-----------------------------------------------------------------------------
(* What follows from the invariants.                                       *)

\* Whatever types are asked for and whatever converters there are, a value may be
\* taken for the type under which conversion has it and jqXHR keeps it, so that no
\* converter but one from "*" gets a value neither of its type nor declared
\* equivalent to it, and conversion succeeds just when each type can be had of the
\* one before it (ConversionInv; ajaxHandleResponses and ajaxConvert).
THEOREM ConversionIsSound == AllSpec => []ConversionInv
<1>1. AllInit => WayInv
  BY WayStarts DEF AllInit
<1>2. WayInv /\ [AllNext]_allVars => WayInv'
  <2>1. SUFFICES ASSUME WayInv, [AllNext]_allVars PROVE WayInv'
    OBVIOUS
  <2>2. CASE Convert!Next
    BY <2>1, <2>2, WaySteps
  <2>3. CASE UNCHANGED convertVars
    <3>1. UNCHANGED <<converters, contentType, responses, dataTypes, asked, current, response,
                      fields, phase>>
      BY <2>3 DEF convertVars
    <3>2. ConvertTypes' /\ Convert!ValueOfCurrentType'
      BY <2>1, <3>1 DEF WayInv, ConvertTypes, Convert!ValueOfCurrentType
    <3>3. /\ BeforeConversion => BeforeConversion'
          /\ OnTheWay => OnTheWay'
          /\ Convert!AllLinked <=> Convert!AllLinked'
      BY <3>1, WayStays DEF BeforeConversion
    <3>4. QED
      BY <2>1, <3>1, <3>2, <3>3 DEF WayInv
  <2>4. QED
    BY <2>1, <2>2, <2>3 DEF AllNext, allVars
<1>3. WayInv => ConversionInv
  <2>1. SUFFICES ASSUME WayInv PROVE ConversionInv
    OBVIOUS
  <2>2. ConvertTypes /\ Convert!ValueOfCurrentType
    BY <2>1 DEF WayInv
  <2>3. dataTypes \in Seq(Types) \/ phase = "handle"
    BY <2>1 DEF WayInv, OnTheWay
  <2>4. Convert!TypeOK
    BY <2>2, <2>3 DEF ConvertTypes, Convert!TypeOK
  <2>5. ASSUME phase = "success"
        PROVE  Convert!AllLinked /\ (asked # <<>> => current = asked[Len(asked)])
    <3>1. OnTheWay /\ dataTypes = <<>> /\ asked \in Seq(Types \cup {Convert!Auto})
      BY <2>1, <2>5 DEF WayInv, ConvertTypes
    <3>2. Place = Len(asked)
      BY <3>1 DEF Place
    <3>3. QED
      BY <3>1, <3>2 DEF OnTheWay, Convert!AllLinked
  <2>6. Convert!ConvertsWhatItCan
    BY <2>1, <2>5 DEF WayInv, Convert!ConvertsWhatItCan
  <2>7. QED
    BY <2>2, <2>4, <2>6 DEF ConversionInv, Convert!ConversionInv
<1>4. QED
  BY <1>1, <1>2, <1>3, PTL DEF AllSpec

\* However many JSONP requests there are, whatever they share and whichever are
\* aborted, no name is free that is in use, and window is as the page left it when they
\* are over, but for a shared name.  Each gets its own response or none, if its name is
\* not shared and no tag is aborted, and no two get the same if only tags are aborted
\* (JsonpInv; the jsonp prefilter and its clean-up).
THEOREM CallbacksAreLent == AllSpec => []JsonpInv
<1>1. AllInit => LendingInv
  BY LendingStarts DEF AllInit
<1>2. LendingInv /\ [AllNext]_allVars => LendingInv'
  <2>1. SUFFICES ASSUME LendingInv, [AllNext]_allVars PROVE LendingInv'
    OBVIOUS
  <2>2. CASE Script!Next
    BY <2>1, <2>2, LendingSteps
  <2>3. CASE UNCHANGED scriptVars
    <3>1. UNCHANGED <<habits, window, oldCallbacks, ajaxNonce, name, transport, script,
                      container, overwritten, result, told>>
      BY <2>3 DEF scriptVars
    <3>2. ScriptTypes'
      BY <2>1, <3>1 DEF LendingInv, ScriptTypes
    <3>3. ASSUME NEW r \in ScriptRequests PROVE Lender(r)'
      BY <2>1, <3>1 DEF LendingInv, Lender, Script!Open, Script!Kept, Shares, Aborts
    <3>4. \A n \in Script!Names : Lent(n)'
      BY <2>1, <3>1 DEF LendingInv, Lent, Script!Open, Script!Kept
    <3>5. IsInjective(oldCallbacks)'
      BY <2>1, <3>1 DEF LendingInv, IsInjective
    <3>6. Delivery(script, container, told)'
      <4>1. ASSUME NEW v \in ScriptRequests PROVE InOnePlace(v, script, container, told)'
        BY <2>1, <3>1 DEF LendingInv, Delivery, InOnePlace, Heard, Shares
      <4>2. QED
        BY <2>1, <3>1, <4>1 DEF LendingInv, Delivery, IsInjective, Aborts, Script!Kept
    <3>7. TellingInv'
      BY <2>1, <3>1 DEF LendingInv, TellingInv, Script!PageHasFunction, Script!Opened,
                        Script!Open, Heard, Shares
    <3>8. QED
      BY <3>2, <3>3, <3>4, <3>5, <3>6, <3>7 DEF LendingInv
  <2>4. QED
    BY <2>1, <2>2, <2>3 DEF AllNext, allVars
<1>3. LendingInv => JsonpInv
  <2>1. SUFFICES ASSUME LendingInv PROVE JsonpInv
    OBVIOUS
  <2>2. /\ ScriptTypes /\ \A r \in ScriptRequests : Lender(r)
        /\ Delivery(script, container, told)
    BY <2>1 DEF LendingInv
  <2>3. Script!TypeOK
    <3>1. Script!ToSet(oldCallbacks) \subseteq 1..ajaxNonce
      BY <2>2 DEF ScriptTypes, Script!ToSet
    <3>2. name \in [ScriptRequests -> 0..ajaxNonce]
      <4>1. ASSUME NEW r \in ScriptRequests PROVE name[r] \in 0..ajaxNonce
        BY <2>2 DEF ScriptTypes, Lender, Script!Names
      <4>2. QED
        BY <2>2, <4>1 DEF ScriptTypes
    <3>3. QED
      BY <2>2, <3>1, <3>2 DEF ScriptTypes, Delivery, Script!TypeOK
  <2>4. Script!OwnResponse
    <3>1. ASSUME ~Shares, NEW r \in ScriptRequests, NEW u \in ScriptRequests,
                 result[r] = result[u], result[r] \in ScriptRequests
          PROVE  r = u
      BY <2>2, <3>1 DEF Delivery, InOnePlace
    <3>2. QED
      BY <2>2, <3>1 DEF Lender, Script!OwnResponse, Shares, Aborts
  <2>5. Script!FreeIsFree
    <3>1. Script!IsInjective(oldCallbacks)
      BY <2>1 DEF LendingInv, IsInjective, Script!IsInjective
    <3>2. ASSUME NEW r \in Script!Opened \cup {u \in script : "abort" \notin habits}
          PROVE  name[r] \notin Script!ToSet(oldCallbacks)
      <4>1. r \in ScriptRequests /\ Script!Open(r)
        BY <2>2, <3>2 DEF Script!Opened, Lender, ScriptTypes, Aborts
      <4>2. QED
        BY <2>2, <4>1 DEF Lender, Script!ToSet
    <3>3. QED
      BY <3>1, <3>2 DEF Script!FreeIsFree
  <2>6. Script!Restored
    BY <2>1 DEF LendingInv, Lent, Script!Restored, Script!Opened
  <2>7. Script!PageTold
    <3>1. Script!IsInjective(told)
      BY <2>2 DEF Delivery, IsInjective, Script!IsInjective
    <3>2. ASSUME ~Shares, Script!PageHasFunction, NEW r \in ScriptRequests, result[r] = r,
                 name[r] = Script!Shared
          PROVE  r \in Script!ToSet(told)
      BY <2>1, <3>2 DEF LendingInv, TellingInv, Heard, Script!ToSet
    <3>3. QED
      BY <3>1, <3>2 DEF Script!PageTold, Shares
  <2>8. QED
    BY <2>3, <2>4, <2>5, <2>6, <2>7 DEF JsonpInv, Script!JsonpInv
<1>4. QED
  BY <1>1, <1>2, <1>3, PTL DEF AllSpec
=============================================================================
