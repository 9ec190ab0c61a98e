----------------------------- MODULE Callbacks -----------------------------
(***************************************************************************)
(* One jQuery.Callbacks list in use.  JavaScript runs one thing at a time; *)
(* the interleaving is re-entrance: a callback, while the list is calling  *)
(* it, may use the list it is called from.                                 *)
(***************************************************************************)
EXTENDS CallbackList

CONSTANTS
    Functions,        \* the functions callers add
    MaxFires,         \* bound: values fired
    MaxUses,          \* bound: calls of the list's other methods
    EmptyWhileFiring  \* whether empty() may be called on a list that is firing

\* None is no value and no call.
ASSUME CallbacksAssumption ==
    /\ MaxFires \in Nat
    /\ MaxUses \in Nat
    /\ EmptyWhileFiring \in BOOLEAN
    /\ None \notin 1..MaxFires
    /\ None \notin Functions \X (1..MaxFires)

VARIABLES
    L,          \* the list
    at,         \* "idle", "loop" (between two callbacks), or "call"
    fires,      \* the number of values fired; the values are 1..fires
    uses,
    call,       \* the latest call, [fn, value]
    thrown      \* history: a callback has thrown

vars == <<L, at, fires, uses, call, thrown>>

Flags == {"once", "memory", "unique", "stopOnFalse"}

\* createOptions makes the flags of a string true.
Init ==
    /\ L \in {NewList(options) : options \in SUBSET Flags}
    /\ at = "idle"
    /\ fires = 0
    /\ uses = 0
    /\ call = [fn |-> None, value |-> 0]
    /\ thrown = FALSE

\* Code that holds the list runs between firings, and as a callback.
CallerRuns == at \in {"idle", "call"}

\* A method has left the list as M: if it called fire, the loop begins.
Becomes(M) ==
    /\ L' = M
    /\ at' = IF at = "idle" /\ M.firing /\ ~L.firing THEN "loop" ELSE at

Use(M) ==
    /\ CallerRuns
    /\ uses < MaxUses
    /\ uses' = uses + 1
    /\ Becomes(M)
    /\ UNCHANGED <<fires, call, thrown>>

AddSome == \E cs \in [1..1 -> Functions] \cup [1..2 -> Functions] :
    Use(Add(L, cs))
RemoveOne == \E c \in Functions : Use(RemoveAll(L, c))
EmptyIt == (~L.firing \/ EmptyWhileFiring) /\ Use(Empty(L))
DisableIt == Use(Disable(L))
LockIt == Use(Lock(L))

FireOne ==
    /\ CallerRuns
    /\ fires < MaxFires
    /\ fires' = fires + 1
    /\ Becomes(FireWith(L, fires + 1))
    /\ UNCHANGED <<uses, call, thrown>>

\* The loop of fire goes on to the next callback, or is over.
CallNext ==
    /\ at = "loop"
    /\ \/ MoreToCall(L) /\ at' = "call" /\ call' = [fn |-> Callee(L), value |-> L.data] /\ UNCHANGED L
       \/ ~MoreToCall(L) /\ L' = AfterLoop(L)
          /\ at' = (IF L'.firing THEN "loop" ELSE "idle") /\ UNCHANGED call
    /\ UNCHANGED <<fires, uses, thrown>>

CallbackReturns ==
    /\ at = "call"
    /\ L' = Advance(L)
    /\ at' = "loop"
    /\ UNCHANGED <<fires, uses, call, thrown>>

\* It returns false, which breaks the loop of a list with stopOnFalse.
CallbackStops ==
    /\ at = "call"
    /\ "stopOnFalse" \in L.options
    /\ L' = AfterLoop(Forget(L))
    /\ at' = IF L'.firing THEN "loop" ELSE "idle"
    /\ UNCHANGED <<fires, uses, call, thrown>>

\* It throws: the exception leaves fire, and firing stays true.
CallbackThrows ==
    /\ at = "call"
    /\ at' = "idle"
    /\ thrown' = TRUE
    /\ UNCHANGED <<L, fires, uses, call>>

Next ==
    \/ AddSome \/ RemoveOne \/ EmptyIt \/ DisableIt \/ LockIt \/ FireOne
    \/ CallNext \/ CallbackReturns \/ CallbackStops \/ CallbackThrows

Spec == Init /\ [][Next]_vars
-----------------------------------------------------------------------------
\* Values are numbers of fire calls, and the stack holds values only.
TypeOK ==
    /\ at \in {"idle", "loop", "call"}
    /\ fires \in 0..MaxFires
    /\ uses \in 0..MaxUses
    /\ call \in [fn : Functions \cup {None}, value : 0..MaxFires]
    /\ L.list \in Seq(Functions)
    /\ L.stack \in Seq(1..MaxFires)
    /\ L.firingIndex \in Nat \cup {-1} /\ L.firingStart \in Nat /\ L.firingLength \in Nat

\* The loop never reads beyond the list, whatever callbacks add, remove,
\* empty or disable while it runs: list[firingIndex] is always a function.
LoopInBounds ==
    at # "idle" /\ L.live => L.firingLength <= Len(L.list)

\* No value is called back after a later one: fire calls made by callbacks
\* wait their turn, and callbacks that join late get the latest value.
NeverGoesBack == [][call.value <= call'.value]_vars

\* A round is not left half done: unless a callback has thrown, the list is
\* marked as firing only while its loop runs, and no fire call waits for a
\* round that is over.
NothingLeftWaiting ==
    at = "idle" /\ ~thrown => ~L.firing /\ L.stack = <<>> /\ L.firingStart = 0

Unvisited ==
    IF L.live /\ L.firing
    THEN SubSeq(L.list, L.firingIndex + (IF at = "loop" THEN 1 ELSE 2), L.firingLength)
    ELSE <<>>

Rounds == INSTANCE CallbackRounds WITH
    Values <- 1..MaxFires,
    members <- L.list,
    todo <- Unvisited,
    round <- IF L.firing THEN L.data ELSE None,
    call <- IF at = "call" THEN <<call.fn, call.value>> ELSE None

\* The list keeps the promise of CallbackRounds: every member is called once in
\* a round, in order, and fire calls made by callbacks wait their turn.
KeepsPromise == Rounds!Spec /\ NeverGoesBack /\ [](TypeOK /\ LoopInBounds /\ NothingLeftWaiting)
=============================================================================
