---------------------------- MODULE CallbackList ----------------------------
(***************************************************************************)
(* jQuery.Callbacks as operators on the record of its closure's variables: *)
(* the list, the queue of fire calls made while it is firing, the          *)
(* remembered value, and the indexes of the loop that calls the list.      *)
(*                                                                         *)
(* An index counts from 0, as in the code: list[firingIndex + 1] is the    *)
(* callback the loop is at.                                                *)
(***************************************************************************)
EXTENDS Subsequences, SequencesExt

CONSTANT None    \* JavaScript's undefined

\* options is the set of the flags that are true, of "once", "memory",
\* "unique" and "stopOnFalse".
NewList(options) ==
    [options |-> options,
     list |-> <<>>, live |-> TRUE,                          \* list is truthy
     stack |-> <<>>, stacking |-> "once" \notin options,    \* stack is truthy
     memory |-> None, fired |-> FALSE, firing |-> FALSE, data |-> None,
     firingStart |-> 0, firingLength |-> 0, firingIndex |-> 0]

\* fire, up to its loop.
Fire(L, data) ==
    [L EXCEPT !.memory = IF "memory" \in L.options THEN data ELSE None,
              !.fired = TRUE,
              !.firingIndex = L.firingStart,
              !.firingStart = 0,
              !.firingLength = Len(L.list),
              !.firing = TRUE,
              !.data = data]

\* The condition of the loop, and the callback it calls next.
MoreToCall(L) == L.live /\ L.firingIndex < L.firingLength
Callee(L) == L.list[L.firingIndex + 1]

Advance(L) == [L EXCEPT !.firingIndex = @ + 1]
Forget(L) == [L EXCEPT !.memory = None]

Disable(L) == [L EXCEPT !.live = FALSE, !.list = <<>>,
                        !.stacking = FALSE, !.stack = <<>>, !.memory = None]

\* fire, from the end of its loop on.
AfterLoop(L) ==
    LET M == [L EXCEPT !.firing = FALSE] IN
    IF ~M.live THEN M
    ELSE IF M.stacking
         THEN IF M.stack = <<>> THEN M
              ELSE Fire([M EXCEPT !.stack = Tail(@)], Head(M.stack))
    ELSE IF M.memory # None THEN [M EXCEPT !.list = <<>>]
    ELSE Disable(M)

Has(L, c) == L.live /\ Contains(L.list, c)

\* What add pushes of its arguments cs.
Pushed(L, cs) ==
    Subsequence(cs, {i \in DOMAIN cs :
        "unique" \in L.options => ~Has(L, cs[i]) /\ \A j \in 1..(i - 1) : cs[j] # cs[i]})

Add(L, cs) ==
    LET M == [L EXCEPT !.list = @ \o Pushed(L, cs)] IN
    IF ~L.live THEN L
    ELSE IF L.firing THEN [M EXCEPT !.firingLength = Len(M.list)]
    ELSE IF L.memory # None
         THEN Fire([M EXCEPT !.firingStart = Len(L.list)], L.memory)
    ELSE M

\* (Mutant: the callback being called does not count as passed.)
RemoveAllPassed(L, c) ==
    LET Step(bound) ==
            IF L.firing
            THEN bound - Cardinality({i \in 1..Len(L.list) : L.list[i] = c /\ i <= bound})
            ELSE bound
    IN [L EXCEPT !.list = Without(@, c), !.firingLength = Step(@), !.firingIndex = Step(@)]

\* remove: each c that is spliced out takes down the bounds it is not beyond;
\* position i has index i - 1.
RemoveAll(L, c) ==
    LET Step(bound) ==
            IF L.firing
            THEN bound - Cardinality({i \in 1..Len(L.list) : L.list[i] = c /\ i - 1 <= bound})
            ELSE bound
    IN [L EXCEPT !.list = Without(@, c), !.firingLength = Step(@), !.firingIndex = Step(@)]

Empty(L) == [L EXCEPT !.live = TRUE, !.list = <<>>, !.firingLength = 0]

Lock(L) ==
    LET M == [L EXCEPT !.stacking = FALSE, !.stack = <<>>]
    IN IF M.memory = None THEN Disable(M) ELSE M

\* The guard of fireWith.
Accepts(L) == L.live /\ (~L.fired \/ L.stacking)

FireWith(L, args) ==
    IF ~Accepts(L) THEN L
    ELSE IF L.firing THEN [L EXCEPT !.stack = Append(@, args)]
    ELSE Fire(L, args)
=============================================================================
