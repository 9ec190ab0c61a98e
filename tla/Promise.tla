------------------------------ MODULE Promise ------------------------------
(***************************************************************************)
(* What a jQuery.Deferred promises to those who hold it: it settles at     *)
(* most once; the handlers of that outcome, and only they, are called,     *)
(* each once, in the order in which they were added, whether they were     *)
(* added before or after.                                                  *)
(***************************************************************************)
EXTENDS Sequences

CONSTANTS
    Functions,   \* the handlers
    None

VARIABLES
    state,       \* "pending", "resolved" or "rejected"
    owed,        \* owed[s]: the handlers still to be called for outcome s
    call         \* the handler being called, <<outcome, handler>>, or None

vars == <<state, owed, call>>

Outcomes == {"resolved", "rejected"}

Init ==
    /\ state = "pending"
    /\ owed = [s \in Outcomes |-> <<>>]
    /\ call = None

\* A handler for an outcome that can no longer come about is forgotten.
On(s, h) ==
    /\ owed' = IF state \in {"pending", s} THEN [owed EXCEPT ![s] = Append(@, h)] ELSE owed
    /\ UNCHANGED <<state, call>>

Settle(s) ==
    /\ state = "pending"
    /\ state' = s
    /\ owed' = [o \in Outcomes |-> IF o = s THEN owed[o] ELSE <<>>]
    /\ UNCHANGED call

Call ==
    /\ state # "pending"
    /\ call = None
    /\ owed[state] # <<>>
    /\ call' = <<state, Head(owed[state])>>
    /\ owed' = [owed EXCEPT ![state] = Tail(@)]
    /\ UNCHANGED state

Return ==
    /\ call # None
    /\ call' = None
    /\ UNCHANGED <<state, owed>>

Next ==
    \/ \E s \in Outcomes, h \in Functions : On(s, h)
    \/ \E s \in Outcomes : Settle(s)
    \/ Call
    \/ Return

Spec == Init /\ [][Next]_vars
=============================================================================
