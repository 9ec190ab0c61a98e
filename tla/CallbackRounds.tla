--------------------------- MODULE CallbackRounds ---------------------------
(***************************************************************************)
(* What a callback list promises, without indexes: a fired value is a      *)
(* round, in which every callback that is a member when the round begins,  *)
(* or joins during it, is called once and in the order of joining, unless  *)
(* it leaves first or the round is stopped.                                *)
(***************************************************************************)
EXTENDS Subsequences

CONSTANTS
    Functions,    \* the callbacks
    Values,       \* what is fired
    None

VARIABLES
    members,    \* the callbacks, in order
    todo,       \* those still to be called in this round
    round,      \* the value of this round, or None
    call        \* the call in progress, <<callback, value>>, or None

vars == <<members, todo, round, call>>

Arrivals == {<<>>} \cup [1..1 -> Functions] \cup [1..2 -> Functions]

Init == members = <<>> /\ todo = <<>> /\ round = None /\ call = None

\* Callbacks that join take part in the round, or open one of their own with
\* the value that was fired last.
Join ==
    \E cs \in Arrivals :
        /\ members' = members \o cs
        /\ \/ round # None /\ todo' = todo \o cs /\ UNCHANGED round
           \/ round = None /\ UNCHANGED <<todo, round>>
           \/ round = None /\ todo' = cs /\ round' \in Values
        /\ UNCHANGED call

Leave ==
    \E c \in Functions :
        /\ members' = Without(members, c)
        /\ todo' = Without(todo, c)
        /\ UNCHANGED <<round, call>>

Begin ==
    /\ round = None
    /\ round' \in Values
    /\ todo' = members
    /\ UNCHANGED <<members, call>>

Invoke ==
    /\ call = None
    /\ todo # <<>>
    /\ call' = <<Head(todo), round>>
    /\ todo' = Tail(todo)
    /\ UNCHANGED <<members, round>>

Return ==
    /\ call # None
    /\ call' = None
    /\ UNCHANGED <<members, todo, round>>

\* A round is over when nobody is left to be called, or a callback stops it.
\* It may be the last one, or the next may follow at once.
End ==
    /\ round # None
    /\ \/ call = None /\ todo = <<>>
       \/ call # None
    /\ call' = None
    /\ \/ round' = None /\ todo' = <<>> /\ (members' = members \/ members' = <<>>)
       \/ round' \in Values /\ todo' = members /\ UNCHANGED members

\* disable and empty.
Dissolve ==
    /\ members' = <<>>
    /\ todo' = <<>>
    /\ UNCHANGED <<round, call>>

Next == Join \/ Leave \/ Begin \/ Invoke \/ Return \/ End \/ Dissolve

Spec == Init /\ [][Next]_vars
=============================================================================
