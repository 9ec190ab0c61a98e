------------------------------ MODULE MCEvents ------------------------------
(***************************************************************************)
(* Events on an element and its parent, with a delegate, a handler bound   *)
(* by one() and one with a namespace.                                      *)
(***************************************************************************)
EXTENDS Events

CONSTANTS inner, outer, f, g, ns

MCElements == <<inner, outer>>

MCBindings ==
    {[fn |-> f, selector |-> None, one |-> FALSE, namespace |-> {}],
     [fn |-> g, selector |-> None, one |-> TRUE, namespace |-> {ns}],
     [fn |-> f, selector |-> inner, one |-> FALSE, namespace |-> {}]}
=============================================================================
