--------------------------- MODULE MCPrimeTester ---------------------------
(***************************************************************************)
(* PrimeTester with small sets of numbers, routees and event streams.      *)
(***************************************************************************)
EXTENDS PrimeTester, TLC

CONSTANTS w1, w2, b1, b2

\* A prime and a composite number.
MCNumbers == {"7", "9"}
OneNumber == {"9"}
MCValue == [s \in Numbers |-> IF s = "7" THEN 7 ELSE 9]

MCWorkers == {w1, w2}
MCStreams == {b1, b2}
OneStream == {b1}

\* Routees are interchangeable, and so are event streams.
Symmetry == Permutations(MCWorkers) \cup Permutations(MCStreams)
=============================================================================
