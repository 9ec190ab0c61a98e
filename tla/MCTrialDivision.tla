-------------------------- MODULE MCTrialDivision --------------------------
(***************************************************************************)
(* TrialDivision for every number up to MaxNumber: squares of primes,      *)
(* neighbours of squares and of powers of two, primes and 0, 1, 2 are all  *)
(* below it.                                                               *)
(***************************************************************************)
EXTENDS TrialDivision

CONSTANT MaxNumber

MCNumbers == 0..MaxNumber
=============================================================================
