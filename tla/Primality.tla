----------------------------- MODULE Primality -----------------------------
(***************************************************************************)
(* What a Worker is asked to decide about a number, independently of how   *)
(* Worker.checkIsPrime decides it.  TrialDivision models the code's loops  *)
(* and is shown to compute Verdict; PrimeTester uses Verdict as the        *)
(* content of a CalculationFinished message.                               *)
(***************************************************************************)
EXTENDS Naturals

\* A CalculationFinished without a divider (a null reference in the code).
NoDivider == 0

Divides(d, n) == n % d = 0

IsPrime(n) == n > 1 /\ \A d \in 2..(n - 1) : ~Divides(d, n)

\* d is the smallest number above 1 that divides n.
IsLeastDivisor(d, n) ==
    /\ d \in 2..n
    /\ Divides(d, n)
    /\ \A e \in 2..(d - 1) : ~Divides(e, n)

LeastDivisor(n) == CHOOSE d \in 2..n : IsLeastDivisor(d, n)

\* The isPrime and divider fields of a CalculationFinished.  The code counts
\* 0 and 1 as prime.
Prime == [isPrime |-> TRUE, divider |-> NoDivider]
Composite(d) == [isPrime |-> FALSE, divider |-> d]

Verdict(n) ==
    IF n \in {0, 1} \/ IsPrime(n) THEN Prime ELSE Composite(LeastDivisor(n))
=============================================================================
