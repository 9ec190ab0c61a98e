--------------------------- MODULE TrialDivision ---------------------------
(***************************************************************************)
(* Worker.checkIsPrime and Worker.approximateRoot, one action per loop     *)
(* step.  BigInteger arithmetic is exact, so the numbers are naturals.     *)
(***************************************************************************)
EXTENDS Primality

CONSTANT Inputs      \* the numbers a task may carry

ASSUME InputsAssumption == Inputs \subseteq Nat

VARIABLES
    n,          \* the number under test
    pc,         \* "start", "root", "divide" or "done"
    half,       \* local of approximateRoot
    root,       \* local of checkIsPrime
    divider,    \* loop variable of checkIsPrime
    verdict     \* the fields of the CalculationFinished returned

calculationVars == <<n, pc, half, root, divider, verdict>>

CalculationInit ==
    /\ n \in Inputs
    /\ pc = "start"
    /\ half = 0
    /\ root = 0
    /\ divider = 0
    /\ verdict = Prime

Return(v) ==
    /\ pc' = "done"
    /\ verdict' = v

\* ZERO, ONE and TWO are answered without a calculation.
AnswerSmall ==
    /\ pc = "start"
    /\ n \in {0, 1, 2}
    /\ Return(Prime)
    /\ UNCHANGED <<n, half, root, divider>>

\* approximateRoot starts from n >> 1 ...
StartRoot ==
    /\ pc = "start"
    /\ n \notin {0, 1, 2}
    /\ pc' = "root"
    /\ half' = n \div 2
    /\ UNCHANGED <<n, root, divider, verdict>>

\* ... halves it while its square exceeds n ...
HalveRoot ==
    /\ pc = "root"
    /\ half * half > n
    /\ half' = half \div 2
    /\ UNCHANGED <<n, pc, root, divider, verdict>>

\* (Mutant: the final shiftLeft is missing.)
RootNotDoubled(h) == h

\* ... and returns the double of the last value.
RootFound(h) == 2 * h

StartDividing ==
    /\ pc = "root"
    /\ half * half <= n
    /\ root' = RootFound(half)
    /\ divider' = 2
    /\ pc' = "divide"
    /\ UNCHANGED <<n, half, verdict>>

\* BigInteger.nextProbablePrime: a larger number that skips no prime.  The
\* result may be composite, so any such number is a possible result; one that
\* skips no prime is never above twice its argument.
NextProbablePrimes(d) ==
    {e \in (d + 1)..(2 * d) : \A k \in (d + 1)..(e - 1) : ~IsPrime(k)}

Divide ==
    /\ pc = "divide"
    /\ divider <= root
    /\ Divides(divider, n)
    /\ Return(Composite(divider))
    /\ UNCHANGED <<n, half, root, divider>>

\* (Mutant: the loop only ever advances to a prime next to the divider.)
NextAdjacentDivider ==
    /\ pc = "divide"
    /\ divider <= root
    /\ ~Divides(divider, n)
    /\ divider' = IF IsPrime(divider + 1) THEN divider + 1 ELSE divider
    /\ UNCHANGED <<n, pc, half, root, verdict>>

NextDivider ==
    /\ pc = "divide"
    /\ divider <= root
    /\ ~Divides(divider, n)
    /\ divider' \in NextProbablePrimes(divider)
    /\ UNCHANGED <<n, pc, half, root, verdict>>

Exhausted ==
    /\ pc = "divide"
    /\ divider > root
    /\ Return(Prime)
    /\ UNCHANGED <<n, half, root, divider>>

Calculate ==
    \/ AnswerSmall
    \/ StartRoot
    \/ HalveRoot
    \/ StartDividing
    \/ Divide
    \/ NextDivider
    \/ Exhausted

CalculationSpec == CalculationInit /\ [][Calculate]_calculationVars /\ WF_calculationVars(Calculate)
-----------------------------------------------------------------------------
CalculationTypeOK ==
    /\ n \in Inputs
    /\ pc \in {"start", "root", "divide", "done"}
    /\ half \in Nat
    /\ root \in Nat
    /\ divider \in Nat
    /\ verdict \in [isPrime : BOOLEAN, divider : Nat]

\* The answer Worker.checkIsPrime returns is right for every number: it says
\* "prime" exactly for 0, 1 and the primes, and the divider it reports for a
\* composite number is that number's smallest divisor above 1, although the
\* loop stops at an approximation of the square root.
VerdictCorrect == pc = "done" => verdict = Verdict(n)

\* The inductive strengthening of VerdictCorrect: the square root is below
\* (2 * half + 1) while it is approximated and below root + 1 afterwards, and
\* no number below the current divider divides n.
RootInv ==
    pc = "root" =>
        /\ n > 2
        /\ half >= 1
        /\ 2 * half <= n
        /\ (2 * half + 1) * (2 * half + 1) > n

DivideInv ==
    pc = "divide" =>
        /\ n > 2
        /\ root <= n
        /\ root % 2 = 0
        /\ (root + 1) * (root + 1) > n
        /\ divider >= 2
        /\ \A e \in 2..(divider - 1) : ~Divides(e, n)

\* The loop invariants of approximateRoot and of the trial division, together.
CalculationInv == CalculationTypeOK /\ RootInv /\ DivideInv /\ VerdictCorrect

\* The calculation ends for every number, so a Worker that has published
\* CalculationStarted goes on to publish CalculationFinished.
Termination == <>(pc = "done")
=============================================================================
