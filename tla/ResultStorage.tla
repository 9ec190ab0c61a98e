--------------------------- MODULE ResultStorage ---------------------------
(***************************************************************************)
(* The ResultStorage actor: the verdicts, by number string, in memory.     *)
(***************************************************************************)
EXTENDS Protocol

VARIABLE results    \* HashMap<String, CalculationFinished>

ResultStorageInit == results = [s \in Numbers |-> Null]

\* (Mutant: composite numbers are not stored.)
StorePrime(m) ==
    IF m.verdict = Prime THEN results' = [results EXCEPT ![m.number] = m] ELSE UNCHANGED results

StoreResult(m) == results' = [results EXCEPT ![m.number] = m]

\* CalculationFinished is stored; CalculationStarted, which the topic carries
\* too, is unhandled.
ReceiveResult(w) ==
    /\ Receive("resultStorage", w)
    /\ LET m == Head(mail["resultStorage"][w])
       IN IF m.class = "CalculationFinished"
          THEN StoreResult(m)
          ELSE UNCHANGED results

\* GetCalculationResultMessage: whether the reply is a result or NOT_FOUND.
HasResult(s) == results[s] # Null

ResultStorageTypeOK == results \in [Numbers -> FinishEvents \cup {Null}]
=============================================================================
