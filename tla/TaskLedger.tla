----------------------------- MODULE TaskLedger -----------------------------
(***************************************************************************)
(* What Prime Tester promises to those who talk to its frontend, without   *)
(* actors, routers and messages: tasks are numbered 1, 2, ... and move     *)
(* forward, and the numbers of tasks get results.  A frontend that has     *)
(* started again (a later life) promises less: what is left of the earlier *)
(* life may move any task.                                                 *)
(***************************************************************************)
EXTENDS Naturals

CONSTANTS Numbers, TaskIds, Null

VARIABLES
    counter,    \* the id that was given out last
    status,     \* "QUEUED", "STARTED" or "FINISHED"; Null for an unknown id
    number,     \* the number of each task
    verdicts,   \* the numbers with a result
    lives       \* how often the frontend's tasks were forgotten

ledgerVars == <<counter, status, number, verdicts, lives>>

NoTask == [t \in TaskIds |-> Null]

LedgerInit ==
    /\ counter = 0
    /\ status = NoTask
    /\ number = NoTask
    /\ verdicts = {}
    /\ lives = 0

Queue(s) ==
    /\ counter + 1 \in TaskIds
    /\ counter' = counter + 1
    /\ status' = [status EXCEPT ![counter + 1] = "QUEUED"]
    /\ number' = [number EXCEPT ![counter + 1] = s]
    /\ UNCHANGED <<verdicts, lives>>

Start(t) ==
    /\ lives = 0 => status[t] = "QUEUED"
    /\ status' = [status EXCEPT ![t] = "STARTED"]
    /\ UNCHANGED <<counter, number, verdicts, lives>>

\* The task may not have been seen to start.
Finish(t) ==
    /\ lives = 0 => status[t] \in {"QUEUED", "STARTED"}
    /\ status' = [status EXCEPT ![t] = "FINISHED"]
    /\ UNCHANGED <<counter, number, verdicts, lives>>

\* The result of a number becomes known, before or after its task is finished.
Record(s) ==
    /\ lives = 0 => \E t \in TaskIds : number[t] = s
    /\ verdicts' = verdicts \cup {s}
    /\ UNCHANGED <<counter, status, number, lives>>

\* The tasks are forgotten; the results, too, if the whole process starts again.
Forget ==
    /\ counter' = 0
    /\ status' = NoTask
    /\ number' = NoTask
    /\ verdicts' \in {verdicts, {}}
    /\ lives' = lives + 1

LedgerNext ==
    \/ \E s \in Numbers : Queue(s) \/ Record(s)
    \/ \E t \in TaskIds : Start(t) \/ Finish(t)
    \/ Forget

Spec == LedgerInit /\ [][LedgerNext]_ledgerVars
=============================================================================
