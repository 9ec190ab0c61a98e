--------------------------- MODULE CallbackParts ---------------------------
(***************************************************************************)
(* A callback list in use (Callbacks), the three lists of a Deferred       *)
(* (Deferred) and the Deferred that waits for the document (Ready).  They  *)
(* are different lists, so that a behaviour is one of one part.            *)
(***************************************************************************)
EXTENDS Callbacks

CONSTANTS
    MaxDeferredUses,   \* bound: calls of the methods of the Deferred
    MaxHolds           \* bound: calls of holdReady(true)

\* A function is none of the callbacks a Deferred has of its own, and None no
\* value and no call.
ASSUME PartsAssumption ==
    /\ MaxDeferredUses \in Nat
    /\ MaxHolds \in Nat
    /\ Functions \cap {"setState", "disableOther", "lockProgress"} = {}
    /\ None \notin 1..MaxDeferredUses
    /\ None \notin {"resolved", "rejected"} \X Functions

VARIABLES
    state, lists, running, calling, deferredUses, late, told, deferredThrown,
    isReady, readyWait, readyList, waiting, readyFiring, bound, listening, timer, document,
    readyStack, ran, held, holds,
    part    \* the part that this behaviour is about

D == INSTANCE Deferred
    WITH MaxUses <- MaxDeferredUses, uses <- deferredUses, thrown <- deferredThrown

R == INSTANCE Ready WITH Unbalanced <- FALSE, firing <- readyFiring, stack <- readyStack

deferredVars == <<state, lists, running, calling, deferredUses, late, told, deferredThrown>>
readyVars ==
    <<isReady, readyWait, readyList, waiting, readyFiring, bound, listening, timer, document,
      readyStack, ran, held, holds>>
allVars == <<vars, deferredVars, readyVars, part>>

AllInit ==
    /\ part \in {"list", "deferred", "ready"}
    /\ Init
    /\ part # "list" => L.options = {}
    /\ D!Init
    /\ R!Init

AllNext ==
    /\ UNCHANGED part
    /\ \/ part = "list" /\ Next /\ UNCHANGED deferredVars /\ UNCHANGED readyVars
       \/ part = "deferred" /\ D!Next /\ UNCHANGED vars /\ UNCHANGED readyVars
       \/ part = "ready" /\ R!Next /\ UNCHANGED vars /\ UNCHANGED deferredVars

\* The fairness of Deferred!FairSpec and Ready!FairSpec.
AllSpec ==
    /\ AllInit
    /\ [][AllNext]_allVars
    /\ \A n \in D!ListNames :
           WF_deferredVars(part = "deferred" /\ (D!CallOwn(n) \/ D!CallHandler(n) \/ D!LeaveList(n)))
    /\ WF_deferredVars(part = "deferred" /\ (D!HandlerReturns \/ D!HandlerThrows))
    /\ WF_readyVars(part = "ready" /\ R!DocumentChanges)
    /\ WF_readyVars(part = "ready" /\ R!TimerEnds)
    /\ WF_readyVars(part = "ready" /\ R!Continue)

\* The callback list, with its indexes and its stack of fire calls, implements
\* the rounds of CallbackRounds.
ListKeepsPromise == KeepsPromise

\* The Deferred, made of three lists, implements Promise.
DeferredKeepsPromise == D!KeepsPromise

\* A function that waits for the document runs when it is there and nothing
\* holds it back, not earlier, and it does run, unless another one throws: ready and
\* holdReady.  So does every handler of the outcome of a Deferred.
WaitersRun == R!RunsWhenReady /\ D!HandlersRun
=============================================================================
