------------------------------ MODULE Scripts ------------------------------
(***************************************************************************)
(* Script elements that jQuery moves about: when is a script evaluated?    *)
(* jQuery masks the types of all scripts it inserts while it inserts them, *)
(* so that the browser runs none, and evaluates them itself afterwards;    *)
(* the private flag "globalEval" remembers those that had their turn.      *)
(*                                                                         *)
(* The page has two containers and, outside of it, an element that may be  *)
(* inserted with the scripts it holds.  A script that is evaluated may     *)
(* insert and move scripts, the ones still waiting included.               *)
(***************************************************************************)
EXTENDS Integers, Sequences, FiniteSets, SequencesExt

CONSTANTS
    ScriptNodes,   \* the script elements there may be
    MaxUses        \* bound: calls of jQuery by the page and its scripts

ASSUME ScriptsAssumption == MaxUses \in Nat /\ IsFiniteSet(ScriptNodes)

VARIABLES
    reentrant,   \* whether this page's scripts call jQuery
    removes,     \* whether remove and empty are called on this page
    home,        \* where each script is
    holder,      \* where the element that holds scripts is
    globalEval,  \* the scripts with the private flag
    content,     \* the script each was cloned from first
    pending,     \* the evaluation loops of domManip, the innermost last
    evaluating,  \* whether the innermost loop is in a script
    uses,
    spent,       \* history: scripts that were evaluated, or cloned from such
    again,       \* history: scripts that were evaluated although spent
    thrown       \* history: a script has thrown

vars == <<reentrant, removes, home, holder, globalEval, content, pending, evaluating, uses,
          spent, again, thrown>>

Page == {"page1", "page2"}

\* (Of a page that does both, not much can be said.)
Init ==
    /\ reentrant \in BOOLEAN
    /\ removes \in BOOLEAN
    /\ ~(reentrant /\ removes)
    /\ home = [s \in ScriptNodes |-> "unborn"]
    /\ holder = "out"
    /\ globalEval = {}
    /\ content = [s \in ScriptNodes |-> s]
    /\ pending = <<>>
    /\ evaluating = FALSE
    /\ uses = 0
    /\ spent = {}
    /\ again = {}
    /\ thrown = FALSE

-----------------------------------------------------------------------------
\* jQuery.contains(document, s).
InPage(s) == home[s] \in Page \/ (home[s] = "holder" /\ holder \in Page)

Unborn == {s \in ScriptNodes : home[s] = "unborn"}
Held == {s \in ScriptNodes : home[s] = "holder"}

\* Code runs that may call jQuery.
Use ==
    /\ pending = <<>> \/ (evaluating /\ reentrant)
    /\ uses < MaxUses
    /\ uses' = uses + 1

\* document.createElement("script").
Create(s) ==
    /\ Use
    /\ s \in Unborn
    /\ home' = [home EXCEPT ![s] = "out"]
    /\ UNCHANGED <<holder, globalEval, content, pending, evaluating, spent, again, thrown>>

\* buildFragment: the scripts ss that are in the page have had their turn.
AlreadyInserted(ss) == {s \in ss : InPage(s)}

\* The evaluations of a set of scripts, for the history.
Evaluates(ss) ==
    /\ again' = again \cup (ss \cap spent)
    /\ spent' = spent \cup ss

\* domManip with nodes, new or old, for one target or for two.  The fragment
\* itself goes to the last target, a clone to the other one.  New scripts come
\* from HTML; clones have the flags of their originals.  Those of the fragment
\* itself are candidates for evaluation.
DomManip(scripts, clones, target, holderMoves) ==
    LET Ss == ToSet(scripts)
        Cs == ToSet(clones)
        Original(c) == scripts[SelectInSeq(clones, LAMBDA x : x = c)]
        NewFlags == globalEval \cup AlreadyInserted(Ss)
    IN
    /\ home' = [s \in ScriptNodes |->
                   IF s \in Cs THEN "page1"
                   ELSE IF s \in Ss THEN IF holderMoves THEN "holder" ELSE target
                   ELSE home[s]]
    /\ holder' = IF holderMoves THEN target ELSE holder
    /\ globalEval' = NewFlags \cup {c \in Cs : Original(c) \in NewFlags}
    /\ content' = [s \in ScriptNodes |-> IF s \in Cs THEN content[Original(s)] ELSE content[s]]
    /\ pending' = IF scripts = <<>> THEN pending
                  ELSE Append(pending, scripts)
    /\ evaluating' = (evaluating /\ scripts = <<>>)
    /\ spent' = spent \cup {c \in Cs : Original(c) \in spent}
    /\ UNCHANGED <<again, thrown>>

\* append and its kin, with one or two scripts for one target,
AppendScripts(scripts, target) ==
    /\ Use
    /\ DomManip(scripts, <<>>, target, FALSE)

\* with a script for both containers of the page,
AppendToBoth(s, clone) ==
    /\ Use
    /\ s # clone /\ clone \in Unborn
    /\ DomManip(<<s>>, <<clone>>, "page2", FALSE)

\* and with the element that holds scripts.
AppendHolder(target) ==
    /\ Use
    /\ DomManip(SetToSeq(Held), <<>>, target, TRUE)

\* rscriptType, the flag and contains decide whether the next script of the
\* innermost loop is evaluated.
EvaluateNext ==
    /\ pending # <<>> /\ ~evaluating
    /\ Last(pending) # <<>>
    /\ LET s == Head(Last(pending)) IN
        /\ pending' = [pending EXCEPT ![Len(pending)] = Tail(@)]
        /\ IF s \notin globalEval /\ InPage(s)
           THEN evaluating' = TRUE /\ Evaluates({s})
           ELSE UNCHANGED <<evaluating, spent, again>>
    /\ UNCHANGED <<home, holder, globalEval, content, uses, thrown>>

ScriptEnds ==
    /\ evaluating
    /\ evaluating' = FALSE
    /\ UNCHANGED <<home, holder, globalEval, content, pending, uses, spent, again, thrown>>

\* The exception leaves all the loops.
ScriptThrows ==
    /\ evaluating
    /\ evaluating' = FALSE
    /\ pending' = <<>>
    /\ thrown' = TRUE
    /\ UNCHANGED <<home, holder, globalEval, content, uses, spent, again>>

\* domManip returns, to the page or to the script that called it.
LoopEnds ==
    /\ pending # <<>> /\ ~evaluating
    /\ Last(pending) = <<>>
    /\ pending' = Front(pending)
    /\ evaluating' = (Len(pending) > 1)
    /\ UNCHANGED <<home, holder, globalEval, content, uses, spent, again, thrown>>

\* (Mutant: a node that is detached keeps its data, and that is all.)
DetachUnmarked(s) ==
    /\ Use
    /\ home[s] \notin {"unborn", "out"}
    /\ home' = [home EXCEPT ![s] = "out"]
    /\ UNCHANGED <<holder, globalEval, content, pending, evaluating, spent, again, thrown>>

\* detach, which is remove with keepData.
Detach(s) ==
    /\ Use
    /\ home[s] \notin {"unborn", "out"}
    /\ globalEval' = globalEval \cup AlreadyInserted({s})
    /\ home' = [home EXCEPT ![s] = "out"]
    /\ UNCHANGED <<holder, content, pending, evaluating, spent, again, thrown>>

\* So with the element that holds scripts.
DetachHolder ==
    /\ Use
    /\ holder \in Page
    /\ globalEval' = globalEval \cup AlreadyInserted(Held)
    /\ holder' = "out"
    /\ UNCHANGED <<home, content, pending, evaluating, spent, again, thrown>>

\* remove: cleanData takes the flag with it.
RemoveNode(s) ==
    /\ Use
    /\ removes
    /\ home[s] # "unborn"
    /\ globalEval' = globalEval \ {s}
    /\ home' = [home EXCEPT ![s] = "out"]
    /\ UNCHANGED <<holder, content, pending, evaluating, spent, again, thrown>>

RemoveHolder ==
    /\ Use
    /\ removes
    /\ globalEval' = globalEval \ Held
    /\ holder' = "out"
    /\ UNCHANGED <<home, content, pending, evaluating, spent, again, thrown>>

\* empty of a container: so with all it holds, the element with scripts included.
EmptyNode(c) ==
    /\ Use
    /\ removes
    /\ LET inside == {s \in ScriptNodes : home[s] = c} IN
        /\ globalEval' = globalEval \ (inside \cup IF holder = c THEN Held ELSE {})
        /\ home' = [s \in ScriptNodes |-> IF s \in inside THEN "out" ELSE home[s]]
    /\ holder' = IF holder = c THEN "out" ELSE holder
    /\ UNCHANGED <<content, pending, evaluating, spent, again, thrown>>

\* clone of a script: it has the flag of its original, or the flag if that is in
\* the page.
Clone(s, clone) ==
    /\ Use
    /\ home[s] # "unborn" /\ clone \in Unborn
    /\ home' = [home EXCEPT ![clone] = "out"]
    /\ globalEval' = IF InPage(s) \/ s \in globalEval THEN globalEval \cup {clone} ELSE globalEval
    /\ content' = [content EXCEPT ![clone] = content[s]]
    /\ spent' = IF s \in spent THEN spent \cup {clone} ELSE spent
    /\ UNCHANGED <<holder, pending, evaluating, again, thrown>>

Next ==
    /\ UNCHANGED <<reentrant, removes>>
    /\ \/ \E s \in ScriptNodes :
           \/ Create(s)
           \/ Detach(s)
           \/ RemoveNode(s)
           \/ \E clone \in ScriptNodes : Clone(s, clone) \/ AppendToBoth(s, clone)
           \/ \E target \in Page \cup {"holder"} : AppendScripts(<<s>>, target)
           \/ \E other \in ScriptNodes \ {s} : AppendScripts(<<s, other>>, "page1")
       \/ \E target \in Page : AppendHolder(target)
       \/ DetachHolder \/ RemoveHolder
       \/ \E c \in Page \cup {"holder"} : EmptyNode(c)
       \/ EvaluateNext
       \/ ScriptEnds
       \/ ScriptThrows
       \/ LoopEnds

Spec == Init /\ [][Next]_vars
-----------------------------------------------------------------------------
\* A script that does not exist yet has no history.
TypeOK ==
    /\ home \in [ScriptNodes -> {"unborn", "out", "holder"} \cup Page]
    /\ holder \in {"out"} \cup Page
    /\ globalEval \cup spent \cup again \subseteq ScriptNodes \ Unborn
    /\ content \in [ScriptNodes -> ScriptNodes]
    /\ \A i \in DOMAIN pending : pending[i] \in Seq(ScriptNodes)
    /\ evaluating => pending # <<>>

\* "Evaluate executable scripts on first document insertion": no script, and no
\* clone of an evaluated one, is evaluated a second time, however it is moved, by
\* scripts that are being evaluated, too.
EvaluatedOnce == again = {}

\* And none is left out: when the insertions are over, the content of every
\* script in the page has been evaluated, unless a script has thrown.
NoneLeftOut ==
    pending = <<>> /\ ~thrown =>
        \A s \in ScriptNodes : InPage(s) => \E e \in spent : content[e] = content[s]

\* domManip evaluates every script once.
\* (A script that is removed, not detached, forgets that it was evaluated; and
\* one that another script moves before its turn may be passed over.)
ScriptsInv ==
    /\ TypeOK
    /\ ~removes => EvaluatedOnce
    /\ ~reentrant => NoneLeftOut
=============================================================================
