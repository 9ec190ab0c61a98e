------------------------------- MODULE Jsonp -------------------------------
(***************************************************************************)
(* JSONP requests: each lends a name of window to a function of its own,   *)
(* which the script that is the response calls.  The names jQuery makes up *)
(* are used again.  A request whose script is loaded by a tag may end      *)
(* before its script runs, and then the script runs nevertheless.  What is *)
(* promised depends on what the page does (habits).                        *)
(***************************************************************************)
EXTENDS Integers, Sequences, FiniteSets, SequencesExt

CONSTANTS
    Requests,
    None

\* The names: one that the page chooses, and those of jsonpCallback.
Shared == 0
Names == 0..Cardinality(Requests)

VARIABLES
    habits,        \* what the page does: "share", it opens requests of one name at a
                   \* time; "abort", it aborts a request while its tag is loading
    window,        \* the function under each name: "page", or a request's
    oldCallbacks,  \* the names that are free
    ajaxNonce,     \* the names made up so far
    name,          \* the name each request uses
    transport,     \* "tag" or "xhr", None before the request
    script,        \* whether the script of each request is still to run
    container,     \* responseContainer of each request
    overwritten,   \* the function each request replaced
    result,        \* what each request ended with: a response or "failed"
    told           \* history: the responses the page's own function got

vars == <<habits, window, oldCallbacks, ajaxNonce, name, transport, script, container,
          overwritten, result, told>>

Init ==
    /\ habits \in SUBSET {"share", "abort"}
    /\ \E f \in {"page", None} : window = [n \in Names |-> IF n = Shared THEN f ELSE None]
    /\ oldCallbacks = <<>>
    /\ ajaxNonce = 0
    /\ name = [r \in Requests |-> Shared]
    /\ transport = [r \in Requests |-> None]
    /\ script = {}
    /\ container = [r \in Requests |-> None]
    /\ overwritten = [r \in Requests |-> None]
    /\ result = [r \in Requests |-> None]
    /\ told = <<>>

Open(r) == transport[r] # None /\ result[r] = None
Opened == {r \in Requests : Open(r)}

-----------------------------------------------------------------------------
\* (Mutant: a name that is used again stays in the list.)
FreeNamesKept(n) == oldCallbacks

\* oldCallbacks without the name n, popped if it comes from there.
FreeNamesWithout(n) ==
    IF oldCallbacks # <<>> /\ n = Last(oldCallbacks) THEN Front(oldCallbacks) ELSE oldCallbacks

\* The default of jsonpCallback.
NewName == IF oldCallbacks # <<>> THEN Last(oldCallbacks) ELSE ajaxNonce + 1

\* The prefilter installs the callback, the transport loads the script.
Start(r, n, kind) ==
    /\ transport[r] = None
    /\ n \in {Shared, NewName}
    /\ n = Shared => "share" \in habits \/ \A q \in Opened : name[q] # Shared
    /\ name' = [name EXCEPT ![r] = n]
    /\ ajaxNonce' = IF n = ajaxNonce + 1 THEN n ELSE ajaxNonce
    /\ oldCallbacks' = FreeNamesWithout(n)
    /\ overwritten' = [overwritten EXCEPT ![r] = window[n]]
    /\ window' = [window EXCEPT ![n] = r]
    /\ transport' = [transport EXCEPT ![r] = kind]
    /\ script' = script \cup {r}
    /\ UNCHANGED <<habits, container, result, told>>

\* Function f is called with the response v: what the containers and the page
\* have then.
Filled(f, v, c) == IF f \in Requests THEN [c EXCEPT ![f] = v] ELSE c
Told(f, v, t) == IF f = "page" THEN Append(t, v) ELSE t

\* What the clean-up puts back.
PutBack(r) == overwritten[r]

\* Whom the clean-up calls with the response: the function it put back.
TellsNext(r, c) == IF c[r] = None THEN "nobody" ELSE overwritten[r]

\* "Save back as free", if jQuery made the name up.
Freed(r) == IF name[r] = Shared THEN oldCallbacks ELSE Append(oldCallbacks, name[r])

\* The request ends: converters first, given that the containers are c and the
\* page was told t, then the clean-up.
End(r, success, c, t) ==
    /\ result' = [result EXCEPT ![r] = IF success /\ c[r] # None THEN c[r] ELSE "failed"]
    /\ window' = [window EXCEPT ![name[r]] = PutBack(r)]
    /\ oldCallbacks' = Freed(r)
    /\ container' = [Filled(TellsNext(r, c), c[r], c) EXCEPT ![r] = None]
    /\ told' = Told(TellsNext(r, c), c[r], t)
    /\ overwritten' = [overwritten EXCEPT ![r] = None]
    /\ UNCHANGED <<habits, ajaxNonce, name, transport>>

\* The script of a tag runs, also if the request is over by now.
ScriptRuns(r) ==
    /\ transport[r] = "tag" /\ r \in script
    /\ script' = script \ {r}
    /\ container' = Filled(window[name[r]], r, container)
    /\ told' = Told(window[name[r]], r, told)
    /\ UNCHANGED <<habits, window, oldCallbacks, ajaxNonce, name, transport, overwritten,
                   result>>

\* The load event of the tag, after the script has run, and its error event.
Loaded(r) ==
    /\ Open(r) /\ transport[r] = "tag"
    /\ r \notin script
    /\ End(r, TRUE, container, told)
    /\ UNCHANGED script

LoadFails(r) ==
    /\ Open(r) /\ transport[r] = "tag"
    /\ r \in script
    /\ script' = script \ {r}
    /\ End(r, FALSE, container, told)

\* The XMLHttpRequest answers: the converter to script evaluates the text, also
\* that of an error ("no matter what").
XhrAnswers(r, success) ==
    /\ Open(r) /\ transport[r] = "xhr"
    /\ script' = script \ {r}
    /\ End(r, success, Filled(window[name[r]], r, container), Told(window[name[r]], r, told))

\* abort, of the page or of the timeout, which removes the tag; and the error event
\* of an XMLHttpRequest, which brings no text.
Abort(r) ==
    /\ Open(r)
    /\ transport[r] = "tag" /\ r \in script => "abort" \in habits
    /\ script' = IF transport[r] = "tag" THEN script ELSE script \ {r}
    /\ End(r, FALSE, container, told)

Next == \E r \in Requests :
    \/ \E n \in Names, kind \in {"tag", "xhr"} : Start(r, n, kind)
    \/ ScriptRuns(r)
    \/ Loaded(r)
    \/ LoadFails(r)
    \/ \E success \in BOOLEAN : XhrAnswers(r, success)
    \/ Abort(r)

Spec == Init /\ [][Next]_vars
-----------------------------------------------------------------------------
\* Only names that were made up are in use or free.
TypeOK ==
    /\ window \in [Names -> Requests \cup {"page", None}]
    /\ ToSet(oldCallbacks) \subseteq 1..ajaxNonce
    /\ name \in [Requests -> 0..ajaxNonce]
    /\ container \in [Requests -> Requests \cup {None}]
    /\ result \in [Requests -> Requests \cup {"failed", None}]
    /\ told \in Seq(Requests)

\* Names that one request has at a time: those that jQuery makes up, and the one
\* the page chooses if it does not share it.
Kept(n) == n # Shared \/ "share" \notin habits

\* A request gets its own response, unless its name is shared or an aborted request
\* had the name whose script is late; then too no two get the same response.
OwnResponse ==
    /\ "abort" \notin habits =>
           \A r \in Requests : Kept(name[r]) => result[r] \in {r, "failed", None}
    /\ "share" \notin habits =>
           \A r, q \in Requests : result[r] = result[q] /\ result[r] \in Requests => r = q

\* "Save back as free": a name in the list is neither the name of an open request
\* nor in it twice, and no script is on its way that would call it, but for that of
\* an aborted request.
FreeIsFree ==
    /\ IsInjective(oldCallbacks)
    /\ \A r \in Opened \cup {q \in script : "abort" \notin habits} :
           name[r] \notin ToSet(oldCallbacks)

\* "Restore preexisting value": when no request is open, window is as before, but
\* for a name that was shared.
Restored ==
    Opened = {} => \A n \in Names : Kept(n) => window[n] \notin Requests

PageHasFunction == window[Shared] = "page" \/ \E q \in Opened : overwritten[q] = "page"

\* "Call if it was a function and we have a response": the function the page has
\* under a name that is not shared gets the response of every request that succeeds
\* with it, and no response ever twice.
PageTold ==
    /\ IsInjective(told)
    /\ "share" \notin habits /\ PageHasFunction =>
           \A r \in Requests : result[r] = r /\ name[r] = Shared => r \in ToSet(told)

\* The jsonp prefilter keeps requests apart as far as the page lets it: each gets
\* its own response, through a name of its own, and the page gets its functions back.
JsonpInv == TypeOK /\ OwnResponse /\ FreeIsFree /\ Restored /\ PageTold
=============================================================================
