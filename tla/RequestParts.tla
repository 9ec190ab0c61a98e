---------------------------- MODULE RequestParts ----------------------------
(***************************************************************************)
(* The three parts of a request: ajax and its transport (Ajax), what       *)
(* becomes of the response (AjaxConvert) and the callbacks of JSONP        *)
(* (Jsonp).  ajaxConvert runs within done, and a JSONP callback is called  *)
(* from a script: they share no state with the life of a request, so that  *)
(* a behaviour is one of one part, while the others stay as they are.      *)
(***************************************************************************)
EXTENDS Ajax

CONSTANTS
    Types,           \* the data types of responses
    MaxConverters,   \* bound: converters that are registered
    ScriptRequests   \* the JSONP requests

\* The automatic type "*" is none of the types; what a name of window may stand for,
\* and how a request may end, are told apart from the requests.
ASSUME PartsAssumption ==
    /\ "*" \notin Types
    /\ None \notin Types /\ None # "*" /\ \A ts \in SUBSET Types : None # ts
    /\ IsFiniteSet(ScriptRequests)
    /\ ScriptRequests \cap {"page", "nobody", "failed", None} = {}
    /\ None \notin {"page", "nobody", "failed", "tag", "xhr"}

VARIABLES
    converters, contentType, responses, dataTypes, asked, current, response, fields, phase,
    habits, window, oldCallbacks, ajaxNonce, name, transport, script, container,
    overwritten, result, told,
    part    \* the part that this behaviour is about

Convert == INSTANCE AjaxConvert

Script == INSTANCE Jsonp WITH Requests <- ScriptRequests

convertVars ==
    <<converters, contentType, responses, dataTypes, asked, current, response, fields, phase>>
scriptVars ==
    <<habits, window, oldCallbacks, ajaxNonce, name, transport, script, container,
      overwritten, result, told>>
allVars == <<vars, convertVars, scriptVars, part>>

ConvertAtRest ==
    /\ \A p \in DOMAIN converters : converters[p] = "none"
    /\ contentType = None
    /\ responses = {}
    /\ dataTypes = <<Convert!Auto>>

ScriptAtRest == window[Script!Shared] = None /\ habits = {}

AllInit ==
    /\ part \in {"ajax", "convert", "script"}
    /\ Init
    /\ Convert!Init
    /\ part # "convert" => ConvertAtRest
    /\ Script!Init
    /\ part # "script" => ScriptAtRest

AllNext ==
    /\ UNCHANGED part
    /\ \/ part = "ajax" /\ Next /\ UNCHANGED convertVars /\ UNCHANGED scriptVars
       \/ part = "convert" /\ Convert!Next /\ UNCHANGED vars /\ UNCHANGED scriptVars
       \/ part = "script" /\ Script!Next /\ UNCHANGED vars /\ UNCHANGED convertVars

\* The fairness of Ajax!FairSpec and AjaxConvert!Spec.
AllSpec ==
    /\ AllInit
    /\ [][AllNext]_allVars
    /\ \A r \in Requests : WF_vars(Continue(r)) /\ WF_vars(TimesOut(r))
    /\ WF_convertVars(part = "convert" /\ Convert!Next)

\* A converter gets a value of the type it is from, by what the value is or by what
\* was declared equivalent, and a response is converted just when converters lead to
\* the types that were asked for: ajaxHandleResponses and ajaxConvert.
ConversionInv == Convert!ConversionInv

\* A JSONP request gets its own response, and the names and the functions of the
\* page are restored, as far as the page does not share names and abort tags: the
\* jsonp prefilter and its clean-up.
JsonpInv == Script!JsonpInv

\* A request with a timeout ends even if the server never answers, one that
\* ended reports its completion, and conversion comes to its end.
RequestsEnd ==
    /\ TimedRequestsEnd
    /\ EndedRequestsReport
    /\ part = "convert" ~> phase \in {"success", "noconversion", "error"}
=============================================================================
