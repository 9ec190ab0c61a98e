----------------------------- MODULE MCRequests -----------------------------
(***************************************************************************)
(* Instances of the three parts of a request for model checking.           *)
(***************************************************************************)
EXTENDS RequestParts

CONSTANTS r1, r2, r3, text, json, xml

MCRequests == {r1, r2}
MCScriptRequests == {r1, r2, r3}
MCTypes == {text, json, xml}

MCOptions ==
    {o \in OptionRecords :
        /\ o.timed => o.async /\ o.global
        /\ (o.async /\ o.global) \/ (o.beforeSend /\ (o.async \/ o.global))}

\* Everywhere but in the handlers of ajaxStart, which are not given the
\* request, and of ajaxSend.
MCAbortPoints == Points \ {"ajaxStart", "ajaxSend"}
=============================================================================
