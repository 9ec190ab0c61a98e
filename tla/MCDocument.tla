----------------------------- MODULE MCDocument -----------------------------
(***************************************************************************)
(* DocumentParts with three script elements, and two elements, a text and  *)
(* two values for their data.                                              *)
(***************************************************************************)
EXTENDS DocumentParts

CONSTANTS s1, s2, s3, n1, n2, t1, v1, v2

MCScriptNodes == {s1, s2, s3}
MCNodes == {n1, n2}
MCTexts == {t1}
MCValues == {v1, v2}
MCObjectKeys == {"camel"}
MCRemovedKeys == {"dashed"}
=============================================================================
