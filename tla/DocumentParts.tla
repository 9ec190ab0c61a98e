---------------------------- MODULE DocumentParts ----------------------------
(***************************************************************************)
(* What jQuery keeps for the elements of the page: the scripts that had    *)
(* their turn (Scripts), the data of the page (DataStore), and the styles  *)
(* of what is hidden and shown (ShowHide).  The flags of scripts and the   *)
(* notes about styles are private data, in a store of their own, and each  *)
(* under a key of its own, so that a behaviour is one of one part.         *)
(***************************************************************************)
EXTENDS Scripts

CONSTANTS
    Nodes, Texts, Values,       \* as in DataStore
    ObjectKeys, RemovedKeys,
    MaxDataUses,                \* bound: calls of the methods about data
    None

\* Elements are no texts; None and the history's "fresh" are not data.
ASSUME PartsAssumption ==
    /\ IsFiniteSet(Nodes) /\ IsFiniteSet(Texts)
    /\ Nodes \cap Texts = {}
    /\ None \notin Values /\ "fresh" \notin Values \cup {None}
    /\ None \notin [{"dashed", "camel"} -> Values \cup {None}]

\* A style that is not set is told apart from all styles, and from their notes.
ASSUME StylesAssumption ==
    /\ None \notin {"inline", "none", "block", "inline-block", "hidden"}
    /\ None \notin {"show now", "hide now", "show", "hide", "toggle"}
    /\ None \notin 0..2 /\ None \notin BOOLEAN

VARIABLES
    uid, unlock, cache, attribute, hasAttrs, said, dataUses,
    sheet, dimension, natural, display, size, overflow, olddisplay, fxshow, anim, asked,
    part    \* the part that this behaviour is about

Data == INSTANCE DataStore WITH MaxUses <- MaxDataUses, uses <- dataUses

Styles == INSTANCE ShowHide WITH Requests <- {"show", "hide", "toggle"}, Unset <- None

dataVars == <<uid, unlock, cache, attribute, hasAttrs, said, dataUses>>
styleVars ==
    <<sheet, dimension, natural, display, size, overflow, olddisplay, fxshow, anim, asked>>
allVars == <<vars, dataVars, styleVars, part>>

AllInit ==
    /\ part \in {"scripts", "data", "styles"}
    /\ Init
    /\ part # "scripts" => ~reentrant /\ ~removes
    /\ Data!Init
    /\ part # "data" => \A n \in Nodes : attribute[n] = None
    /\ Styles!Init
    /\ part # "styles" => sheet = "inline" /\ display = None /\ dimension

AllNext ==
    /\ UNCHANGED part
    /\ \/ part = "scripts" /\ Next /\ UNCHANGED dataVars /\ UNCHANGED styleVars
       \/ part = "data" /\ Data!Next /\ UNCHANGED vars /\ UNCHANGED styleVars
       \/ part = "styles" /\ Styles!Next /\ UNCHANGED vars /\ UNCHANGED dataVars

AllSpec == AllInit /\ [][AllNext]_allVars

\* A script is evaluated when it is first inserted, and only then: buildFragment,
\* domManip and detach.
ScriptInv == ScriptsInv

\* Data stays with its element, and reads as it was written: Data and the
\* methods data and removeData.
DataInv == Data!DataInv

\* However an element was hidden and shown, it looks as before in the end: the
\* styles that showHide, defaultPrefilter and its handlers write.
ShowHideInv == Styles!ShowHideInv

\* Of two toggles in a row the second turns the first about: defaultPrefilter.
ToggleReverses == Styles!ToggleReverses
=============================================================================
