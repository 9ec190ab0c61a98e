------------------------------ MODULE DataStore ------------------------------
(***************************************************************************)
(* jQuery's Data: values attached to nodes, in a cache that is reached by  *)
(* a number stored in the node.  A property with a dash has two spellings, *)
(* "dashed" as in its data-* attribute and "camel"; the methods of         *)
(* jQuery.fn try both, and discover the attribute.                         *)
(***************************************************************************)
EXTENDS Integers, FiniteSets

CONSTANTS
    Nodes,       \* elements
    Texts,       \* nodes that data must not be attached to
    Values,
    ObjectKeys,  \* bound: the spellings that are set by .data({...})
    RemovedKeys, \* bound: the spellings that are removed by .removeData(k)
    MaxUses,     \* bound: calls by the page
    None

Owners == Nodes \cup Texts
Spellings == {"dashed", "camel"}

VARIABLES
    uid,         \* Data.uid
    unlock,      \* the number of each owner, 0 if it has none
    cache,       \* the values, by number and spelling; None if not allocated
    attribute,   \* the data-* attribute of each node
    hasAttrs,    \* the nodes with the private flag hasDataAttrs
    said,        \* history: what each spelling should read: a value, Fresh if
                 \* the attribute was not read yet, or None if it is left open
    uses

vars == <<uid, unlock, cache, attribute, hasAttrs, said, uses>>

MaxUid == Cardinality(Nodes)
Fresh == "fresh"
Empty == [k \in Spellings |-> None]

Init ==
    /\ uid = 1
    /\ unlock = [o \in Owners |-> 0]
    /\ cache = [n \in 1..Cardinality(Owners) |-> None]
    /\ attribute \in [Nodes -> Values \cup {None}]
    /\ hasAttrs = {}
    /\ said = [o \in Owners |-> [k \in Spellings |-> IF o \in Nodes THEN Fresh ELSE None]]
    /\ uses = 0

-----------------------------------------------------------------------------
Use == uses < MaxUses /\ uses' = uses + 1

\* Data.key: the number of the owner, a new one if need be; none for texts,
\* whose entry reads as empty and keeps nothing.
Key(o) == IF o \in Texts THEN 0 ELSE IF unlock[o] # 0 THEN unlock[o] ELSE uid

\* Data.get, without its allocation.
Stored(o) == IF Key(o) = 0 THEN Empty
             ELSE IF cache[Key(o)] = None THEN Empty ELSE cache[Key(o)]

\* The owner has its number, and its entry becomes d.
Keep(o, d) ==
    /\ unlock' = [unlock EXCEPT ![o] = Key(o)]
    /\ uid' = IF Key(o) = uid THEN uid + 1 ELSE uid
    /\ cache' = IF Key(o) = 0 THEN cache ELSE [cache EXCEPT ![Key(o)] = d]

\* What .data(k) returns: the value as spelled, as camel case, or discovered.
Read(o, k) ==
    IF Stored(o)[k] # None THEN Stored(o)[k]
    ELSE IF Stored(o)["camel"] # None THEN Stored(o)["camel"]
    ELSE IF o \in Nodes THEN attribute[o] ELSE None

\* "Make sure we set the data so it isn't changed later"
Discover(o, d) ==
    IF o \in Nodes /\ d["camel"] = None THEN [d EXCEPT !["camel"] = attribute[o]] ELSE d

\* .data(k), which settles what it reads, also for the other spelling if that
\* would have read the attribute as well.
DataGet(o, k) ==
    /\ Use
    /\ Keep(o, IF Stored(o)[k] # None THEN Stored(o) ELSE Discover(o, Stored(o)))
    /\ said' = IF Read(o, k) = None THEN said
               ELSE [said EXCEPT ![o] = [j \in Spellings |->
                        IF j # k /\ said[o][j] = Fresh /\ said[o][k] # Fresh THEN None
                        ELSE IF j = k \/ said[o][j] = Fresh THEN Read(o, k)
                        ELSE said[o][j]]]
    /\ UNCHANGED <<attribute, hasAttrs>>

\* .data(): the attributes are discovered once.
DataGetAll(o) ==
    /\ Use
    /\ Keep(o, IF o \in hasAttrs THEN Stored(o) ELSE Discover(o, Stored(o)))
    /\ hasAttrs' = hasAttrs \cup ({o} \cap Nodes)
    /\ said' = IF o \in Texts \cup hasAttrs \/ Discover(o, Stored(o)) = Stored(o) THEN said
               ELSE [said EXCEPT ![o] = [j \in Spellings |->
                        IF said[o][j] = Fresh THEN attribute[o] ELSE said[o][j]]]
    /\ UNCHANGED attribute

\* The entry after .data(k, v).
Written(d, k, v) ==
    IF k = "dashed" /\ d["camel"] # None
    THEN [d EXCEPT !["camel"] = v, !["dashed"] = v]
    ELSE [d EXCEPT !["camel"] = v]

\* .data(k, v): a write as dashed is a write of both spellings; of one as camel
\* the dashed spelling may have its own copy.
DataSet(o, k, v) ==
    /\ Use
    /\ Keep(o, Written(Stored(o), k, v))
    /\ said' = IF o \in Texts THEN said
               ELSE [said EXCEPT ![o]["camel"] = v,
                                 ![o]["dashed"] = IF k = "dashed" THEN v ELSE None]
    /\ UNCHANGED <<attribute, hasAttrs>>

\* .data({k: v}), and jQuery.data(o, k, v)
DataSetObject(o, k, v) ==
    /\ Use
    /\ k \in ObjectKeys
    /\ Keep(o, [Stored(o) EXCEPT ![k] = v])
    /\ said' = IF o \in Texts THEN said
               ELSE [said EXCEPT ![o]["camel"] = IF k = "camel" THEN v ELSE @,
                                 ![o]["dashed"] = IF k = "dashed" THEN v ELSE None]
    /\ UNCHANGED <<attribute, hasAttrs>>

\* The entry after .removeData(k): both spellings go if the given one is there.
Removed(d, k) ==
    IF d[k] # None THEN [d EXCEPT ![k] = None, !["camel"] = None]
    ELSE [d EXCEPT !["camel"] = None]

\* .removeData(k): from then on k reads as the attribute.
RemoveData(o, k) ==
    /\ Use
    /\ k \in RemovedKeys
    /\ Keep(o, Removed(Stored(o), k))
    /\ said' = [said EXCEPT ![o] = [j \in Spellings |->
                    IF (j = k \/ k = "dashed") /\ o \in Nodes THEN Fresh ELSE None]]
    /\ UNCHANGED <<attribute, hasAttrs>>

\* .removeData()
RemoveAll(o) ==
    /\ Use
    /\ Keep(o, Empty)
    /\ said' = [said EXCEPT ![o] = [j \in Spellings |-> IF o \in Nodes THEN Fresh ELSE None]]
    /\ UNCHANGED <<attribute, hasAttrs>>

\* (Mutant: the number goes with the data.)
CleanDataFrees(o) ==
    /\ Use
    /\ unlock' = [unlock EXCEPT ![o] = 0]
    /\ hasAttrs' = hasAttrs \ {o}
    /\ said' = [said EXCEPT ![o] = [j \in Spellings |-> Fresh]]
    /\ UNCHANGED <<uid, cache, attribute>>

\* cleanData of a node that is removed: its entries go, and the flag, its number
\* stays.
CleanData(o) ==
    /\ Use
    /\ cache' = IF unlock[o] = 0 THEN cache ELSE [cache EXCEPT ![unlock[o]] = None]
    /\ hasAttrs' = hasAttrs \ {o}
    /\ said' = [said EXCEPT ![o] = [j \in Spellings |-> Fresh]]
    /\ UNCHANGED <<uid, unlock, attribute>>

\* .clone(true) into a new node: the data is copied, and so are the flag and
\* the attribute.
Clone(o, new) ==
    /\ Use
    /\ o # new /\ unlock[new] = 0
    /\ IF Stored(o) = Empty THEN UNCHANGED <<uid, unlock, cache>> ELSE Keep(new, Stored(o))
    /\ attribute' = [attribute EXCEPT ![new] = attribute[o]]
    /\ hasAttrs' = IF o \in hasAttrs THEN hasAttrs \cup {new} ELSE hasAttrs
    /\ said' = [said EXCEPT ![new] = said[o]]

\* The page changes the attribute.
SetAttribute(o, v) ==
    /\ Use
    /\ attribute' = [attribute EXCEPT ![o] = v]
    /\ UNCHANGED <<uid, unlock, cache, hasAttrs, said>>

Next ==
    \/ \E o \in Owners :
        \/ \E k \in Spellings :
            \/ DataGet(o, k) \/ RemoveData(o, k)
            \/ \E v \in Values : DataSet(o, k, v) \/ DataSetObject(o, k, v)
        \/ DataGetAll(o) \/ RemoveAll(o)
    \/ \E o \in Nodes :
        \/ CleanData(o)
        \/ \E new \in Nodes : Clone(o, new)
        \/ \E v \in Values : SetAttribute(o, v)

Spec == Init /\ [][Next]_vars
-----------------------------------------------------------------------------
\* Numbers are given out in order, to elements.
TypeOK ==
    /\ uid \in 1..(MaxUid + 1)
    /\ unlock \in [Owners -> 0..MaxUid]
    /\ \A n \in DOMAIN cache : cache[n] \in [Spellings -> Values \cup {None}] \cup {None}
    /\ hasAttrs \subseteq Nodes
    /\ said \in [Owners -> [Spellings -> Values \cup {Fresh, None}]]

\* Every entry belongs to one owner, and texts own none: data never passes from
\* one node to another, even after the first one was removed.
OneOwner ==
    /\ \A o, p \in Owners : unlock[o] = unlock[p] /\ unlock[o] # 0 => o = p
    /\ \A n \in DOMAIN cache : cache[n] # None => \E o \in Nodes : unlock[o] = n
    /\ \A o \in Owners : unlock[o] < uid

\* .data(k) reads what was written last under that spelling, until it is
\* removed; what was never written reads as the attribute was when it was read
\* first, and a clone reads what its original does.  (A write as camel leaves
\* open what the dashed spelling reads.)  A text keeps nothing.
LastWriteReads ==
    \A o \in Owners, k \in Spellings :
        Read(o, k) = IF o \in Texts THEN None
                     ELSE IF said[o][k] = Fresh THEN attribute[o]
                     ELSE IF said[o][k] = None THEN Read(o, k)
                     ELSE said[o][k]

\* Nobody reads another's data, and everyone what was written last.
DataInv == TypeOK /\ OneOwner /\ LastWriteReads
=============================================================================
