--------------------------- MODULE DocumentProofs ---------------------------
(***************************************************************************)
(* For every number of elements, scripts and calls: data stays with its    *)
(* element and reads as it was written, scripts are evaluated when they    *)
(* are inserted, and once, and an element that was hidden looks as before  *)
(* when it is shown.                                                       *)
(***************************************************************************)
EXTENDS DocumentParts, FiniteSetTheorems, TLAPS

\* The values of an entry, and of the history of an owner.
Entries == [Data!Spellings -> Values \cup {None}]
Histories == [Data!Spellings -> Values \cup {"fresh", None}]

\* The elements that have a number.
Numbered == {o \in Nodes : unlock[o] # 0}

\* Numbers are given out in order, each to one element, and only entries of
\* elements with a number are there.
StoreInv ==
    /\ uid = Cardinality(Numbered) + 1
    /\ unlock \in [Data!Owners -> Nat]
    /\ \A o \in Texts : unlock[o] = 0
    /\ cache \in [1..Cardinality(Data!Owners) -> Entries \cup {None}]
    /\ Data!OneOwner

\* An entry has what it should read: nothing if the attribute was not read yet,
\* and otherwise the value, as spelled or as camel case.
Agrees(d, s) ==
    /\ d["camel"] = None => d["dashed"] = None
    /\ \A k \in Data!Spellings :
           /\ s[k] = "fresh" => d["camel"] = None
           /\ s[k] \in Values => s[k] = IF d[k] # None THEN d[k] ELSE d["camel"]

SaidInv ==
    /\ attribute \in [Nodes -> Values \cup {None}]
    /\ hasAttrs \subseteq Nodes
    /\ said \in [Data!Owners -> Histories]
    /\ \A o \in Texts : said[o] = Data!Empty
    /\ \A o \in Nodes : Agrees(Data!Stored(o), said[o])

DataIInv == StoreInv /\ SaidInv

\* Of a property with two spellings, the page sets objects in camel case, and
\* removes the dashed one, which takes both.
OneSpelling == ObjectKeys \subseteq {"camel"} /\ RemovedKeys \subseteq {"dashed"}

\* What the sets of constants have to do with each other.
LEMMA DataSets ==
    /\ Data!Owners = Nodes \cup Texts /\ Nodes \cap Texts = {}
    /\ Data!Spellings = {"dashed", "camel"} /\ "camel" \in Data!Spellings
    /\ Data!Empty \in Entries /\ Data!Empty \in Histories
    /\ \A k \in Data!Spellings : Data!Empty[k] = None
    /\ None \notin Values /\ "fresh" \notin Values /\ None # "fresh"
    /\ None \notin Entries
BY PartsAssumption, Zenon
   DEF Data!Owners, Data!Spellings, Data!Empty, Entries, Histories

\* DataStore has its own copy of the module that defines Cardinality.
LEMMA SameCardinality == \A S : Data!Cardinality(S) = Cardinality(S)
BY Zenon DEF Data!Cardinality, Cardinality

LEMMA DataSizes ==
    /\ IsFiniteSet(Nodes) /\ Cardinality(Nodes) \in Nat
    /\ Cardinality(Data!Owners) \in Nat /\ Cardinality(Nodes) <= Cardinality(Data!Owners)
    /\ Data!MaxUid = Cardinality(Nodes)
<1>1. IsFiniteSet(Nodes) /\ IsFiniteSet(Nodes \cup Texts) /\ Nodes \subseteq Nodes \cup Texts
  BY PartsAssumption, FS_Union
<1>2. Cardinality(Nodes) \in Nat /\ Cardinality(Nodes \cup Texts) \in Nat
  BY <1>1, FS_CardinalityType
<1>3. Cardinality(Nodes) <= Cardinality(Nodes \cup Texts)
  BY <1>1, FS_Subset
<1>4. Data!MaxUid = Cardinality(Nodes)
  BY SameCardinality DEF Data!MaxUid
<1>5. QED
  BY <1>1, <1>2, <1>3, <1>4, DataSets

-----------------------------------------------------------------------------
(* The store.                                                              *)

\* There are not more numbers than elements.
LEMMA NumberedFacts ==
    ASSUME StoreInv
    PROVE  /\ IsFiniteSet(Numbered) /\ Cardinality(Numbered) \in Nat
           /\ Cardinality(Numbered) <= Cardinality(Nodes)
           /\ uid \in 1..(Cardinality(Nodes) + 1)
           /\ \A o \in Nodes : unlock[o] = 0 =>
                  /\ uid \in 1..Cardinality(Nodes)
                  /\ Cardinality(Numbered \cup {o}) = uid
<1>1. Numbered \subseteq Nodes /\ IsFiniteSet(Nodes)
  BY DataSizes DEF Numbered
<1>2. IsFiniteSet(Numbered) /\ Cardinality(Numbered) <= Cardinality(Nodes)
      /\ Cardinality(Numbered) \in Nat
  BY <1>1, FS_Subset, FS_CardinalityType
<1>3. uid = Cardinality(Numbered) + 1
  BY DEF StoreInv
<1>4. ASSUME NEW o \in Nodes, unlock[o] = 0
      PROVE  Cardinality(Numbered \cup {o}) = uid /\ uid <= Cardinality(Nodes)
  <2>1. o \notin Numbered
    BY <1>4 DEF Numbered
  <2>2. Cardinality(Numbered \cup {o}) = Cardinality(Numbered) + 1
    BY <1>2, <2>1, FS_AddElement
  <2>3. Cardinality(Numbered \cup {o}) <= Cardinality(Nodes)
    BY <1>1, FS_Subset
  <2>4. QED
    BY <1>3, <2>2, <2>3
<1>5. QED
  BY <1>2, <1>3, <1>4, DataSizes

\* The entry of an owner.
EntriesAre ==
    /\ \A o \in Nodes :
           /\ unlock[o] = 0 => Data!Key(o) = uid /\ Data!Stored(o) = Data!Empty
                               /\ uid \in DOMAIN cache /\ cache[uid] = None
           /\ unlock[o] # 0 =>
                  /\ Data!Key(o) = unlock[o] /\ unlock[o] # uid
                  /\ unlock[o] \in DOMAIN cache
                  /\ Data!Stored(o) = IF cache[unlock[o]] = None THEN Data!Empty
                                      ELSE cache[unlock[o]]
           /\ Data!Stored(o) \in Entries
    /\ \A o \in Texts : Data!Key(o) = 0 /\ Data!Stored(o) = Data!Empty

LEMMA EntryFacts == StoreInv => EntriesAre
<1> SUFFICES ASSUME StoreInv PROVE EntriesAre
  OBVIOUS
<1>1. /\ unlock \in [Data!Owners -> Nat]
      /\ cache \in [1..Cardinality(Data!Owners) -> Entries \cup {None}]
      /\ DOMAIN cache = 1..Cardinality(Data!Owners)
      /\ \A o \in Data!Owners : unlock[o] < uid
      /\ \A n \in DOMAIN cache : cache[n] # None => \E o \in Nodes : unlock[o] = n
  BY DEF StoreInv, Data!OneOwner
<1>2. \A o \in Nodes : o \notin Texts /\ o \in Data!Owners
  BY DataSets
<1>3. uid \in 1..(Cardinality(Nodes) + 1)
  BY NumberedFacts
<1>4. ASSUME NEW o \in Nodes, unlock[o] = 0
      PROVE  /\ Data!Key(o) = uid /\ Data!Stored(o) = Data!Empty
             /\ uid \in DOMAIN cache /\ cache[uid] = None
  <2>1. Data!Key(o) = uid
    BY <1>2, <1>4 DEF Data!Key
  <2>2. uid \in 1..Cardinality(Nodes)
    BY <1>4, NumberedFacts
  <2>3. uid \in DOMAIN cache
    BY <1>1, <2>2, DataSizes
  <2>4. cache[uid] = None
    <3>1. \A p \in Nodes : unlock[p] # uid
      BY <1>1, <1>2, <1>3
    <3>2. QED
      BY <1>1, <2>3, <3>1
  <2>5. QED
    BY <1>3, <2>1, <2>3, <2>4 DEF Data!Stored
<1>5. ASSUME NEW o \in Nodes, unlock[o] # 0
      PROVE  /\ Data!Key(o) = unlock[o] /\ unlock[o] # uid /\ unlock[o] \in DOMAIN cache
             /\ Data!Stored(o) = IF cache[unlock[o]] = None THEN Data!Empty ELSE cache[unlock[o]]
  <2>1. Data!Key(o) = unlock[o]
    BY <1>2, <1>5 DEF Data!Key
  <2>2. unlock[o] \in Nat /\ unlock[o] < uid
    BY <1>1, <1>2
  <2>3. unlock[o] \in DOMAIN cache
    BY <1>1, <1>3, <1>5, <2>2, DataSizes
  <2>4. QED
    BY <1>3, <1>5, <2>1, <2>2, <2>3 DEF Data!Stored
<1>6. ASSUME NEW o \in Nodes PROVE Data!Stored(o) \in Entries
  <2>1. \A n \in DOMAIN cache : cache[n] # None => cache[n] \in Entries
    BY <1>1
  <2>2. QED
    BY <1>4, <1>5, <2>1, DataSets
<1>7. ASSUME NEW o \in Texts PROVE Data!Key(o) = 0 /\ Data!Stored(o) = Data!Empty
  BY <1>7 DEF Data!Key, Data!Stored
<1>8. QED
  BY <1>4, <1>5, <1>6, <1>7 DEF EntriesAre

\* The same of the next state.
LEMMA EntriesWillBe == ASSUME StoreInv' PROVE EntriesAre'
<1>1. (StoreInv => EntriesAre)'
  BY EntryFacts, PTL
<1>2. QED
  BY <1>1

\* An entry of an element changes, and no other.
EntryBecomes(o, d) ==
    /\ StoreInv'
    /\ Data!Stored(o)' = d
    /\ \A p \in Nodes \ {o} : Data!Stored(p)' = Data!Stored(p)

LEMMA KeepNode ==
    ASSUME StoreInv, NEW o \in Nodes, NEW d \in Entries, Data!Keep(o, d)
    PROVE  EntryBecomes(o, d)
<1>1. PICK k : k = Data!Key(o)
  OBVIOUS
<1>2. /\ unlock' = [unlock EXCEPT ![o] = k]
      /\ uid' = IF k = uid THEN uid + 1 ELSE uid
      /\ cache' = IF k = 0 THEN cache ELSE [cache EXCEPT ![k] = d]
  BY <1>1 DEF Data!Keep
<1>3. /\ unlock \in [Data!Owners -> Nat] /\ \A p \in Texts : unlock[p] = 0
      /\ cache \in [1..Cardinality(Data!Owners) -> Entries \cup {None}]
      /\ \A p, q \in Data!Owners : unlock[p] = unlock[q] /\ unlock[p] # 0 => p = q
      /\ \A n \in DOMAIN cache : cache[n] # None => \E p \in Nodes : unlock[p] = n
      /\ \A p \in Data!Owners : unlock[p] < uid
  BY DEF StoreInv, Data!OneOwner
<1>4. /\ o \in Data!Owners /\ o \notin Texts
      /\ Data!Owners = Nodes \cup Texts /\ Nodes \cap Texts = {}
  BY DataSets
<1>5. /\ k \in DOMAIN cache /\ k \in 1..Cardinality(Data!Owners)
      /\ k = IF unlock[o] = 0 THEN uid ELSE unlock[o]
      /\ unlock[o] # 0 => k # uid
  BY <1>1, <1>3, EntryFacts DEF EntriesAre
<1>6. uid \in Nat \ {0} /\ k \in Nat \ {0}
  BY <1>5, NumberedFacts, DataSizes
<1>7. /\ cache' = [cache EXCEPT ![k] = d]
      /\ cache' \in [1..Cardinality(Data!Owners) -> Entries \cup {None}]
      /\ \A n \in DOMAIN cache : cache'[n] = IF n = k THEN d ELSE cache[n]
      /\ DOMAIN cache' = DOMAIN cache
  BY <1>2, <1>3, <1>5, <1>6
<1>8. /\ unlock' \in [Data!Owners -> Nat]
      /\ \A p \in Data!Owners : unlock'[p] = IF p = o THEN k ELSE unlock[p]
  BY <1>2, <1>3, <1>4, <1>6
<1>9. \A p \in Data!Owners : p # o => unlock[p] # k
  <2>1. ASSUME NEW p \in Data!Owners, p # o PROVE unlock[p] # k
    <3>1. CASE unlock[o] = 0
      BY <1>3, <1>5, <1>6, <1>8, <3>1
    <3>2. CASE unlock[o] # 0
      BY <1>3, <1>4, <1>5, <2>1, <3>2
    <3>3. QED
      BY <3>1, <3>2
  <2>2. QED
    BY <2>1
<1>10. uid' = Cardinality(Numbered') + 1
  <2>1. Numbered' = Numbered \cup {o}
    BY <1>4, <1>6, <1>8 DEF Numbered
  <2>2. CASE unlock[o] = 0
    <3>1. Cardinality(Numbered \cup {o}) = uid
      BY <2>2, NumberedFacts
    <3>2. QED
      BY <1>2, <1>5, <2>1, <2>2, <3>1
  <2>3. CASE unlock[o] # 0
    <3>1. Numbered \cup {o} = Numbered /\ uid' = uid
      BY <1>2, <1>5, <2>3 DEF Numbered
    <3>2. QED
      BY <2>1, <3>1 DEF StoreInv
  <2>4. QED
    BY <2>2, <2>3
<1>11. Data!OneOwner'
  <2>1. \A p, q \in Data!Owners : unlock'[p] = unlock'[q] /\ unlock'[p] # 0 => p = q
    BY <1>3, <1>8, <1>9
  <2>2. ASSUME NEW n \in DOMAIN cache', cache'[n] # None PROVE \E p \in Nodes : unlock'[p] = n
    <3>1. CASE n = k
      BY <1>4, <1>8, <3>1
    <3>2. CASE n # k
      <4>1. PICK p \in Nodes : unlock[p] = n
        BY <1>3, <1>7, <2>2, <3>2
      <4>2. p # o
        <5>1. n \in 1..Cardinality(Data!Owners)
          BY <1>3, <1>7, <2>2
        <5>2. n # 0
          BY <5>1
        <5>3. QED
          BY <1>5, <3>2, <4>1, <5>2
      <4>3. unlock'[p] = n
        BY <1>4, <1>8, <4>1, <4>2
      <4>4. QED
        BY <4>3
    <3>3. QED
      BY <3>1, <3>2
  <2>3. \A p \in Data!Owners : unlock'[p] < uid'
    <3>1. uid <= uid' /\ k < uid'
      <4>1. k = uid \/ k < uid
        BY <1>3, <1>4, <1>5
      <4>2. QED
        BY <1>2, <1>6, <4>1
    <3>2. ASSUME NEW p \in Data!Owners PROVE unlock[p] < uid'
      <4>1. unlock[p] \in Nat /\ unlock[p] < uid /\ uid' \in Nat
        BY <1>2, <1>3, <1>6
      <4>2. QED
        BY <1>6, <3>1, <4>1
    <3>3. QED
      BY <1>8, <3>1, <3>2
  <2>4. QED
    BY <2>1, <2>2, <2>3 DEF Data!OneOwner, Data!Owners
<1>12. StoreInv'
  <2>1. \A p \in Texts : unlock'[p] = 0
    BY <1>3, <1>4, <1>8
  <2>2. QED
    BY <1>7, <1>8, <1>10, <1>11, <2>1 DEF StoreInv, Data!Owners, Data!Spellings, Entries
<1>13. EntriesAre /\ EntriesAre'
  BY <1>12, EntryFacts, EntriesWillBe
<1>14. Data!Stored(o)' = d
  <2>1. unlock'[o] = k /\ k # 0 /\ cache'[k] = d /\ d # None
    BY <1>4, <1>5, <1>6, <1>7, <1>8, DataSets
  <2>2. QED
    BY <1>13, <2>1 DEF EntriesAre
<1>15. ASSUME NEW p \in Nodes \ {o} PROVE Data!Stored(p)' = Data!Stored(p)
  <2>1. unlock'[p] = unlock[p] /\ unlock[p] # k
    BY <1>4, <1>8, <1>9
  <2>2. CASE unlock[p] = 0
    BY <1>13, <2>1, <2>2 DEF EntriesAre, Data!Empty, Data!Spellings
  <2>3. CASE unlock[p] # 0
    <3>1. unlock[p] \in DOMAIN cache /\ cache'[unlock[p]] = cache[unlock[p]]
      BY <1>7, <1>13, <2>1, <2>3 DEF EntriesAre
    <3>2. QED
      BY <1>13, <2>1, <2>3, <3>1 DEF EntriesAre, Data!Empty, Data!Spellings
  <2>4. QED
    BY <2>2, <2>3
<1>16. QED
  BY <1>12, <1>14, <1>15 DEF EntryBecomes

\* The methods give a text no number and no entry.
LEMMA KeepText ==
    ASSUME StoreInv, NEW o \in Texts, NEW d, Data!Keep(o, d)
    PROVE  UNCHANGED <<uid, unlock, cache>>
<1>1. Data!Key(o) = 0 /\ unlock[o] = 0 /\ uid # 0
  BY EntryFacts, NumberedFacts, DataSizes DEF EntriesAre, StoreInv
<1>2. unlock' = [unlock EXCEPT ![o] = 0] /\ uid' = uid /\ cache' = cache
  BY <1>1 DEF Data!Keep
<1>3. unlock' = unlock
  BY <1>1, <1>2, DataSets DEF StoreInv
<1>4. QED
  BY <1>2, <1>3

\* Entries of which the variables do not change stay.
LEMMA SameStore ==
    ASSUME StoreInv, UNCHANGED <<uid, unlock, cache>>
    PROVE  StoreInv' /\ \A o \in Nodes : Data!Stored(o)' = Data!Stored(o)
<1>1. StoreInv'
  BY DEF StoreInv, Data!OneOwner, Numbered, Data!Owners, Data!Spellings, Entries
<1>2. ASSUME NEW o \in Nodes PROVE Data!Stored(o)' = Data!Stored(o)
  BY DEF Data!Stored, Data!Key, Data!Empty, Data!Spellings
<1>3. QED
  BY <1>1, <1>2

-----------------------------------------------------------------------------
(* Entries and histories.                                                  *)

\* An entry as it is made.
LEMMA EntryShape ==
    /\ \A x, y \in Values \cup {None} :
           [k \in Data!Spellings |-> IF k = "dashed" THEN x ELSE y] \in Entries
    /\ \A d \in Entries, k \in Data!Spellings, x \in Values \cup {None} :
           /\ [d EXCEPT ![k] = x] \in Entries
           /\ \A j \in Data!Spellings : [d EXCEPT ![k] = x][j] = IF j = k THEN x ELSE d[j]
    /\ \A d \in Entries, k \in Data!Spellings : d[k] \in Values \cup {None}
    /\ \A s \in Histories, k \in Data!Spellings : s[k] \in Values \cup {"fresh", None}
BY DEF Entries, Histories

\* e is d with one spelling set to x.
CamelSet(e, d, x) == e \in Entries /\ e["camel"] = x /\ e["dashed"] = d["dashed"]
DashedSet(e, d, x) == e \in Entries /\ e["dashed"] = x /\ e["camel"] = d["camel"]

\* An entry of which one spelling changes.
LEMMA SetCamel ==
    ASSUME NEW d \in Entries, NEW x \in Values \cup {None}, NEW e, e = [d EXCEPT !["camel"] = x]
    PROVE  CamelSet(e, d, x)
BY DataSets DEF Entries, CamelSet

LEMMA SetDashed ==
    ASSUME NEW d \in Entries, NEW x \in Values \cup {None}, NEW e, e = [d EXCEPT !["dashed"] = x]
    PROVE  DashedSet(e, d, x)
BY DataSets DEF Entries, DashedSet

\* What an entry and a history say is what their two spellings say.
LEMMA AgreesWith ==
    ASSUME NEW d, NEW s
    PROVE  Agrees(d, s) <=>
               /\ d["camel"] = None => d["dashed"] = None
               /\ s["camel"] = "fresh" => d["camel"] = None
               /\ s["dashed"] = "fresh" => d["camel"] = None
               /\ s["camel"] \in Values => s["camel"] = d["camel"]
               /\ s["dashed"] \in Values =>
                      s["dashed"] = IF d["dashed"] # None THEN d["dashed"] ELSE d["camel"]
BY DataSets DEF Agrees

\* Reading: the attribute becomes the value if there is none.
LEMMA ReadAgrees ==
    ASSUME NEW d \in Entries, NEW s \in Histories, Agrees(d, s), NEW k \in Data!Spellings,
           NEW a \in Values \cup {None},
           NEW r, r = IF d[k] # None THEN d[k] ELSE IF d["camel"] # None THEN d["camel"] ELSE a,
           NEW e, e = IF d[k] = None /\ d["camel"] = None THEN [d EXCEPT !["camel"] = a] ELSE d,
           NEW t, t = IF r = None THEN s
                      ELSE [j \in Data!Spellings |->
                               IF j # k /\ s[j] = "fresh" /\ s[k] # "fresh" THEN None
                               ELSE IF j = k \/ s[j] = "fresh" THEN r
                               ELSE s[j]]
    PROVE  e \in Entries /\ t \in Histories /\ Agrees(e, t)
<1>1. /\ d["camel"] \in Values \cup {None} /\ d["dashed"] \in Values \cup {None}
      /\ s["camel"] \in Values \cup {"fresh", None} /\ s["dashed"] \in Values \cup {"fresh", None}
      /\ k = "camel" \/ k = "dashed"
  BY EntryShape, DataSets
<1>2. /\ e \in Entries
      /\ e["dashed"] = d["dashed"]
      /\ e["camel"] = IF d[k] = None /\ d["camel"] = None THEN a ELSE d["camel"]
  BY EntryShape, DataSets
<1>3. r \in Values \cup {None}
  BY <1>1
<1>4. /\ t \in Histories
      /\ r = None => t = s
      /\ r # None => \A j \in {"dashed", "camel"} :
             t[j] = IF j # k /\ s[j] = "fresh" /\ s[k] # "fresh" THEN None
                    ELSE IF j = k \/ s[j] = "fresh" THEN r
                    ELSE s[j]
  BY <1>1, <1>3, DataSets DEF Histories
<1>5. CASE r = None
  BY <1>1, <1>2, <1>4, <1>5, AgreesWith, DataSets
<1>6. CASE r # None
  <2>1. CASE k = "camel"
    BY <1>1, <1>2, <1>3, <1>4, <1>6, <2>1, AgreesWith, DataSets
  <2>2. CASE k = "dashed"
    BY <1>1, <1>2, <1>3, <1>4, <1>6, <2>2, AgreesWith, DataSets
  <2>3. QED
    BY <1>1, <2>1, <2>2
<1>7. QED
  BY <1>2, <1>4, <1>5, <1>6

\* The value of one owner is read or written: the others keep theirs.
LEMMA OwnerSteps ==
    ASSUME DataIInv, NEW o \in Data!Owners, NEW d, NEW s \in Histories, Data!Keep(o, d),
           said' = [said EXCEPT ![o] = s],
           o \in Texts => s = Data!Empty,
           o \in Nodes => d \in Entries /\ Agrees(d, s),
           attribute' = attribute, hasAttrs' \subseteq Nodes
    PROVE  DataIInv'
<1>1. said' \in [Data!Owners -> Histories]
  BY DEF DataIInv, SaidInv
<1>2. \A p \in Data!Owners : said'[p] = IF p = o THEN s ELSE said[p]
  BY DEF DataIInv, SaidInv
<1>3. StoreInv' /\ \A p \in Nodes : Data!Stored(p)' = IF p = o THEN d ELSE Data!Stored(p)
  <2>1. CASE o \in Nodes
    <3>1. EntryBecomes(o, d)
      BY <2>1, KeepNode DEF DataIInv
    <3>2. QED
      BY <2>1, <3>1 DEF EntryBecomes
  <2>2. CASE o \in Texts
    <3>1. StoreInv' /\ \A p \in Nodes : Data!Stored(p)' = Data!Stored(p)
      BY <2>2, KeepText, SameStore DEF DataIInv
    <3>2. QED
      BY <2>2, <3>1, DataSets
  <2>3. QED
    BY <2>1, <2>2, DataSets
<1>4. ASSUME NEW p \in Nodes PROVE Agrees(Data!Stored(p), said[p])'
  <2>1. CASE p = o
    BY <1>2, <1>3, <2>1, DataSets DEF Agrees, Data!Spellings
  <2>2. CASE p # o
    BY <1>2, <1>3, <2>2, DataSets DEF DataIInv, SaidInv, Agrees, Data!Spellings
  <2>3. QED
    BY <2>1, <2>2
<1>5. \A p \in Texts : said'[p] = Data!Empty
  BY <1>2, DataSets DEF DataIInv, SaidInv
<1>6. SaidInv'
  BY <1>1, <1>4, <1>5 DEF DataIInv, SaidInv, Data!Owners, Histories, Data!Spellings, Data!Empty
<1>7. QED
  BY <1>3, <1>6 DEF DataIInv
-----------------------------------------------------------------------------
(* The steps.                                                              *)

\* What the invariant says of an owner.
LEMMA OwnerFacts ==
    ASSUME DataIInv, NEW o \in Data!Owners
    PROVE  /\ said[o] \in Histories
           /\ said \in [Data!Owners -> Histories]
           /\ o \in Nodes => /\ Data!Stored(o) \in Entries
                             /\ Agrees(Data!Stored(o), said[o])
                             /\ attribute[o] \in Values \cup {None}
                             /\ o \notin Texts
           /\ o \notin Nodes => o \in Texts
           /\ o \in Texts => /\ Data!Stored(o) = Data!Empty
                             /\ said[o] = Data!Empty
                             /\ o \notin Nodes
           /\ hasAttrs \subseteq Nodes
<1>1. EntriesAre
  BY EntryFacts DEF DataIInv
<1>2. QED
  BY <1>1, DataSets DEF DataIInv, SaidInv, EntriesAre

\* What .data(k) returns is a value, or nothing.
LEMMA ReadIs ==
    ASSUME DataIInv, NEW o \in Data!Owners, NEW k \in Data!Spellings
    PROVE  /\ o \in Texts => Data!Read(o, k) = None
           /\ o \in Nodes =>
                  Data!Read(o, k) = IF Data!Stored(o)[k] # None THEN Data!Stored(o)[k]
                                    ELSE IF Data!Stored(o)["camel"] # None
                                    THEN Data!Stored(o)["camel"] ELSE attribute[o]
BY OwnerFacts, DataSets DEF Data!Read

\* .data(k)
LEMMA GetStep ==
    ASSUME DataIInv, NEW o \in Data!Owners, NEW k \in Data!Spellings, Data!DataGet(o, k)
    PROVE  DataIInv'
<1>1. PICK d : d = IF Data!Stored(o)[k] # None THEN Data!Stored(o)
                   ELSE Data!Discover(o, Data!Stored(o))
  OBVIOUS
<1>2. PICK r : r = Data!Read(o, k)
  OBVIOUS
<1>3. PICK t : t = IF r = None THEN said[o]
                   ELSE [j \in Data!Spellings |->
                           IF j # k /\ said[o][j] = "fresh" /\ said[o][k] # "fresh" THEN None
                           ELSE IF j = k \/ said[o][j] = "fresh" THEN r
                           ELSE said[o][j]]
  OBVIOUS
<1>4. Data!Keep(o, d) /\ attribute' = attribute /\ hasAttrs' = hasAttrs
  BY <1>1 DEF Data!DataGet
<1>5. said' = [said EXCEPT ![o] = t]
  <2>1. said' = IF r = None THEN said ELSE [said EXCEPT ![o] = t]
    BY <1>2, <1>3, Zenon DEF Data!DataGet, Data!Fresh
  <2>2. r = None => [said EXCEPT ![o] = t] = said
    BY <1>3, OwnerFacts
  <2>3. QED
    BY <2>1, <2>2
<1>6. CASE o \in Nodes
  <2>1. /\ Data!Stored(o) \in Entries /\ said[o] \in Histories
        /\ Agrees(Data!Stored(o), said[o]) /\ attribute[o] \in Values \cup {None}
        /\ hasAttrs \subseteq Nodes /\ o \notin Texts
    BY <1>6, OwnerFacts
  <2>2. PICK a : a = attribute[o]
    OBVIOUS
  <2>3. PICK e : e = Data!Stored(o)
    OBVIOUS
  <2>4. PICK s : s = said[o]
    OBVIOUS
  <2>5. r = IF e[k] # None THEN e[k] ELSE IF e["camel"] # None THEN e["camel"] ELSE a
    BY <1>2, <1>6, <2>2, <2>3, ReadIs
  <2>6. d = IF e[k] = None /\ e["camel"] = None THEN [e EXCEPT !["camel"] = a] ELSE e
    BY <1>1, <1>6, <2>2, <2>3 DEF Data!Discover
  <2>7. d \in Entries /\ t \in Histories /\ Agrees(d, t)
    BY <1>3, <2>1, <2>2, <2>3, <2>4, <2>5, <2>6, ReadAgrees
  <2>8. QED
    BY <1>4, <1>5, <2>1, <2>7, OwnerSteps
<1>7. CASE o \in Texts
  <2>1. r = None /\ t = Data!Empty /\ t \in Histories /\ o \notin Nodes /\ hasAttrs \subseteq Nodes
    BY <1>2, <1>3, <1>7, ReadIs, OwnerFacts, DataSets
  <2>2. QED
    BY <1>4, <1>5, <2>1, OwnerSteps
<1>8. QED
  BY <1>6, <1>7, DataSets

\* .data()
LEMMA GetAllStep ==
    ASSUME DataIInv, NEW o \in Data!Owners, Data!DataGetAll(o)
    PROVE  DataIInv'
<1>1. PICK e : e = Data!Stored(o)
  OBVIOUS
<1>2. PICK s : s = said[o]
  OBVIOUS
<1>3. PICK d : d = IF o \in hasAttrs THEN e ELSE Data!Discover(o, e)
  OBVIOUS
<1>4. PICK t : t = IF o \in Texts \cup hasAttrs \/ Data!Discover(o, e) = e THEN s
                   ELSE [j \in Data!Spellings |->
                           IF s[j] = "fresh" THEN attribute[o] ELSE s[j]]
  OBVIOUS
<1>5. /\ Data!Keep(o, d) /\ attribute' = attribute
      /\ hasAttrs' = hasAttrs \cup ({o} \cap Nodes)
  BY <1>1, <1>3 DEF Data!DataGetAll
<1>6. said' = [said EXCEPT ![o] = t]
  <2>1. said' = IF o \in Texts \cup hasAttrs \/ Data!Discover(o, e) = e THEN said
                ELSE [said EXCEPT ![o] = t]
    BY <1>1, <1>2, <1>4, Zenon DEF Data!DataGetAll, Data!Fresh
  <2>2. t = s => [said EXCEPT ![o] = t] = said
    BY <1>2, OwnerFacts
  <2>3. QED
    BY <1>4, <2>1, <2>2
<1>7. hasAttrs' \subseteq Nodes
  BY <1>5, OwnerFacts
<1>8. CASE o \in Nodes
  <2>1. /\ e \in Entries /\ s \in Histories /\ Agrees(e, s) /\ attribute[o] \in Values \cup {None}
        /\ o \notin Texts
    BY <1>1, <1>2, <1>8, OwnerFacts
  <2>2. Data!Discover(o, e) = IF e["camel"] = None THEN [e EXCEPT !["camel"] = attribute[o]] ELSE e
    BY <1>8 DEF Data!Discover
  <2>3. CASE d = e /\ t = s
    BY <1>5, <1>6, <1>7, <2>1, <2>3, OwnerSteps
  <2>4. CASE o \notin hasAttrs /\ Data!Discover(o, e) # e
    <3>1. e["camel"] = None /\ d = [e EXCEPT !["camel"] = attribute[o]]
      BY <1>3, <2>2, <2>4
    <3>2. attribute[o] \in Values
      <4>1. attribute[o] = None => [e EXCEPT !["camel"] = attribute[o]] = e
        BY <2>1, <3>1, DataSets DEF Entries
      <4>2. QED
        BY <2>1, <2>2, <2>4, <4>1
    <3>3. /\ d \in Entries /\ d["camel"] = attribute[o] /\ d["dashed"] = None
          /\ e["dashed"] = None
      <4>1. e["dashed"] = None
        BY <2>1, <3>1 DEF Agrees
      <4>2. PICK a : a = attribute[o]
        OBVIOUS
      <4>3. d = [e EXCEPT !["camel"] = a] /\ a \in Values \cup {None}
        BY <3>1, <3>2, <4>2
      <4>4. d \in Entries /\ d["camel"] = a /\ d["dashed"] = e["dashed"]
        <5>1. CamelSet(d, e, a)
          BY <2>1, <4>3, SetCamel, Zenon
        <5>2. QED
          BY <5>1 DEF CamelSet
      <4>5. QED
        BY <4>1, <4>2, <4>4
    <3>4. /\ t \in Histories
          /\ \A j \in {"dashed", "camel"} : t[j] = IF s[j] = "fresh" THEN attribute[o] ELSE s[j]
      BY <1>4, <2>1, <2>4, <3>2, DataSets DEF Histories
    <3>5. \A j \in {"dashed", "camel"} : s[j] \notin Values
      <4>1. s["camel"] \notin Values /\ (s["dashed"] \in Values => s["dashed"] = None)
        BY <2>1, <3>1, <3>3, AgreesWith, DataSets
      <4>2. QED
        BY <4>1, DataSets
    <3>6. Agrees(d, t)
      BY <3>2, <3>3, <3>4, <3>5, AgreesWith, DataSets
    <3>7. QED
      BY <1>5, <1>6, <1>7, <2>1, <3>3, <3>4, <3>6, OwnerSteps
  <2>5. QED
    BY <1>3, <1>4, <2>1, <2>3, <2>4
<1>9. CASE o \in Texts
  <2>1. t = Data!Empty /\ t \in Histories /\ o \notin Nodes
    BY <1>2, <1>4, <1>9, OwnerFacts, DataSets
  <2>2. QED
    BY <1>5, <1>6, <1>7, <2>1, OwnerSteps
<1>10. QED
  BY <1>8, <1>9, DataSets

\* A write to a text keeps nothing.
LEMMA TextStep ==
    ASSUME DataIInv, NEW o \in Texts, NEW d, Data!Keep(o, d), said' = said,
           attribute' = attribute, hasAttrs' = hasAttrs
    PROVE  DataIInv'
<1>1. o \in Data!Owners
  BY DataSets
<1>2. /\ said[o] \in Histories /\ said[o] = Data!Empty /\ o \notin Nodes
      /\ hasAttrs' \subseteq Nodes /\ said' = [said EXCEPT ![o] = said[o]]
  BY <1>1, OwnerFacts
<1>3. QED
  BY <1>1, <1>2, OwnerSteps

\* .data(k, v)
LEMMA SetStep ==
    ASSUME DataIInv, NEW o \in Data!Owners, NEW k \in Data!Spellings, NEW v \in Values,
           Data!DataSet(o, k, v)
    PROVE  DataIInv'
<1>1. PICK e : e = Data!Stored(o)
  OBVIOUS
<1>2. PICK d : d = Data!Written(e, k, v)
  OBVIOUS
<1>3. Data!Keep(o, d) /\ attribute' = attribute /\ hasAttrs' = hasAttrs
  BY <1>1, <1>2 DEF Data!DataSet
<1>4. CASE o \in Nodes
  <2>1. e \in Entries /\ Agrees(e, said[o]) /\ o \notin Texts /\ hasAttrs' \subseteq Nodes
    BY <1>1, <1>3, <1>4, OwnerFacts
  <2>2. PICK t : t = [j \in Data!Spellings |-> IF j = "camel" THEN v
                                               ELSE IF k = "dashed" THEN v ELSE None]
    OBVIOUS
  <2>3. t \in Histories /\ t["camel"] = v /\ t["dashed"] = IF k = "dashed" THEN v ELSE None
    BY <2>2, DataSets DEF Histories
  <2>4. said' = [said EXCEPT ![o] = t]
    <3>1. PICK y : y = IF k = "dashed" THEN v ELSE None
      OBVIOUS
    <3>2. said' = [said EXCEPT ![o]["camel"] = v, ![o]["dashed"] = y]
      BY <2>1, <3>1 DEF Data!DataSet
    <3>3. t \in Histories /\ t["camel"] = v /\ t["dashed"] = y
      BY <2>3, <3>1
    <3>4. said \in [Data!Owners -> Histories] /\ said[o] \in Histories
      BY OwnerFacts
    <3>5. PICK c : c = [said[o] EXCEPT !["camel"] = v]
      OBVIOUS
    <3>6. PICK h : h = [c EXCEPT !["dashed"] = y]
      OBVIOUS
    <3>7. said' = [said EXCEPT ![o] = h]
      BY <3>4, <3>5, <3>6, <3>2
    <3>8. h = t
      BY <3>4, <3>5, <3>6, <3>3, DataSets DEF Histories
    <3>9. QED
      BY <3>7, <3>8
  <2>5. /\ d \in Entries /\ d["camel"] = v
        /\ d["dashed"] = IF k = "dashed" /\ e["camel"] # None THEN v ELSE e["dashed"]
    <3>1. CASE k = "dashed" /\ e["camel"] # None
      <4>1. PICK c : c = [e EXCEPT !["camel"] = v]
        OBVIOUS
      <4>2. c \in Entries /\ c["camel"] = v
        <5>1. CamelSet(c, e, v)
          BY <2>1, <4>1, SetCamel, Zenon
        <5>2. QED
          BY <5>1 DEF CamelSet
      <4>3. d = [c EXCEPT !["dashed"] = v]
        BY <1>2, <3>1, <4>1 DEF Data!Written
      <4>4. d \in Entries /\ d["camel"] = v /\ d["dashed"] = v
        <5>1. DashedSet(d, c, v)
          BY <2>1, <4>2, <4>3, SetDashed, Zenon
        <5>2. QED
          BY <4>2, <5>1 DEF DashedSet
      <4>5. QED
        BY <3>1, <4>4
    <3>2. CASE ~(k = "dashed" /\ e["camel"] # None)
      <4>1. d = [e EXCEPT !["camel"] = v]
        BY <1>2, <3>2 DEF Data!Written
      <4>2. d \in Entries /\ d["camel"] = v /\ d["dashed"] = e["dashed"]
        <5>1. CamelSet(d, e, v)
          BY <2>1, <4>1, SetCamel, Zenon
        <5>2. QED
          BY <5>1 DEF CamelSet
      <4>3. QED
        BY <3>2, <4>2
    <3>3. QED
      BY <3>1, <3>2
  <2>6. e["camel"] = None => e["dashed"] = None
    BY <2>1 DEF Agrees
  <2>7. Agrees(d, t)
    BY <2>3, <2>5, <2>6, AgreesWith, DataSets
  <2>8. QED
    BY <1>3, <1>4, <2>1, <2>3, <2>4, <2>5, <2>7, OwnerSteps
<1>5. CASE o \in Texts
  <2>1. said' = said
    BY <1>5 DEF Data!DataSet
  <2>2. QED
    BY <1>3, <1>5, <2>1, TextStep
<1>6. QED
  BY <1>4, <1>5, DataSets
\* .data({k: v}), with the spelling that reads as it is written.
LEMMA SetObjectStep ==
    ASSUME DataIInv, OneSpelling, NEW o \in Data!Owners, NEW k \in Data!Spellings,
           NEW v \in Values, Data!DataSetObject(o, k, v)
    PROVE  DataIInv'
<1>1. k = "camel"
  BY DEF OneSpelling, Data!DataSetObject
<1>2. PICK e : e = Data!Stored(o)
  OBVIOUS
<1>3. PICK d : d = [e EXCEPT !["camel"] = v]
  OBVIOUS
<1>4. Data!Keep(o, d) /\ attribute' = attribute /\ hasAttrs' = hasAttrs
  BY <1>1, <1>2, <1>3 DEF Data!DataSetObject
<1>5. CASE o \in Nodes
  <2>1. e \in Entries /\ Agrees(e, said[o]) /\ o \notin Texts /\ hasAttrs' \subseteq Nodes
    BY <1>2, <1>4, <1>5, OwnerFacts
  <2>2. PICK t : t = [j \in Data!Spellings |-> IF j = "camel" THEN v ELSE None]
    OBVIOUS
  <2>3. t \in Histories /\ t["camel"] = v /\ t["dashed"] = None
    BY <2>2, DataSets DEF Histories
  <2>4. said' = [said EXCEPT ![o] = t]
    <3>1. said' = [said EXCEPT ![o]["camel"] = v, ![o]["dashed"] = None]
      BY <1>1, <2>1 DEF Data!DataSetObject
    <3>2. said \in [Data!Owners -> Histories] /\ said[o] \in Histories
      BY OwnerFacts
    <3>3. PICK c : c = [said[o] EXCEPT !["camel"] = v]
      OBVIOUS
    <3>4. PICK h : h = [c EXCEPT !["dashed"] = None]
      OBVIOUS
    <3>5. said' = [said EXCEPT ![o] = h]
      BY <3>2, <3>3, <3>4, <3>1
    <3>6. h = t
      BY <3>2, <3>3, <3>4, <2>3, DataSets DEF Histories
    <3>7. QED
      BY <3>5, <3>6
  <2>5. d \in Entries /\ d["camel"] = v
    <3>1. CamelSet(d, e, v)
      BY <1>3, <2>1, SetCamel, Zenon
    <3>2. QED
      BY <3>1 DEF CamelSet
  <2>6. Agrees(d, t)
    BY <2>3, <2>5, AgreesWith, DataSets
  <2>7. QED
    BY <1>4, <1>5, <2>1, <2>3, <2>4, <2>5, <2>6, OwnerSteps
<1>6. CASE o \in Texts
  <2>1. said' = said
    BY <1>6 DEF Data!DataSetObject
  <2>2. QED
    BY <1>4, <1>6, <2>1, TextStep
<1>7. QED
  BY <1>5, <1>6, DataSets

\* An entry without values agrees with every history that has none.
LEMMA NothingAgrees ==
    ASSUME NEW d, d["camel"] = None, d["dashed"] = None, NEW s,
           \A k \in Data!Spellings : s[k] \notin Values
    PROVE  Agrees(d, s)
BY DataSets, AgreesWith

\* .removeData(k), with the spelling that takes both.
LEMMA RemoveStep ==
    ASSUME DataIInv, OneSpelling, NEW o \in Data!Owners, NEW k \in Data!Spellings,
           Data!RemoveData(o, k)
    PROVE  DataIInv'
<1>1. k = "dashed"
  BY DEF OneSpelling, Data!RemoveData
<1>2. PICK e : e = Data!Stored(o)
  OBVIOUS
<1>3. PICK d : d = Data!Removed(e, k)
  OBVIOUS
<1>4. PICK t : t = [j \in Data!Spellings |-> IF o \in Nodes THEN "fresh" ELSE None]
  OBVIOUS
<1>5. Data!Keep(o, d) /\ attribute' = attribute /\ hasAttrs' \subseteq Nodes
  BY <1>2, <1>3, OwnerFacts DEF Data!RemoveData
<1>6. said' = [said EXCEPT ![o] = t]
  <2>1. t = [j \in Data!Spellings |-> IF (j = k \/ k = "dashed") /\ o \in Nodes
                                      THEN "fresh" ELSE None]
    BY <1>1, <1>4
  <2>2. QED
    BY <2>1, Zenon DEF Data!RemoveData, Data!Fresh
<1>7. CASE o \in Nodes
  <2>1. e \in Entries /\ Agrees(e, said[o]) /\ o \notin Texts
    BY <1>2, <1>7, OwnerFacts
  <2>2. t \in Histories /\ \A j \in Data!Spellings : t[j] = "fresh"
    BY <1>4, <1>7, DataSets DEF Histories
  <2>3. PICK c : c = IF e["dashed"] # None THEN [e EXCEPT !["dashed"] = None] ELSE e
    OBVIOUS
  <2>4. c \in Entries /\ c["dashed"] = None
    BY <2>1, <2>3, EntryShape, DataSets
  <2>5. d = [c EXCEPT !["camel"] = None]
    BY <1>1, <1>3, <2>3 DEF Data!Removed
  <2>6. d \in Entries /\ d["camel"] = None /\ d["dashed"] = None
    <3>1. CamelSet(d, c, None)
      BY <2>4, <2>5, SetCamel, Zenon
    <3>2. QED
      BY <2>4, <3>1 DEF CamelSet
  <2>7. Agrees(d, t)
    BY <2>2, <2>6, NothingAgrees, DataSets
  <2>8. QED
    BY <1>5, <1>6, <1>7, <2>1, <2>2, <2>6, <2>7, OwnerSteps
<1>8. CASE o \in Texts
  <2>1. o \notin Nodes
    BY <1>8, DataSets
  <2>2. t = Data!Empty /\ t \in Histories
    BY <1>4, <2>1, DataSets DEF Data!Empty
  <2>3. QED
    BY <1>5, <1>6, <2>1, <2>2, OwnerSteps
<1>9. QED
  BY <1>7, <1>8, DataSets

\* .removeData()
LEMMA RemoveAllStep ==
    ASSUME DataIInv, NEW o \in Data!Owners, Data!RemoveAll(o)
    PROVE  DataIInv'
<1>1. PICK t : t = [j \in Data!Spellings |-> IF o \in Nodes THEN "fresh" ELSE None]
  OBVIOUS
<1>2. /\ Data!Keep(o, Data!Empty) /\ attribute' = attribute /\ hasAttrs' \subseteq Nodes
      /\ said' = [said EXCEPT ![o] = t]
  BY <1>1, OwnerFacts, Zenon DEF Data!RemoveAll, Data!Fresh
<1>3. CASE o \in Nodes
  <2>1. t \in Histories /\ \A j \in Data!Spellings : t[j] = "fresh"
    BY <1>1, <1>3, DataSets DEF Histories
  <2>2. Agrees(Data!Empty, t)
    BY <2>1, NothingAgrees, DataSets
  <2>3. o \notin Texts
    BY <1>3, OwnerFacts
  <2>4. QED
    BY <1>2, <1>3, <2>1, <2>2, <2>3, DataSets, OwnerSteps
<1>4. CASE o \in Texts
  <2>1. o \notin Nodes
    BY <1>4, DataSets
  <2>2. t = Data!Empty /\ t \in Histories
    BY <1>1, <2>1, DataSets DEF Data!Empty
  <2>3. QED
    BY <1>2, <2>1, <2>2, OwnerSteps
<1>5. QED
  BY <1>3, <1>4, DataSets

\* A node is removed: its entry goes, if it has one, and its number stays.
LEMMA CleanStep ==
    ASSUME DataIInv, NEW o \in Nodes, Data!CleanData(o)
    PROVE  DataIInv'
<1>1. PICK n : n = unlock[o]
  OBVIOUS
<1>2. PICK t : t = [j \in Data!Spellings |-> "fresh"]
  OBVIOUS
<1>3. /\ cache' = IF n = 0 THEN cache ELSE [cache EXCEPT ![n] = None]
      /\ unlock' = unlock /\ uid' = uid
      /\ attribute' = attribute /\ hasAttrs' = hasAttrs \ {o}
      /\ said' = [said EXCEPT ![o] = t]
  BY <1>1, <1>2, Zenon DEF Data!CleanData, Data!Fresh
<1>4. /\ EntriesAre /\ StoreInv
      /\ cache \in [1..Cardinality(Data!Owners) -> Entries \cup {None}]
      /\ \A p, q \in Data!Owners : unlock[p] = unlock[q] /\ unlock[p] # 0 => p = q
      /\ \A p \in Data!Owners : unlock[p] < uid
      /\ \A m \in DOMAIN cache : cache[m] # None => \E p \in Nodes : unlock[p] = m
      /\ Nodes \subseteq Data!Owners
  BY EntryFacts, DataSets DEF DataIInv, StoreInv, Data!OneOwner
<1>5. /\ cache' \in [1..Cardinality(Data!Owners) -> Entries \cup {None}]
      /\ DOMAIN cache' = DOMAIN cache /\ (n # 0 => n \in DOMAIN cache)
      /\ \A m \in DOMAIN cache : cache'[m] = IF m = n THEN None ELSE cache[m]
  <2>1. CASE n = 0
    <3>1. \A m \in DOMAIN cache : m # 0
      BY <1>4
    <3>2. QED
      BY <1>3, <1>4, <2>1, <3>1
  <2>2. CASE n # 0
    BY <1>1, <1>3, <1>4, <2>2 DEF EntriesAre
  <2>3. QED
    BY <2>1, <2>2
<1>6. StoreInv'
  <2>1. Data!OneOwner'
    BY <1>3, <1>4, <1>5 DEF Data!OneOwner, Data!Owners
  <2>2. Numbered' = Numbered
    BY <1>3 DEF Numbered
  <2>3. QED
    BY <1>3, <1>4, <1>5, <2>1, <2>2
       DEF StoreInv, Data!Owners, Data!Spellings, Entries
<1>7. EntriesAre'
  BY <1>6, EntriesWillBe
<1>8. Data!Stored(o)' = Data!Empty
  <2>1. unlock'[o] = n /\ (n # 0 => cache'[n] = None)
    BY <1>1, <1>3, <1>5
  <2>2. CASE n # 0
    BY <1>7, <2>1, <2>2 DEF EntriesAre, Data!Empty, Data!Spellings
  <2>3. CASE n = 0
    BY <1>7, <2>1, <2>3 DEF EntriesAre, Data!Empty, Data!Spellings
  <2>4. QED
    BY <2>2, <2>3
<1>9. ASSUME NEW p \in Nodes, p # o PROVE Data!Stored(p)' = Data!Stored(p)
  <2>1. unlock'[p] = unlock[p]
    BY <1>3
  <2>2. CASE unlock[p] = 0
    BY <1>4, <1>7, <2>1, <2>2 DEF EntriesAre, Data!Empty, Data!Spellings
  <2>3. CASE unlock[p] # 0
    <3>1. unlock[p] # n /\ unlock[p] \in DOMAIN cache
      BY <1>1, <1>4, <1>9, <2>3 DEF EntriesAre
    <3>2. cache'[unlock[p]] = cache[unlock[p]]
      BY <1>5, <3>1
    <3>3. QED
      BY <1>4, <1>7, <2>1, <2>3, <3>2 DEF EntriesAre, Data!Empty, Data!Spellings
  <2>4. QED
    BY <2>2, <2>3
<1>10. /\ t \in Histories /\ \A j \in Data!Spellings : t[j] = "fresh"
       /\ said \in [Data!Owners -> Histories]
  BY <1>2, DataSets DEF Histories, DataIInv, SaidInv
<1>11. /\ said' \in [Data!Owners -> Histories]
       /\ \A p \in Data!Owners : said'[p] = IF p = o THEN t ELSE said[p]
  BY <1>3, <1>4, <1>10
<1>12. ASSUME NEW p \in Nodes PROVE Agrees(Data!Stored(p), said[p])'
  <2>1. CASE p = o
    <3>1. Agrees(Data!Empty, t)
      BY <1>10, NothingAgrees, DataSets
    <3>2. said'[p] = t /\ Data!Stored(p)' = Data!Empty
      BY <1>4, <1>8, <1>11, <2>1
    <3>3. QED
      BY <3>1, <3>2 DEF Agrees, Data!Spellings
  <2>2. CASE p # o
    <3>1. said'[p] = said[p] /\ Data!Stored(p)' = Data!Stored(p)
      BY <1>4, <1>9, <1>11, <2>2
    <3>2. QED
      BY <3>1 DEF Agrees, Data!Spellings, DataIInv, SaidInv
  <2>3. QED
    BY <2>1, <2>2
<1>13. \A p \in Texts : said'[p] = Data!Empty
  BY <1>11, DataSets DEF DataIInv, SaidInv
<1>14. SaidInv'
  BY <1>3, <1>11, <1>12, <1>13
     DEF DataIInv, SaidInv, Data!Owners, Histories, Data!Spellings, Data!Empty
<1>15. QED
  BY <1>6, <1>14 DEF DataIInv

\* A clone has the entry, the attribute and the history of its original.
LEMMA CloneStep ==
    ASSUME DataIInv, NEW o \in Nodes, NEW new \in Nodes, Data!Clone(o, new)
    PROVE  DataIInv'
<1>1. PICK d : d = Data!Stored(o)
  OBVIOUS
<1>2. /\ o # new /\ unlock[new] = 0
      /\ IF d = Data!Empty THEN UNCHANGED <<uid, unlock, cache>> ELSE Data!Keep(new, d)
      /\ attribute' = [attribute EXCEPT ![new] = attribute[o]]
      /\ hasAttrs' \subseteq Nodes
      /\ said' = [said EXCEPT ![new] = said[o]]
  BY <1>1 DEF Data!Clone, DataIInv, SaidInv
<1>3. StoreInv /\ EntriesAre /\ d \in Entries /\ Nodes \subseteq Data!Owners
  BY <1>1, EntryFacts, DataSets DEF DataIInv, EntriesAre
<1>4. /\ StoreInv'
      /\ \A p \in Nodes : Data!Stored(p)' = IF p = new THEN d ELSE Data!Stored(p)
  <2>1. CASE d = Data!Empty
    <3>1. StoreInv' /\ \A p \in Nodes : Data!Stored(p)' = Data!Stored(p)
      BY <1>2, <1>3, <2>1, SameStore
    <3>2. Data!Stored(new) = Data!Empty
      BY <1>2, <1>3 DEF EntriesAre
    <3>3. QED
      BY <2>1, <3>1, <3>2
  <2>2. CASE d # Data!Empty
    <3>1. Data!Keep(new, d)
      BY <1>2, <2>2
    <3>2. EntryBecomes(new, d)
      BY <1>3, <3>1, KeepNode
    <3>3. QED
      BY <3>2 DEF EntryBecomes
  <2>3. QED
    BY <2>1, <2>2
<1>5. /\ said \in [Data!Owners -> Histories] /\ attribute \in [Nodes -> Values \cup {None}]
      /\ \A p \in Nodes : Agrees(Data!Stored(p), said[p])
      /\ \A p \in Texts : said[p] = Data!Empty /\ p # new /\ p \in Data!Owners
  BY DataSets DEF DataIInv, SaidInv
<1>6. /\ said' \in [Data!Owners -> Histories]
      /\ attribute' \in [Nodes -> Values \cup {None}]
      /\ \A p \in Data!Owners : said'[p] = IF p = new THEN said[o] ELSE said[p]
  BY <1>2, <1>3, <1>5
<1>7. ASSUME NEW p \in Nodes PROVE Agrees(Data!Stored(p), said[p])'
  <2>1. CASE p = new
    <3>1. said'[p] = said[o] /\ Data!Stored(p)' = Data!Stored(o)
      BY <1>1, <1>3, <1>4, <1>6, <2>1
    <3>2. QED
      BY <1>5, <3>1 DEF Agrees, Data!Spellings
  <2>2. CASE p # new
    <3>1. said'[p] = said[p] /\ Data!Stored(p)' = Data!Stored(p)
      BY <1>3, <1>4, <1>6, <2>2
    <3>2. QED
      BY <1>5, <3>1 DEF Agrees, Data!Spellings
  <2>3. QED
    BY <2>1, <2>2
<1>8. \A p \in Texts : said'[p] = Data!Empty
  BY <1>5, <1>6
<1>9. SaidInv'
  BY <1>2, <1>6, <1>7, <1>8
     DEF SaidInv, Data!Owners, Histories, Data!Spellings, Data!Empty
<1>10. QED
  BY <1>4, <1>9 DEF DataIInv

\* Everything else leaves the entries and histories as they are.
LEMMA OtherSteps ==
    ASSUME DataIInv, UNCHANGED <<uid, unlock, cache, hasAttrs, said>>,
           attribute' \in [Nodes -> Values \cup {None}]
    PROVE  DataIInv'
<1>1. StoreInv' /\ \A p \in Nodes : Data!Stored(p)' = Data!Stored(p)
  BY SameStore DEF DataIInv
<1>2. \A p \in Nodes : Agrees(Data!Stored(p), said[p])'
  BY <1>1 DEF DataIInv, SaidInv, Agrees, Data!Spellings
<1>3. SaidInv'
  BY <1>2 DEF DataIInv, SaidInv, Data!Owners, Histories, Data!Spellings, Data!Empty
<1>4. QED
  BY <1>1, <1>3 DEF DataIInv

LEMMA DataStep == ASSUME DataIInv, OneSpelling, [AllNext]_allVars PROVE DataIInv'
<1>1. attribute \in [Nodes -> Values \cup {None}]
  BY DEF DataIInv, SaidInv
<1>2. CASE Data!Next
  <2>1. ASSUME NEW o \in Data!Owners, NEW k \in Data!Spellings,
               Data!DataGet(o, k) \/ Data!RemoveData(o, k)
        PROVE  DataIInv'
    BY <2>1, GetStep, RemoveStep
  <2>2. ASSUME NEW o \in Data!Owners, NEW k \in Data!Spellings, NEW v \in Values,
               Data!DataSet(o, k, v) \/ Data!DataSetObject(o, k, v)
        PROVE  DataIInv'
    BY <2>2, SetStep, SetObjectStep
  <2>3. ASSUME NEW o \in Data!Owners, Data!DataGetAll(o) \/ Data!RemoveAll(o)
        PROVE  DataIInv'
    BY <2>3, GetAllStep, RemoveAllStep
  <2>4. ASSUME NEW o \in Nodes, Data!CleanData(o)
        PROVE  DataIInv'
    BY <2>4, CleanStep
  <2>5. ASSUME NEW o \in Nodes, NEW new \in Nodes, Data!Clone(o, new)
        PROVE  DataIInv'
    BY <2>5, CloneStep
  <2>6. ASSUME NEW o \in Nodes, NEW v \in Values, Data!SetAttribute(o, v)
        PROVE  DataIInv'
    <3>1. attribute' \in [Nodes -> Values \cup {None}]
      BY <1>1, <2>6 DEF Data!SetAttribute
    <3>2. QED
      BY <2>6, <3>1, OtherSteps DEF Data!SetAttribute
  <2>7. QED
    BY <1>2, <2>1, <2>2, <2>3, <2>4, <2>5, <2>6, Zenon DEF Data!Next
<1>3. CASE UNCHANGED dataVars
  BY <1>1, <1>3, OtherSteps DEF dataVars
<1>4. QED
  BY <1>2, <1>3, Zenon DEF AllNext, allVars

\* No data is there at the beginning.
LEMMA DataInit == AllInit => DataIInv
<1> SUFFICES ASSUME AllInit PROVE DataIInv
  OBVIOUS
<1>1. /\ uid = 1 /\ unlock = [o \in Data!Owners |-> 0]
      /\ cache = [n \in 1..Data!Cardinality(Data!Owners) |-> None]
      /\ attribute \in [Nodes -> Values \cup {None}] /\ hasAttrs = {}
      /\ said = [o \in Data!Owners |->
                    [k \in Data!Spellings |-> IF o \in Nodes THEN "fresh" ELSE None]]
  BY Zenon DEF AllInit, Data!Init, Data!Fresh
<1>2. cache = [n \in 1..Cardinality(Data!Owners) |-> None]
  BY <1>1, SameCardinality
<1>3. Numbered = {}
  BY <1>1, DataSets DEF Numbered
<1>4. Cardinality(Numbered) = 0
  BY <1>3, FS_EmptySet
<1>5. StoreInv
  BY <1>1, <1>2, <1>4, DataSets DEF StoreInv, Data!OneOwner
<1>6. /\ said \in [Data!Owners -> Histories]
      /\ \A o \in Nodes, k \in Data!Spellings : said[o][k] = "fresh"
      /\ \A o \in Texts : said[o] = Data!Empty
  BY <1>1, DataSets DEF Histories, Data!Empty
<1>7. ASSUME NEW o \in Nodes PROVE Agrees(Data!Stored(o), said[o])
  <2>1. Data!Stored(o) = Data!Empty
    <3>1. unlock[o] = 0
      BY <1>1, DataSets
    <3>2. QED
      BY <1>5, <3>1, EntryFacts DEF EntriesAre
  <2>2. QED
    BY <1>6, <2>1, NothingAgrees, DataSets
<1>8. QED
  BY <1>1, <1>5, <1>6, <1>7 DEF DataIInv, SaidInv

LEMMA DataIInvGives == DataIInv => Data!DataInv
<1> SUFFICES ASSUME DataIInv PROVE Data!DataInv
  OBVIOUS
<1>1. StoreInv /\ EntriesAre /\ Data!OneOwner
  BY EntryFacts DEF DataIInv, StoreInv
<1>2. Data!TypeOK
  <2>1. /\ uid \in 1..(Cardinality(Nodes) + 1)
        /\ unlock \in [Data!Owners -> Nat] /\ \A o \in Data!Owners : unlock[o] < uid
        /\ cache \in [1..Cardinality(Data!Owners) -> Entries \cup {None}]
    BY <1>1, NumberedFacts DEF StoreInv, Data!OneOwner
  <2>2. unlock \in [Data!Owners -> 0..Data!MaxUid] /\ uid \in 1..(Data!MaxUid + 1)
    <3>1. \A o \in Data!Owners : unlock[o] \in 0..Cardinality(Nodes)
      BY <2>1, DataSizes
    <3>2. QED
      BY <2>1, <3>1, DataSizes
  <2>3. \A n \in DOMAIN cache : cache[n] \in [Data!Spellings -> Values \cup {None}] \cup {None}
    BY <2>1 DEF Entries
  <2>4. /\ hasAttrs \subseteq Nodes
        /\ said \in [Data!Owners -> [Data!Spellings -> Values \cup {"fresh", None}]]
    BY DEF DataIInv, SaidInv, Histories
  <2>5. QED
    BY <2>2, <2>3, <2>4, Zenon DEF Data!TypeOK, Data!Fresh
<1>3. Data!LastWriteReads
  <2>1. ASSUME NEW o \in Data!Owners, NEW k \in Data!Spellings
        PROVE  Data!Read(o, k) = IF o \in Texts THEN None
                                 ELSE IF said[o][k] = "fresh" THEN attribute[o]
                                 ELSE IF said[o][k] = None THEN Data!Read(o, k)
                                 ELSE said[o][k]
    <3>1. CASE o \in Texts
      BY <3>1, ReadIs
    <3>2. CASE o \in Nodes
      <4>1. PICK e : e = Data!Stored(o)
        OBVIOUS
      <4>2. PICK s : s = said[o]
        OBVIOUS
      <4>3. e \in Entries /\ s \in Histories /\ Agrees(e, s) /\ o \notin Texts
        BY <3>2, <4>1, <4>2, OwnerFacts
      <4>4. Data!Read(o, k) = IF e[k] # None THEN e[k]
                              ELSE IF e["camel"] # None THEN e["camel"] ELSE attribute[o]
        BY <3>2, <4>1, ReadIs
      <4>5. /\ e["camel"] = None => e["dashed"] = None
            /\ s[k] = "fresh" => e["camel"] = None
            /\ s[k] \in Values => s[k] = IF e[k] # None THEN e[k] ELSE e["camel"]
            /\ s[k] \in Values \cup {"fresh", None}
            /\ k = "camel" \/ k = "dashed"
        BY <4>3, EntryShape, DataSets DEF Agrees
      <4>6. CASE s[k] = "fresh"
        <5>1. e[k] = None /\ e["camel"] = None
          BY <4>5, <4>6
        <5>2. QED
          BY <4>2, <4>3, <4>4, <4>6, <5>1
      <4>7. CASE s[k] = None
        BY <4>2, <4>3, <4>7, DataSets
      <4>8. CASE s[k] \in Values
        BY <4>2, <4>3, <4>4, <4>5, <4>8, DataSets
      <4>9. QED
        BY <4>5, <4>6, <4>7, <4>8
    <3>3. QED
      BY <3>1, <3>2, DataSets
  <2>2. QED
    BY <2>1, Zenon DEF Data!LastWriteReads, Data!Fresh
<1>4. QED
  BY <1>1, <1>2, <1>3 DEF Data!DataInv

\* For every set of elements: data never passes from one element to another, even
\* when the first is removed, and reads as it was written; if it is set by object
\* as camel case and removed as dashed (README, "Found while modelling").
THEOREM DataIsKept == ASSUME OneSpelling PROVE AllSpec => []DataInv
<1>1. AllInit => DataIInv
  BY DataInit
<1>2. DataIInv /\ [AllNext]_allVars => DataIInv'
  BY DataStep
<1>3. DataIInv => DataInv
  BY DataIInvGives DEF DataInv
<1>4. QED
  BY <1>1, <1>2, <1>3, PTL DEF AllSpec

-----------------------------------------------------------------------------
(* Scripts: the loops of domManip.                                         *)

\* The scripts that are in one of the loops P.
InLoops(P) == {s \in ScriptNodes : \E i \in DOMAIN P : \E j \in DOMAIN P[i] : P[i][j] = s}

\* A script that is not flagged is in one place of them only.
OnceIn(P, flagged) ==
    \A i, k \in DOMAIN P : \A j \in DOMAIN P[i], l \in DOMAIN P[k] :
        P[i][j] = P[k][l] /\ P[i][j] \notin flagged => i = k /\ j = l

Loops == Seq(Seq(ScriptNodes))

Different(list) == \A j, l \in DOMAIN list : list[j] = list[l] => j = l

LEMMA NoLoops == <<>> \in Loops
BY DEF Loops

\* A loop begins inside the others.
LEMMA LoopBegins ==
    ASSUME NEW P \in Loops, NEW list \in Seq(ScriptNodes), NEW Q, Q = Append(P, list)
    PROVE  /\ Q \in Loops /\ Q # <<>> /\ Q[Len(Q)] = list
           /\ InLoops(Q) = InLoops(P) \cup ToSet(list)
<1>1. /\ Q \in Loops /\ Len(Q) = Len(P) + 1 /\ Q[Len(P) + 1] = list /\ Len(P) \in Nat
      /\ \A i \in DOMAIN P : Q[i] = P[i] /\ i \in DOMAIN Q
      /\ \A i \in DOMAIN Q : i \in DOMAIN P \/ i = Len(P) + 1
      /\ Len(P) + 1 \in DOMAIN Q
  BY DEF Loops
<1>2. ToSet(list) \subseteq ScriptNodes
  BY DEF ToSet
<1>3. ASSUME NEW s \in InLoops(Q) PROVE s \in InLoops(P) \cup ToSet(list)
  <2>1. PICK i \in DOMAIN Q : \E j \in DOMAIN Q[i] : Q[i][j] = s
    BY <1>3 DEF InLoops
  <2>. PICK j \in DOMAIN Q[i] : Q[i][j] = s
    BY <2>1
  <2>2. CASE i \in DOMAIN P
    BY <1>1, <1>3, <2>1, <2>2 DEF InLoops
  <2>3. CASE i = Len(P) + 1
    BY <1>1, <2>1, <2>3 DEF ToSet
  <2>4. QED
    BY <1>1, <2>2, <2>3
<1>4. ASSUME NEW s \in InLoops(P) PROVE s \in InLoops(Q)
  <2>1. PICK i \in DOMAIN P : \E j \in DOMAIN P[i] : P[i][j] = s
    BY <1>4 DEF InLoops
  <2>. PICK j \in DOMAIN P[i] : P[i][j] = s
    BY <2>1
  <2>2. QED
    BY <1>1, <1>4, <2>1 DEF InLoops
<1>5. ASSUME NEW s \in ToSet(list) PROVE s \in InLoops(Q)
  <2>1. PICK j \in DOMAIN list : list[j] = s
    BY <1>5 DEF ToSet
  <2>2. QED
    BY <1>1, <1>2, <1>5, <2>1 DEF InLoops
<1>6. Q # <<>>
  BY <1>1
<1>7. QED
  BY <1>1, <1>3, <1>4, <1>5, <1>6

LEMMA LoopBeginsOnce ==
    ASSUME NEW P \in Loops, NEW list \in Seq(ScriptNodes), NEW Q, Q = Append(P, list),
           NEW flagged, NEW more, flagged \subseteq more,
           OnceIn(P, flagged), Different(list),
           \A s \in InLoops(P) \cap ToSet(list) : s \in more
    PROVE  OnceIn(Q, more)
<1>1. /\ Len(Q) = Len(P) + 1 /\ Q[Len(P) + 1] = list
      /\ \A i \in DOMAIN P : Q[i] = P[i]
      /\ \A i \in DOMAIN Q : i \in DOMAIN P \/ i = Len(P) + 1
  BY DEF Loops
<1>2. ASSUME NEW i \in DOMAIN P, NEW j \in DOMAIN P[i], NEW l \in DOMAIN list, P[i][j] = list[l]
      PROVE  list[l] \in more
  <2>1. list[l] \in ScriptNodes /\ list[l] \in ToSet(list)
    BY DEF ToSet
  <2>2. list[l] \in InLoops(P)
    BY <1>2, <2>1 DEF InLoops
  <2>3. QED
    BY <2>1, <2>2
<1>3. ASSUME NEW i \in DOMAIN Q, NEW k \in DOMAIN Q, NEW j \in DOMAIN Q[i], NEW l \in DOMAIN Q[k],
             Q[i][j] = Q[k][l], Q[i][j] \notin more
      PROVE  i = k /\ j = l
  <2>1. CASE i \in DOMAIN P /\ k \in DOMAIN P
    BY <1>1, <1>3, <2>1 DEF OnceIn
  <2>2. CASE i = Len(P) + 1 /\ k = Len(P) + 1
    BY <1>1, <1>3, <2>2 DEF Different
  <2>3. CASE i \in DOMAIN P /\ k = Len(P) + 1
    BY <1>1, <1>2, <1>3, <2>3
  <2>4. CASE i = Len(P) + 1 /\ k \in DOMAIN P
    BY <1>1, <1>2, <1>3, <2>4
  <2>5. QED
    BY <1>1, <2>1, <2>2, <2>3, <2>4
<1>4. QED
  BY <1>3 DEF OnceIn

\* The innermost loop goes on to its next script.
LEMMA LoopGoesOn ==
    ASSUME NEW P \in Loops, P # <<>>, NEW list, list = P[Len(P)], list # <<>>,
           NEW Q, Q = [P EXCEPT ![Len(P)] = Tail(list)]
    PROVE  /\ Q \in Loops /\ Head(list) \in ScriptNodes
           /\ InLoops(P) = InLoops(Q) \cup {Head(list)}
           /\ \A flagged : OnceIn(P, flagged) =>
                  /\ OnceIn(Q, flagged)
                  /\ Head(list) \notin flagged => Head(list) \notin InLoops(Q)
<1>1. PICK n : n = Len(P)
  OBVIOUS
<1>2. /\ n \in DOMAIN P /\ list \in Seq(ScriptNodes) /\ Tail(list) \in Seq(ScriptNodes)
      /\ Head(list) \in ScriptNodes /\ Head(list) = list[1] /\ 1 \in DOMAIN list
      /\ P[n] = list
  BY <1>1 DEF Loops
<1>3. /\ \A j \in DOMAIN Tail(list) : j + 1 \in DOMAIN list /\ Tail(list)[j] = list[j + 1] /\ j \in Nat \ {0}
      /\ \A j \in DOMAIN list : j # 1 => j - 1 \in DOMAIN Tail(list) /\ Tail(list)[j - 1] = list[j]
  BY <1>2
<1>4. /\ Q \in Loops /\ DOMAIN Q = DOMAIN P /\ Q[n] = Tail(list)
      /\ \A i \in DOMAIN P : i # n => Q[i] = P[i]
  BY <1>1, <1>2 DEF Loops
<1>5. ASSUME NEW s \in InLoops(P), s # Head(list) PROVE s \in InLoops(Q)
  <2>1. PICK i \in DOMAIN P : \E j \in DOMAIN P[i] : P[i][j] = s
    BY <1>5 DEF InLoops
  <2>. PICK j \in DOMAIN P[i] : P[i][j] = s
    BY <2>1
  <2>2. CASE i # n
    BY <1>4, <1>5, <2>1, <2>2 DEF InLoops
  <2>3. CASE i = n
    <3>1. j # 1 /\ j \in DOMAIN list
      BY <1>2, <1>5, <2>1, <2>3
    <3>2. j - 1 \in DOMAIN Q[n] /\ Q[n][j - 1] = s
      BY <1>2, <1>3, <1>4, <2>1, <2>3, <3>1
    <3>3. QED
      BY <1>2, <1>4, <1>5, <3>2 DEF InLoops
  <2>4. QED
    BY <2>2, <2>3
<1>6. ASSUME NEW s \in InLoops(Q) PROVE s \in InLoops(P)
  <2>1. PICK i \in DOMAIN Q : \E j \in DOMAIN Q[i] : Q[i][j] = s
    BY <1>6 DEF InLoops
  <2>. PICK j \in DOMAIN Q[i] : Q[i][j] = s
    BY <2>1
  <2>2. CASE i # n
    BY <1>4, <1>6, <2>1, <2>2 DEF InLoops
  <2>3. CASE i = n
    <3>1. j + 1 \in DOMAIN P[n] /\ P[n][j + 1] = s
      BY <1>2, <1>3, <1>4, <2>1, <2>3
    <3>2. QED
      BY <1>2, <1>6, <3>1 DEF InLoops
  <2>4. QED
    BY <2>2, <2>3
<1>7. Head(list) \in InLoops(P)
  BY <1>2 DEF InLoops
<1>8. ASSUME NEW flagged, OnceIn(P, flagged)
      PROVE  OnceIn(Q, flagged) /\ (Head(list) \notin flagged => Head(list) \notin InLoops(Q))
  <2>1. ASSUME NEW i \in DOMAIN Q, NEW j \in DOMAIN Q[i]
        PROVE  \E m \in DOMAIN P[i] : /\ P[i][m] = Q[i][j]
                                      /\ m = IF i = n THEN j + 1 ELSE j
                                      /\ j \in Nat
    <3>1. CASE i = n
      BY <1>2, <1>3, <1>4, <2>1, <3>1
    <3>2. CASE i # n
      <4>1. Q[i] = P[i] /\ P[i] \in Seq(ScriptNodes)
        BY <1>4, <3>2 DEF Loops
      <4>2. QED
        BY <4>1, <3>2
    <3>3. QED
      BY <3>1, <3>2
  <2>2. ASSUME NEW i \in DOMAIN Q, NEW k \in DOMAIN Q, NEW j \in DOMAIN Q[i], NEW l \in DOMAIN Q[k],
               Q[i][j] = Q[k][l], Q[i][j] \notin flagged
        PROVE  i = k /\ j = l
    <3>1. PICK m \in DOMAIN P[i] : P[i][m] = Q[i][j] /\ m = (IF i = n THEN j + 1 ELSE j) /\ j \in Nat
      BY <2>1
    <3>2. PICK h \in DOMAIN P[k] : P[k][h] = Q[k][l] /\ h = (IF k = n THEN l + 1 ELSE l) /\ l \in Nat
      BY <2>1
    <3>3. i \in DOMAIN P /\ k \in DOMAIN P
      BY <1>4
    <3>4. i = k /\ m = h
      BY <1>8, <2>2, <3>1, <3>2, <3>3 DEF OnceIn
    <3>5. QED
      BY <3>1, <3>2, <3>4
  <2>3. ASSUME Head(list) \notin flagged, Head(list) \in InLoops(Q) PROVE FALSE
    <3>1. PICK i \in DOMAIN Q : \E j \in DOMAIN Q[i] : Q[i][j] = Head(list)
      BY <2>3 DEF InLoops
    <3>. PICK j \in DOMAIN Q[i] : Q[i][j] = Head(list)
      BY <3>1
    <3>2. PICK m \in DOMAIN P[i] : P[i][m] = Q[i][j] /\ m = (IF i = n THEN j + 1 ELSE j) /\ j \in Nat
      BY <2>1, <3>1
    <3>3. i = n /\ m = 1
      BY <1>2, <1>4, <1>8, <2>3, <3>1, <3>2 DEF OnceIn
    <3>4. j \in Nat \ {0}
      BY <1>3, <1>4, <3>1, <3>3
    <3>5. QED
      BY <3>2, <3>3, <3>4
  <2>4. QED
    BY <2>2, <2>3 DEF OnceIn
<1>9. QED
  BY <1>2, <1>4, <1>5, <1>6, <1>7, <1>8

\* The innermost loop ends.
LEMMA LoopIsOver ==
    ASSUME NEW P \in Loops, P # <<>>, P[Len(P)] = <<>>, NEW Q, Q = SubSeq(P, 1, Len(P) - 1)
    PROVE  /\ Q \in Loops /\ Len(Q) = Len(P) - 1 /\ InLoops(Q) = InLoops(P)
           /\ \A flagged : OnceIn(P, flagged) => OnceIn(Q, flagged)
<1>1. PICK n \in Nat : n = Len(P)
  BY DEF Loops
<1>2. /\ n # 0 /\ Q \in Loops /\ Len(Q) = n - 1 /\ \A i \in DOMAIN Q : Q[i] = P[i] /\ i \in DOMAIN P
      /\ \A i \in DOMAIN P : i = n \/ i \in DOMAIN Q
  BY <1>1 DEF Loops
<1>3. DOMAIN P[n] = {}
  BY <1>1
<1>4. InLoops(Q) = InLoops(P)
  BY <1>2, <1>3 DEF InLoops
<1>5. ASSUME NEW flagged, OnceIn(P, flagged) PROVE OnceIn(Q, flagged)
  BY <1>2, <1>5 DEF OnceIn
<1>6. QED
  BY <1>1, <1>2, <1>4, <1>5

-----------------------------------------------------------------------------
(* Scripts: what holds of them.                                            *)

Waiting == InLoops(pending)

\* Before a script that is not flagged is decided on, nothing can put it out of
\* the page; it may have been inserted into a holder that is out of the page.
Placed(s) == InPage(s) \/ (~evaluating /\ pending[Len(pending)] = <<s>>)

\* Without remove and empty, a script that was evaluated is flagged, or is where the
\* next method that moves it will flag it; and none waits for two turns.
KeptInv ==
    /\ again = {}
    /\ \A s \in spent \ globalEval : InPage(s) /\ s \notin Waiting
    /\ \A s \in Waiting \ globalEval : Placed(s)
    /\ OnceIn(pending, globalEval)

Evaluated(s) == \E e \in spent : content[e] = content[s]

\* With scripts that do not call jQuery, what is flagged or in the page was
\* evaluated, or a script with its content waits.
TurnInv ==
    /\ \A s \in globalEval : Evaluated(s)
    /\ \A s \in ScriptNodes : InPage(s) =>
           \/ Evaluated(s)
           \/ \E p \in Waiting \ globalEval : InPage(p) /\ content[p] = content[s]

LoopsOK ==
    /\ TypeOK
    /\ pending \in Loops
    /\ evaluating \in BOOLEAN /\ removes \in BOOLEAN /\ reentrant \in BOOLEAN

ScriptIInv ==
    /\ LoopsOK
    /\ ~removes => KeptInv
    /\ ~reentrant /\ ~thrown => TurnInv

\* Code that may call jQuery runs.
CallsJQuery == pending = <<>> \/ (evaluating /\ reentrant)

\* While it runs, nothing else is due.
LEMMA NothingDue ==
    ASSUME LoopsOK, CallsJQuery
    PROVE  /\ KeptInv => \A s \in Waiting \ globalEval : InPage(s)
           /\ TurnInv /\ ~reentrant => /\ Waiting = {}
                                       /\ \A s \in ScriptNodes : InPage(s) => Evaluated(s)
<1>1. pending = <<>> => Waiting = {}
  BY DEF Waiting, InLoops
<1>2. CASE pending = <<>>
  BY <1>1, <1>2 DEF TurnInv
<1>3. CASE evaluating /\ reentrant
  BY <1>3 DEF KeptInv, Placed
<1>4. QED
  BY <1>2, <1>3 DEF CallsJQuery

\* The scripts Ss, and the clone of one of them, o, are inserted; alone, or in
\* their holder.
Inserted(Ss, Cs, o, target, holderMoves) ==
    /\ home' = [s \in ScriptNodes |->
                   IF s \in Cs THEN "page1"
                   ELSE IF s \in Ss THEN IF holderMoves THEN "holder" ELSE target
                   ELSE home[s]]
    /\ holder' = IF holderMoves THEN target ELSE holder
    /\ globalEval' = globalEval \cup AlreadyInserted(Ss)
                     \cup {c \in Cs : o \in globalEval \cup AlreadyInserted(Ss)}
    /\ content' = [s \in ScriptNodes |-> IF s \in Cs THEN content[o] ELSE content[s]]
    /\ again' = again
    /\ spent' = spent \cup {c \in Cs : o \in spent}
    /\ thrown' = thrown

LEMMA InsertsPlainly ==
    ASSUME NEW list, NEW target, NEW hm, DomManip(list, <<>>, target, hm), NEW o
    PROVE  /\ Inserted(ToSet(list), {}, o, target, hm)
           /\ pending' = IF list = <<>> THEN pending ELSE Append(pending, list)
           /\ evaluating' = (evaluating /\ list = <<>>)
<1>1. ToSet(<<>>) = {}
  BY DEF ToSet
<1>2. /\ pending' = IF list = <<>> THEN pending ELSE Append(pending, list)
      /\ evaluating' = (evaluating /\ list = <<>>)
  BY Zenon DEF DomManip
<1>3. /\ home' = [s \in ScriptNodes |->
                     IF s \in ToSet(<<>>) THEN "page1"
                     ELSE IF s \in ToSet(list) THEN IF hm THEN "holder" ELSE target
                     ELSE home[s]]
      /\ holder' = IF hm THEN target ELSE holder
      /\ thrown' = thrown
  BY Zenon DEF DomManip
<1>4. /\ globalEval' = globalEval \cup AlreadyInserted(ToSet(list))
      /\ again' = again
      /\ spent' = spent
  BY <1>1 DEF DomManip
<1>5. content' = [s \in ScriptNodes |-> content[s]]
  BY <1>1 DEF DomManip
<1>6. QED
  BY <1>1, <1>2, <1>3, <1>4, <1>5 DEF Inserted

LEMMA InsertsBoth ==
    ASSUME NEW s \in ScriptNodes, NEW clone \in ScriptNodes,
           DomManip(<<s>>, <<clone>>, "page2", FALSE)
    PROVE  /\ Inserted({s}, {clone}, s, "page2", FALSE)
           /\ pending' = Append(pending, <<s>>)
           /\ evaluating' = FALSE
<1>1. ToSet(<<s>>) = {s} /\ ToSet(<<clone>>) = {clone} /\ <<s>> # <<>>
  <2>1. \A x : DOMAIN <<x>> = {1} /\ <<x>>[1] = x
    OBVIOUS
  <2>2. QED
    BY <2>1 DEF ToSet
<1>2. \A c \in {clone} : <<s>>[SelectInSeq(<<clone>>, LAMBDA x : x = c)] = s
  <2>1. {i \in 1..Len(<<clone>>) : <<clone>>[i] = clone} = {1}
    OBVIOUS
  <2>2. Min({1}) = 1
    BY DEF Min
  <2>3. SelectInSeq(<<clone>>, LAMBDA x : x = clone) = 1
    BY <2>1, <2>2 DEF SelectInSeq
  <2>4. QED
    BY <2>3
<1>3. /\ pending' = Append(pending, <<s>>)
      /\ evaluating' = FALSE
  BY <1>1 DEF DomManip
<1>4. /\ home' = [x \in ScriptNodes |->
                     IF x \in {clone} THEN "page1"
                     ELSE IF x \in {s} THEN IF FALSE THEN "holder" ELSE "page2"
                     ELSE home[x]]
      /\ holder' = IF FALSE THEN "page2" ELSE holder
      /\ thrown' = thrown
  BY <1>1, Zenon DEF DomManip
<1>5. globalEval' = globalEval \cup AlreadyInserted({s})
                    \cup {c \in {clone} : s \in globalEval \cup AlreadyInserted({s})}
  <2>1. globalEval' = globalEval \cup AlreadyInserted({s})
                      \cup {c \in {clone} : <<s>>[SelectInSeq(<<clone>>, LAMBDA x : x = c)]
                                                \in globalEval \cup AlreadyInserted({s})}
    BY <1>1, Zenon DEF DomManip
  <2>2. QED
    BY <1>2, <2>1, Zenon
<1>6. content' = [x \in ScriptNodes |-> IF x \in {clone} THEN content[s] ELSE content[x]]
  <2>1. content' = [x \in ScriptNodes |->
                       IF x \in {clone}
                       THEN content[<<s>>[SelectInSeq(<<clone>>, LAMBDA y : y = x)]]
                       ELSE content[x]]
    BY <1>1, Zenon DEF DomManip
  <2>2. QED
    BY <1>2, <2>1, Zenon
<1>7. again' = again /\ spent' = spent \cup {c \in {clone} : s \in spent}
  <2>1. /\ again' = again
        /\ spent' = spent
               \cup {c \in {clone} : <<s>>[SelectInSeq(<<clone>>, LAMBDA x : x = c)] \in spent}
    BY <1>1 DEF DomManip
  <2>2. {c \in {clone} : <<s>>[SelectInSeq(<<clone>>, LAMBDA x : x = c)] \in spent}
          = {c \in {clone} : s \in spent}
    BY <1>2, Zenon
  <2>3. QED
    BY <2>1, <2>2
<1>8. QED
  BY <1>3, <1>4, <1>5, <1>6, <1>7, Zenon DEF Inserted

-----------------------------------------------------------------------------
(* Scripts: insertions.                                                    *)

\* What an insertion of the scripts of a list is.
Insertion(list, Ss, Cs, o, target, hm) ==
    /\ CallsJQuery
    /\ list \in Seq(ScriptNodes) /\ Different(list) /\ Ss = ToSet(list)
    /\ Cs \subseteq Unborn /\ Ss \cap Cs = {}
    /\ Cs # {} => o \in Ss /\ target \in Page
    /\ target \in Page \cup {"holder"}
    /\ hm \in BOOLEAN /\ (hm => Ss = Held /\ target \in Page)
    /\ target = "holder" => list # <<>> /\ \A s \in Ss : list = <<s>>
    /\ Inserted(Ss, Cs, o, target, hm)
    /\ pending' = IF list = <<>> THEN pending ELSE Append(pending, list)
    /\ evaluating' = (evaluating /\ list = <<>>)
    /\ UNCHANGED <<reentrant, removes>>

\* Where the scripts are afterwards.
LEMMA InsertionPlaces ==
    ASSUME LoopsOK, NEW list, NEW Ss, NEW Cs, NEW o, NEW target, NEW hm,
           Insertion(list, Ss, Cs, o, target, hm)
    PROVE  /\ Ss \subseteq ScriptNodes /\ Cs \subseteq ScriptNodes
           /\ \A s \in ScriptNodes :
                  /\ home'[s] = IF s \in Cs THEN "page1"
                                ELSE IF s \in Ss THEN IF hm THEN "holder" ELSE target
                                ELSE home[s]
                  /\ content'[s] = IF s \in Cs THEN content[o] ELSE content[s]
                  /\ s \in Cs => InPage(s)' /\ ~InPage(s) /\ s \notin spent \cup globalEval
                  /\ s \in Ss /\ target \in Page => InPage(s)'
                  /\ s \notin Ss \cup Cs => (InPage(s)' <=> InPage(s))
<1>1. Ss \subseteq ScriptNodes /\ Cs \subseteq ScriptNodes
  BY DEF Insertion, ToSet, Unborn
<1>2. /\ home' = [s \in ScriptNodes |->
                     IF s \in Cs THEN "page1"
                     ELSE IF s \in Ss THEN IF hm THEN "holder" ELSE target
                     ELSE home[s]]
      /\ holder' = IF hm THEN target ELSE holder
      /\ content' = [s \in ScriptNodes |-> IF s \in Cs THEN content[o] ELSE content[s]]
      /\ Cs \subseteq Unborn /\ Ss \cap Cs = {}
      /\ hm => Ss = Held /\ target \in Page
  BY DEF Insertion, Inserted
<1>3. ASSUME NEW s \in ScriptNodes
      PROVE  /\ home'[s] = IF s \in Cs THEN "page1"
                           ELSE IF s \in Ss THEN IF hm THEN "holder" ELSE target
                           ELSE home[s]
             /\ content'[s] = IF s \in Cs THEN content[o] ELSE content[s]
  BY <1>2
<1>4. ASSUME NEW s \in Cs
      PROVE  InPage(s)' /\ ~InPage(s) /\ s \notin spent \cup globalEval
  <2>1. s \in ScriptNodes /\ home[s] = "unborn" /\ s \in Unborn
    BY <1>2 DEF Unborn
  <2>2. home'[s] = "page1"
    BY <1>3, <2>1
  <2>3. s \notin spent \cup globalEval
    BY <2>1 DEF LoopsOK, TypeOK
  <2>4. QED
    BY <2>1, <2>2, <2>3 DEF InPage, Page
<1>5. ASSUME NEW s \in Ss, target \in Page PROVE InPage(s)'
  <2>1. s \in ScriptNodes /\ home'[s] = IF hm THEN "holder" ELSE target
    BY <1>1, <1>2, <1>3
  <2>2. QED
    BY <1>2, <1>5, <2>1 DEF InPage
<1>6. ASSUME NEW s \in ScriptNodes, s \notin Ss \cup Cs PROVE InPage(s)' <=> InPage(s)
  <2>1. home'[s] = home[s]
    BY <1>3, <1>6
  <2>2. hm => home[s] # "holder"
    BY <1>2, <1>6 DEF Held
  <2>3. ~hm => holder' = holder
    BY <1>2
  <2>4. QED
    BY <2>1, <2>2, <2>3 DEF InPage
<1>7. QED
  BY <1>1, <1>3, <1>4, <1>5, <1>6

LEMMA InsertionLoops ==
    ASSUME LoopsOK, NEW list, NEW Ss, NEW Cs, NEW o, NEW target, NEW hm,
           Insertion(list, Ss, Cs, o, target, hm)
    PROVE  /\ LoopsOK'
           /\ Waiting' = Waiting \cup Ss
           /\ list # <<>> => pending' # <<>> /\ pending'[Len(pending')] = list
<1>1. /\ pending' = IF list = <<>> THEN pending ELSE Append(pending, list)
      /\ evaluating' = (evaluating /\ list = <<>>)
      /\ list \in Seq(ScriptNodes) /\ Ss = ToSet(list)
      /\ UNCHANGED <<reentrant, removes>>
      /\ hm \in BOOLEAN /\ (hm => target \in Page) /\ target \in Page \cup {"holder"}
      /\ Cs # {} => o \in Ss
  BY DEF Insertion
<1>2. /\ pending \in Loops /\ pending' \in Loops
      /\ Waiting' = Waiting \cup Ss
      /\ list # <<>> => pending' # <<>> /\ pending'[Len(pending')] = list
  <2>1. CASE list = <<>>
    <3>1. Ss = {}
      BY <1>1, <2>1 DEF ToSet
    <3>2. QED
      BY <1>1, <2>1, <3>1 DEF LoopsOK, Waiting, InLoops, Loops
  <2>2. CASE list # <<>>
    <3>1. pending' = Append(pending, list) /\ pending \in Loops
      BY <1>1, <2>2 DEF LoopsOK
    <3>2. /\ pending' \in Loops /\ pending' # <<>> /\ pending'[Len(pending')] = list
          /\ InLoops(pending') = InLoops(pending) \cup ToSet(list)
      BY <1>1, <3>1, LoopBegins
    <3>3. QED
      BY <1>1, <3>1, <3>2 DEF Waiting, InLoops
  <2>3. QED
    BY <2>1, <2>2
<1>3. /\ Ss \subseteq ScriptNodes /\ Cs \subseteq ScriptNodes
      /\ \A s \in ScriptNodes :
             /\ home'[s] = IF s \in Cs THEN "page1"
                           ELSE IF s \in Ss THEN IF hm THEN "holder" ELSE target
                           ELSE home[s]
             /\ content'[s] = IF s \in Cs THEN content[o] ELSE content[s]
  BY InsertionPlaces
<1>4. TypeOK'
  <2>1. home' \in [ScriptNodes -> {"unborn", "out", "holder"} \cup Page]
    BY <1>1, <1>3 DEF LoopsOK, TypeOK, Page, Insertion, Inserted
  <2>2. holder' \in {"out"} \cup Page
    BY <1>1 DEF LoopsOK, TypeOK, Insertion, Inserted
  <2>3. content' \in [ScriptNodes -> ScriptNodes]
    BY <1>1, <1>3 DEF LoopsOK, TypeOK, Insertion, Inserted
  <2>4. globalEval' \cup spent' \cup again'
             \subseteq (ScriptNodes \ Unborn) \cup Ss \cup Cs
    BY DEF LoopsOK, TypeOK, Insertion, Inserted, AlreadyInserted
  <2>5. (ScriptNodes \ Unborn) \cup Ss \cup Cs \subseteq ScriptNodes \ Unborn'
    BY <1>1, <1>3 DEF Unborn, Page
  <2>6. \A i \in DOMAIN pending' : pending'[i] \in Seq(ScriptNodes)
    BY <1>2 DEF Loops
  <2>7. evaluating' => pending' # <<>>
    BY <1>1 DEF LoopsOK, TypeOK
  <2>8. QED
    BY <2>1, <2>2, <2>3, <2>4, <2>5, <2>6, <2>7 DEF TypeOK, Page
<1>5. evaluating' \in BOOLEAN
  BY <1>1
<1>6. QED
  BY <1>1, <1>2, <1>4, <1>5 DEF LoopsOK, Loops

LEMMA InsertionKeeps ==
    ASSUME LoopsOK, KeptInv, NEW list, NEW Ss, NEW Cs, NEW o, NEW target, NEW hm,
           Insertion(list, Ss, Cs, o, target, hm)
    PROVE  KeptInv'
<1>1. PICK new : new = globalEval \cup AlreadyInserted(Ss)
  OBVIOUS
<1>2. /\ globalEval' = new \cup {c \in Cs : o \in new}
      /\ spent' = spent \cup {c \in Cs : o \in spent}
      /\ again' = again
      /\ Cs # {} => o \in Ss /\ target \in Page
      /\ target \in Page \cup {"holder"}
      /\ target = "holder" => list # <<>> /\ \A s \in Ss : list = <<s>>
      /\ list \in Seq(ScriptNodes) /\ Different(list) /\ Ss = ToSet(list)
      /\ evaluating' = (evaluating /\ list = <<>>)
  BY <1>1 DEF Insertion, Inserted
<1>3. /\ \A s \in spent \ globalEval : InPage(s) /\ s \notin Waiting
      /\ \A s \in Waiting \ globalEval : InPage(s)
      /\ Waiting' = Waiting \cup Ss
      /\ Waiting \subseteq ScriptNodes
      /\ list # <<>> => pending' # <<>> /\ pending'[Len(pending')] = list
  BY NothingDue, InsertionLoops DEF KeptInv, Insertion, Waiting, InLoops
<1>4. \A s \in Ss : InPage(s) => s \in new
  BY <1>1 DEF AlreadyInserted
<1>5. /\ Ss \subseteq ScriptNodes /\ Cs \subseteq ScriptNodes /\ spent \subseteq ScriptNodes
      /\ \A s \in ScriptNodes :
             /\ s \in Cs => InPage(s)' /\ ~InPage(s) /\ s \notin spent \cup globalEval
             /\ s \in Ss /\ target \in Page => InPage(s)'
             /\ s \notin Ss \cup Cs => (InPage(s)' <=> InPage(s))
  BY InsertionPlaces DEF LoopsOK, TypeOK
<1>6. ASSUME NEW s \in spent' \ globalEval' PROVE InPage(s)' /\ s \notin Waiting'
  <2>1. CASE s \in spent
    <3>1. InPage(s) /\ s \notin Waiting /\ s \in ScriptNodes
      BY <1>1, <1>2, <1>3, <1>5, <1>6, <2>1
    <3>2. s \notin Ss /\ s \notin Cs
      BY <1>2, <1>4, <1>5, <1>6, <3>1
    <3>3. QED
      BY <1>3, <1>5, <3>1, <3>2
  <2>2. CASE s \in Cs /\ o \in spent
    <3>1. o \notin new /\ o \in Ss
      BY <1>2, <1>6, <2>2
    <3>2. InPage(o)
      BY <1>1, <1>3, <2>2, <3>1
    <3>3. QED
      BY <1>4, <3>1, <3>2
  <2>3. QED
    BY <1>2, <1>6, <2>1, <2>2
<1>7. ASSUME NEW s \in Waiting' \ globalEval' PROVE Placed(s)'
  <2>1. s \in ScriptNodes /\ s \notin globalEval
    BY <1>1, <1>2, <1>3, <1>5, <1>7
  <2>2. CASE s \in Cs \/ (s \in Ss /\ target \in Page)
    BY <1>5, <2>1, <2>2 DEF Placed
  <2>3. CASE s \in Ss /\ target \notin Page
    <3>1. target = "holder"
      BY <1>2, <2>3
    <3>2. list # <<>> /\ list = <<s>>
      BY <1>2, <2>3, <3>1
    <3>3. ~evaluating' /\ pending'[Len(pending')] = <<s>>
      BY <1>2, <1>3, <3>2
    <3>4. QED
      BY <3>3 DEF Placed
  <2>4. CASE s \notin Ss \cup Cs
    <3>1. InPage(s)
      BY <1>3, <1>7, <2>1, <2>4
    <3>2. QED
      BY <1>5, <2>1, <2>4, <3>1 DEF Placed
  <2>5. QED
    BY <2>2, <2>3, <2>4
<1>8. OnceIn(pending', globalEval')
  <2>1. OnceIn(pending, globalEval) /\ pending \in Loops /\ globalEval \subseteq globalEval'
    BY <1>1, <1>2 DEF KeptInv, LoopsOK
  <2>2. CASE list = <<>>
    <3>1. pending' = pending
      BY <2>2 DEF Insertion
    <3>2. QED
      BY <2>1, <3>1 DEF OnceIn
  <2>3. CASE list # <<>>
    <3>1. pending' = Append(pending, list)
      BY <2>3 DEF Insertion
    <3>2. \A s \in InLoops(pending) \cap ToSet(list) : s \in globalEval'
      BY <1>1, <1>2, <1>3, <1>4 DEF Waiting
    <3>3. QED
      BY <1>2, <2>1, <3>1, <3>2, LoopBeginsOnce
  <2>4. QED
    BY <2>2, <2>3
<1>9. again' = {}
  BY <1>2 DEF KeptInv
<1>10. QED
  BY <1>6, <1>7, <1>8, <1>9 DEF KeptInv, OnceIn

LEMMA InsertionTakesTurns ==
    ASSUME LoopsOK, TurnInv, ~reentrant, NEW list, NEW Ss, NEW Cs, NEW o, NEW target, NEW hm,
           Insertion(list, Ss, Cs, o, target, hm)
    PROVE  TurnInv'
<1>1. PICK new : new = globalEval \cup AlreadyInserted(Ss)
  OBVIOUS
<1>2. /\ globalEval' = new \cup {c \in Cs : o \in new}
      /\ spent \subseteq spent'
      /\ Cs # {} => o \in Ss /\ target \in Page
      /\ Ss \cap Cs = {}
  BY <1>1 DEF Insertion, Inserted
<1>3. /\ \A s \in ScriptNodes : InPage(s) => Evaluated(s)
      /\ \A s \in globalEval : Evaluated(s)
      /\ Waiting' = Waiting \cup Ss
      /\ globalEval \subseteq ScriptNodes /\ spent \subseteq ScriptNodes
  BY NothingDue, InsertionLoops DEF Insertion, TurnInv, LoopsOK, TypeOK
<1>4. /\ Ss \subseteq ScriptNodes /\ Cs \subseteq ScriptNodes
      /\ \A s \in ScriptNodes :
             /\ content'[s] = IF s \in Cs THEN content[o] ELSE content[s]
             /\ s \in Cs => s \notin spent \cup globalEval
             /\ s \in Ss /\ target \in Page => InPage(s)'
             /\ s \notin Ss \cup Cs => (InPage(s)' <=> InPage(s))
  BY InsertionPlaces
<1>5. \A s \in new : s \in ScriptNodes /\ s \notin Cs /\ Evaluated(s)
  BY <1>1, <1>2, <1>3, <1>4 DEF AlreadyInserted
<1>6. ASSUME NEW s \in ScriptNodes, NEW t \in ScriptNodes, Evaluated(s), content'[t] = content[s]
      PROVE  Evaluated(t)'
  <2>1. PICK e \in spent : content[e] = content[s]
    BY <1>6 DEF Evaluated
  <2>2. e \in spent' /\ content'[e] = content[e]
    BY <1>2, <1>3, <1>4, <2>1
  <2>3. QED
    BY <1>6, <2>1, <2>2 DEF Evaluated
<1>7. ASSUME NEW s \in globalEval' PROVE Evaluated(s)'
  <2>1. CASE s \in new
    BY <1>4, <1>5, <1>6, <2>1
  <2>2. CASE s \in Cs /\ o \in new
    BY <1>4, <1>5, <1>6, <2>2
  <2>3. QED
    BY <1>2, <1>7, <2>1, <2>2
<1>8. ASSUME NEW s \in ScriptNodes, InPage(s)'
      PROVE  \/ Evaluated(s)'
             \/ \E p \in (Waiting \ globalEval)' : InPage(p)' /\ content'[p] = content'[s]
  <2>1. CASE s \in globalEval'
    BY <1>7, <2>1
  <2>2. CASE s \in Ss /\ s \notin globalEval'
    BY <1>3, <1>8, <2>2
  <2>3. CASE s \in Cs /\ s \notin globalEval'
    <3>1. o \in Ss /\ o \notin Cs /\ o \notin new /\ target \in Page
      BY <1>2, <2>3
    <3>2. o \in Waiting' /\ o \notin globalEval' /\ InPage(o)' /\ content'[o] = content'[s]
      BY <1>2, <1>3, <1>4, <2>3, <3>1
    <3>3. QED
      BY <3>2
  <2>4. CASE s \notin Ss \cup Cs
    <3>1. Evaluated(s) /\ content'[s] = content[s]
      BY <1>3, <1>4, <1>8, <2>4
    <3>2. QED
      BY <1>6, <3>1
  <2>5. QED
    BY <2>1, <2>2, <2>3, <2>4
<1>9. QED
  BY <1>7, <1>8 DEF TurnInv, Evaluated

LEMMA InsertionStep ==
    ASSUME ScriptIInv, NEW list, NEW Ss, NEW Cs, NEW o, NEW target, NEW hm,
           Insertion(list, Ss, Cs, o, target, hm)
    PROVE  ScriptIInv'
<1>1. LoopsOK'
  BY InsertionLoops DEF ScriptIInv
<1>2. UNCHANGED <<reentrant, removes>> /\ thrown' = thrown
  BY DEF Insertion, Inserted
<1>3. ~removes => KeptInv'
  BY InsertionKeeps DEF ScriptIInv
<1>4. ~reentrant /\ ~thrown => TurnInv'
  BY InsertionTakesTurns DEF ScriptIInv
<1>5. QED
  BY <1>1, <1>2, <1>3, <1>4 DEF ScriptIInv

-----------------------------------------------------------------------------
(* Scripts: the steps.                                                     *)

\* A sequence of the elements of a finite set, each once.
LEMMA SeqOfSet ==
    ASSUME NEW S, IsFiniteSet(S), NEW list, list = SetToSeq(S)
    PROVE  list \in Seq(S) /\ Different(list) /\ ToSet(list) = S
<1>1. PICK n \in Nat : n = Cardinality(S)
  BY FS_CardinalityType
<1>2. PICK f \in Bijection(1..n, S) : TRUE
  BY <1>1, FS_CardinalityType DEF ExistsBijection
<1>3. f \in [1..n -> S] /\ IsInjective(f)
  BY <1>2 DEF Bijection, Injection, IsInjective
<1>4. list = CHOOSE g \in [1..n -> S] : IsInjective(g)
  BY <1>1 DEF SetToSeq
<1>5. list \in [1..n -> S] /\ IsInjective(list)
  BY <1>3, <1>4
<1>6. list \in Seq(S) /\ Different(list) /\ ToSet(list) \subseteq S
  BY <1>5 DEF Different, IsInjective, ToSet
<1>7. Cardinality(ToSet(list)) = n /\ IsFiniteSet(ToSet(list))
  <2>1. list \in Bijection(1..n, ToSet(list))
    BY <1>5 DEF Bijection, Injection, Surjection, IsInjective, ToSet
  <2>2. ExistsBijection(1..n, ToSet(list))
    BY <2>1 DEF ExistsBijection
  <2>3. IsFiniteSet(1..n) /\ Cardinality(1..n) = n
    BY <1>1, FS_Interval
  <2>4. QED
    BY <2>2, <2>3, FS_Bijection
<1>8. ToSet(list) = S
  BY <1>1, <1>6, <1>7, FS_Subset
<1>9. QED
  BY <1>6, <1>8

LEMMA OneScript ==
    ASSUME NEW s \in ScriptNodes
    PROVE  /\ <<s>> \in Seq(ScriptNodes) /\ Different(<<s>>) /\ ToSet(<<s>>) = {s} /\ <<s>> # <<>>
           /\ \A x \in ToSet(<<s>>) : <<s>> = <<x>>
<1>1. DOMAIN <<s>> = {1} /\ <<s>>[1] = s
  OBVIOUS
<1>2. ToSet(<<s>>) = {s} /\ Different(<<s>>)
  BY <1>1 DEF ToSet, Different
<1>3. QED
  BY <1>2

LEMMA TwoScripts ==
    ASSUME NEW s \in ScriptNodes, NEW other \in ScriptNodes \ {s}
    PROVE  /\ <<s, other>> \in Seq(ScriptNodes) /\ Different(<<s, other>>)
<1>1. DOMAIN <<s, other>> = {1, 2} /\ <<s, other>>[1] = s /\ <<s, other>>[2] = other
  OBVIOUS
<1>2. Different(<<s, other>>)
  BY <1>1 DEF Different
<1>3. QED
  BY <1>2

\* append, to both containers, and of the holder.
LEMMA AppendSteps ==
    ASSUME ScriptIInv, UNCHANGED <<reentrant, removes>>,
           \/ \E s \in ScriptNodes :
                  \/ \E clone \in ScriptNodes : AppendToBoth(s, clone)
                  \/ \E target \in Page \cup {"holder"} : AppendScripts(<<s>>, target)
                  \/ \E other \in ScriptNodes \ {s} : AppendScripts(<<s, other>>, "page1")
           \/ \E target \in Page : AppendHolder(target)
    PROVE  ScriptIInv'
<1>1. "holder" \notin Page /\ "page1" \in Page /\ "page2" \in Page
  BY DEF Page
<1>2. ASSUME NEW s \in ScriptNodes, NEW clone \in ScriptNodes, AppendToBoth(s, clone)
      PROVE  ScriptIInv'
  <2>1. CallsJQuery /\ s # clone /\ clone \in Unborn /\ DomManip(<<s>>, <<clone>>, "page2", FALSE)
    BY <1>2 DEF AppendToBoth, Use, CallsJQuery
  <2>2. /\ Inserted({s}, {clone}, s, "page2", FALSE)
        /\ pending' = Append(pending, <<s>>)
        /\ evaluating' = FALSE
    BY <2>1, InsertsBoth
  <2>3. Insertion(<<s>>, {s}, {clone}, s, "page2", FALSE)
    BY <1>1, <2>1, <2>2, OneScript DEF Insertion
  <2>4. QED
    BY <2>3, InsertionStep
<1>3. ASSUME NEW s \in ScriptNodes, NEW target \in Page \cup {"holder"}, AppendScripts(<<s>>, target)
      PROVE  ScriptIInv'
  <2>1. CallsJQuery /\ DomManip(<<s>>, <<>>, target, FALSE)
    BY <1>3 DEF AppendScripts, Use, CallsJQuery
  <2>2. /\ Inserted(ToSet(<<s>>), {}, s, target, FALSE)
        /\ pending' = IF <<s>> = <<>> THEN pending ELSE Append(pending, <<s>>)
        /\ evaluating' = (evaluating /\ <<s>> = <<>>)
    BY <2>1, InsertsPlainly
  <2>3. Insertion(<<s>>, ToSet(<<s>>), {}, s, target, FALSE)
    BY <2>1, <2>2, OneScript DEF Insertion
  <2>4. QED
    BY <2>3, InsertionStep
<1>4. ASSUME NEW s \in ScriptNodes, NEW other \in ScriptNodes \ {s},
             AppendScripts(<<s, other>>, "page1")
      PROVE  ScriptIInv'
  <2>1. CallsJQuery /\ DomManip(<<s, other>>, <<>>, "page1", FALSE)
    BY <1>4 DEF AppendScripts, Use, CallsJQuery
  <2>2. PICK list : list = <<s, other>>
    OBVIOUS
  <2>3. /\ Inserted(ToSet(list), {}, s, "page1", FALSE)
        /\ pending' = IF list = <<>> THEN pending ELSE Append(pending, list)
        /\ evaluating' = (evaluating /\ list = <<>>)
    BY <2>1, <2>2, InsertsPlainly
  <2>4. Insertion(list, ToSet(list), {}, s, "page1", FALSE)
    BY <1>1, <2>1, <2>2, <2>3, TwoScripts DEF Insertion
  <2>5. QED
    BY <2>4, InsertionStep
<1>5. ASSUME NEW target \in Page, AppendHolder(target)
      PROVE  ScriptIInv'
  <2>1. PICK list : list = SetToSeq(Held)
    OBVIOUS
  <2>2. CallsJQuery /\ DomManip(list, <<>>, target, TRUE)
    BY <1>5, <2>1 DEF AppendHolder, Use, CallsJQuery
  <2>3. PICK o : o = target
    OBVIOUS
  <2>4. /\ Inserted(ToSet(list), {}, o, target, TRUE)
        /\ pending' = IF list = <<>> THEN pending ELSE Append(pending, list)
        /\ evaluating' = (evaluating /\ list = <<>>)
    BY <2>2, InsertsPlainly
  <2>5. IsFiniteSet(Held) /\ Held \subseteq ScriptNodes
    BY ScriptsAssumption, FS_Subset DEF Held
  <2>6. list \in Seq(Held) /\ Different(list) /\ ToSet(list) = Held
    BY <2>1, <2>5, SeqOfSet
  <2>7. list \in Seq(ScriptNodes)
    BY <2>5, <2>6
  <2>8. Insertion(list, ToSet(list), {}, o, target, TRUE)
    BY <1>1, <2>2, <2>4, <2>6, <2>7 DEF Insertion
  <2>9. QED
    BY <2>8, InsertionStep
<1>6. QED
  BY <1>2, <1>3, <1>4, <1>5

\* The loops stay as they are.
LEMMA SameLoops ==
    ASSUME LoopsOK, pending' = pending, evaluating' = evaluating
    PROVE  /\ pending' \in Loops /\ evaluating' \in BOOLEAN
           /\ \A i \in DOMAIN pending' : pending'[i] \in Seq(ScriptNodes)
           /\ evaluating' => pending' # <<>>
           /\ Waiting' = Waiting
BY DEF LoopsOK, TypeOK, Waiting, InLoops, Loops

LEMMA CreateStep ==
    ASSUME ScriptIInv, UNCHANGED <<reentrant, removes>>, NEW s \in ScriptNodes, Create(s)
    PROVE  ScriptIInv'
<1>1. /\ home[s] = "unborn" /\ s \in Unborn /\ home' = [home EXCEPT ![s] = "out"]
      /\ UNCHANGED <<holder, globalEval, content, pending, evaluating, spent, again, thrown>>
  BY DEF Create, Unborn
<1>2. home \in [ScriptNodes -> {"unborn", "out", "holder"} \cup Page]
  BY DEF ScriptIInv, LoopsOK, TypeOK
<1>3. \A t \in ScriptNodes : home'[t] = IF t = s THEN "out" ELSE home[t]
  BY <1>1, <1>2
<1>4. \A t \in ScriptNodes : InPage(t)' <=> InPage(t)
  BY <1>1, <1>3 DEF InPage, Page
<1>5. LoopsOK'
  <2>1. home' \in [ScriptNodes -> {"unborn", "out", "holder"} \cup Page]
    BY <1>1, <1>2
  <2>2. ScriptNodes \ Unborn \subseteq ScriptNodes \ Unborn'
    BY <1>3 DEF Unborn
  <2>3. QED
    BY <1>1, <2>1, <2>2, SameLoops DEF ScriptIInv, LoopsOK, TypeOK, Page, Loops
<1>6. Waiting' = Waiting /\ Waiting \subseteq ScriptNodes /\ spent \subseteq ScriptNodes
  BY <1>1, SameLoops DEF ScriptIInv, Waiting, InLoops, LoopsOK, TypeOK
<1>7. KeptInv => KeptInv'
  BY <1>1, <1>4, <1>6 DEF KeptInv, Placed, OnceIn
<1>8. TurnInv => TurnInv'
  BY <1>1, <1>4, <1>6 DEF TurnInv, Evaluated
<1>9. QED
  BY <1>1, <1>5, <1>7, <1>8 DEF ScriptIInv

\* Scripts leave their places, and some the page; flags of those that were in
\* it are set.
LEMMA DetachingStep ==
    ASSUME ScriptIInv, UNCHANGED <<reentrant, removes>>, CallsJQuery,
           home' \in [ScriptNodes -> {"unborn", "out", "holder"} \cup Page],
           holder' \in {"out"} \cup Page, Unborn' = Unborn,
           NEW Ds \in SUBSET (ScriptNodes \ Unborn),
           \A t \in ScriptNodes : InPage(t)' <=> InPage(t) /\ t \notin Ds,
           globalEval' = globalEval \cup AlreadyInserted(Ds),
           UNCHANGED <<content, pending, evaluating, spent, again, thrown>>
    PROVE  ScriptIInv'
<1>1. /\ globalEval \cup spent \cup again \subseteq ScriptNodes \ Unborn
      /\ LoopsOK
  BY DEF ScriptIInv, LoopsOK, TypeOK
<1>2. /\ globalEval \subseteq globalEval'
      /\ \A t \in globalEval' : t \in globalEval \/ (t \in Ds /\ InPage(t))
      /\ \A t \in Ds : InPage(t) => t \in globalEval'
  BY DEF AlreadyInserted
<1>3. LoopsOK'
  <2>1. globalEval' \cup spent' \cup again' \subseteq ScriptNodes \ Unborn'
    BY <1>1, <1>2
  <2>2. QED
    BY <1>1, <2>1, SameLoops DEF LoopsOK, TypeOK, Page, Loops
<1>4. Waiting' = Waiting /\ Waiting \subseteq ScriptNodes
  BY <1>1, SameLoops DEF Waiting, InLoops
<1>5. KeptInv => KeptInv'
  <2>1. KeptInv => \A t \in Waiting \ globalEval : InPage(t)
    BY <1>1, NothingDue
  <2>2. SUFFICES ASSUME KeptInv PROVE KeptInv'
    OBVIOUS
  <2>3. \A t \in spent' \ globalEval' : InPage(t)' /\ t \notin Waiting'
    BY <1>1, <1>2, <1>4, <2>2 DEF KeptInv
  <2>4. \A t \in Waiting' \ globalEval' : Placed(t)'
    BY <1>2, <1>4, <2>1, <2>2 DEF Placed
  <2>5. again' = {} /\ OnceIn(pending', globalEval')
    BY <1>2, <2>2 DEF KeptInv, OnceIn
  <2>6. QED
    BY <2>3, <2>4, <2>5 DEF KeptInv, OnceIn
<1>6. TurnInv /\ ~reentrant => TurnInv'
  <2>1. SUFFICES ASSUME TurnInv, ~reentrant PROVE TurnInv'
    OBVIOUS
  <2>2. \A t \in ScriptNodes : InPage(t) => Evaluated(t)
    BY <1>1, <2>1, NothingDue
  <2>3. \A t : Evaluated(t)' <=> Evaluated(t)
    BY DEF Evaluated
  <2>4. QED
    BY <1>2, <2>1, <2>2, <2>3 DEF TurnInv, Evaluated
<1>7. QED
  BY <1>3, <1>5, <1>6 DEF ScriptIInv

\* One script, or the element that holds some.
LEMMA DetachSteps ==
    ASSUME ScriptIInv, UNCHANGED <<reentrant, removes>>,
           (\E s \in ScriptNodes : Detach(s)) \/ DetachHolder
    PROVE  ScriptIInv'
<1>1. /\ home \in [ScriptNodes -> {"unborn", "out", "holder"} \cup Page]
      /\ holder \in {"out"} \cup Page
  BY DEF ScriptIInv, LoopsOK, TypeOK
<1>2. ASSUME NEW s \in ScriptNodes, Detach(s) PROVE ScriptIInv'
  <2>1. /\ CallsJQuery /\ home[s] # "unborn" /\ home' = [home EXCEPT ![s] = "out"]
        /\ globalEval' = globalEval \cup AlreadyInserted({s}) /\ holder' = holder
        /\ UNCHANGED <<content, pending, evaluating, spent, again, thrown>>
    BY <1>2 DEF Detach, Use, CallsJQuery
  <2>2. \A t \in ScriptNodes : home'[t] = IF t = s THEN "out" ELSE home[t]
    BY <1>1, <2>1
  <2>3. \A t \in ScriptNodes : InPage(t)' <=> InPage(t) /\ t \notin {s}
    BY <2>1, <2>2 DEF InPage, Page
  <2>4. Unborn' = Unborn /\ {s} \in SUBSET (ScriptNodes \ Unborn)
    BY <2>1, <2>2 DEF Unborn
  <2>5. home' \in [ScriptNodes -> {"unborn", "out", "holder"} \cup Page]
    BY <1>1, <2>1
  <2>6. QED
    BY <1>1, <2>1, <2>3, <2>4, <2>5, DetachingStep
<1>3. ASSUME DetachHolder PROVE ScriptIInv'
  <2>1. /\ CallsJQuery /\ home' = home /\ holder' = "out"
        /\ globalEval' = globalEval \cup AlreadyInserted(Held)
        /\ UNCHANGED <<content, pending, evaluating, spent, again, thrown>>
    BY <1>3 DEF DetachHolder, Use, CallsJQuery
  <2>2. \A t \in ScriptNodes : InPage(t)' <=> InPage(t) /\ t \notin Held
    BY <2>1 DEF InPage, Page, Held
  <2>3. Unborn' = Unborn /\ Held \in SUBSET (ScriptNodes \ Unborn)
    BY <2>1 DEF Unborn, Held
  <2>4. QED
    BY <1>1, <2>1, <2>2, <2>3, DetachingStep
<1>4. QED
  BY <1>2, <1>3

\* remove and empty: the flags go.
LEMMA RemovalStep ==
    ASSUME ScriptIInv, UNCHANGED <<reentrant, removes>>, removes, CallsJQuery,
           home' \in [ScriptNodes -> {"unborn", "out", "holder"} \cup Page],
           holder' \in {"out"} \cup Page,
           \A s \in ScriptNodes : /\ home'[s] = "unborn" => home[s] = "unborn"
                                  /\ InPage(s)' => InPage(s),
           globalEval' \subseteq globalEval,
           UNCHANGED <<content, pending, evaluating, spent, again, thrown>>
    PROVE  ScriptIInv'
<1>1. LoopsOK /\ Waiting' = Waiting
  BY SameLoops DEF ScriptIInv
<1>2. LoopsOK'
  <2>1. ScriptNodes \ Unborn \subseteq ScriptNodes \ Unborn'
    BY DEF Unborn
  <2>2. globalEval' \cup spent' \cup again' \subseteq ScriptNodes \ Unborn'
    BY <1>1, <2>1 DEF LoopsOK, TypeOK
  <2>3. QED
    BY <1>1, <2>2, SameLoops DEF LoopsOK, TypeOK, Page, Loops
<1>3. ASSUME TurnInv, ~reentrant PROVE TurnInv'
  <2>1. \A t \in ScriptNodes : InPage(t) => Evaluated(t)
    BY <1>1, <1>3, NothingDue
  <2>2. QED
    BY <1>3, <2>1 DEF TurnInv, Evaluated
<1>4. QED
  BY <1>2, <1>3 DEF ScriptIInv

LEMMA RemoveSteps ==
    ASSUME ScriptIInv, UNCHANGED <<reentrant, removes>>,
           \/ \E s \in ScriptNodes : RemoveNode(s)
           \/ \E c \in Page \cup {"holder"} : EmptyNode(c)
           \/ RemoveHolder
    PROVE  ScriptIInv'
<1>1. /\ home \in [ScriptNodes -> {"unborn", "out", "holder"} \cup Page]
      /\ holder \in {"out"} \cup Page
  BY DEF ScriptIInv, LoopsOK, TypeOK
<1>2. ASSUME NEW s \in ScriptNodes, RemoveNode(s) PROVE ScriptIInv'
  <2>1. /\ CallsJQuery /\ removes /\ home[s] # "unborn" /\ home' = [home EXCEPT ![s] = "out"]
        /\ globalEval' \subseteq globalEval /\ holder' = holder
        /\ UNCHANGED <<content, pending, evaluating, spent, again, thrown>>
    BY <1>2 DEF RemoveNode, Use, CallsJQuery
  <2>2. \A t \in ScriptNodes : home'[t] = IF t = s THEN "out" ELSE home[t]
    BY <1>1, <2>1
  <2>3. home' \in [ScriptNodes -> {"unborn", "out", "holder"} \cup Page]
    BY <1>1, <2>1
  <2>4. \A t \in ScriptNodes : /\ home'[t] = "unborn" => home[t] = "unborn"
                               /\ InPage(t)' => InPage(t)
    BY <2>1, <2>2 DEF InPage, Page
  <2>5. QED
    BY <1>1, <2>1, <2>3, <2>4, RemovalStep
<1>3. ASSUME NEW c \in Page \cup {"holder"}, EmptyNode(c) PROVE ScriptIInv'
  <2>1. /\ CallsJQuery /\ removes
        /\ home' = [s \in ScriptNodes |-> IF home[s] = c THEN "out" ELSE home[s]]
        /\ globalEval' \subseteq globalEval
        /\ holder' = IF holder = c THEN "out" ELSE holder
        /\ UNCHANGED <<content, pending, evaluating, spent, again, thrown>>
    BY <1>3 DEF EmptyNode, Use, CallsJQuery
  <2>2. \A t \in ScriptNodes : home'[t] = IF home[t] = c THEN "out" ELSE home[t]
    BY <2>1
  <2>3. home' \in [ScriptNodes -> {"unborn", "out", "holder"} \cup Page]
    BY <1>1, <2>1
  <2>4. \A t \in ScriptNodes : /\ home'[t] = "unborn" => home[t] = "unborn"
                               /\ InPage(t)' => InPage(t)
    BY <2>1, <2>2 DEF InPage, Page
  <2>5. holder' \in {"out"} \cup Page
    BY <1>1, <2>1
  <2>6. QED
    BY <2>1, <2>3, <2>4, <2>5, RemovalStep
<1>4. ASSUME RemoveHolder PROVE ScriptIInv'
  <2>1. /\ CallsJQuery /\ removes /\ home' = home /\ holder' = "out"
        /\ globalEval' \subseteq globalEval
        /\ UNCHANGED <<content, pending, evaluating, spent, again, thrown>>
    BY <1>4 DEF RemoveHolder, Use, CallsJQuery
  <2>2. \A t \in ScriptNodes : /\ home'[t] = "unborn" => home[t] = "unborn"
                               /\ InPage(t)' => InPage(t)
    BY <2>1 DEF InPage, Page
  <2>3. QED
    BY <1>1, <2>1, <2>2, RemovalStep
<1>5. QED
  BY <1>2, <1>3, <1>4

\* A clone is nowhere yet, and has the flag of its original, or one since that is in
\* the page.
LEMMA CloneScriptStep ==
    ASSUME ScriptIInv, UNCHANGED <<reentrant, removes>>, NEW s \in ScriptNodes,
           NEW clone \in ScriptNodes, Clone(s, clone)
    PROVE  ScriptIInv'
<1>1. /\ CallsJQuery /\ home[s] # "unborn" /\ home[clone] = "unborn" /\ s # clone /\ clone \in Unborn
      /\ home' = [home EXCEPT ![clone] = "out"]
      /\ globalEval' = IF InPage(s) \/ s \in globalEval THEN globalEval \cup {clone} ELSE globalEval
      /\ content' = [content EXCEPT ![clone] = content[s]]
      /\ spent' = IF s \in spent THEN spent \cup {clone} ELSE spent
      /\ UNCHANGED <<holder, pending, evaluating, again, thrown>>
  BY DEF Clone, Use, CallsJQuery, Unborn
<1>2. /\ home \in [ScriptNodes -> {"unborn", "out", "holder"} \cup Page]
      /\ content \in [ScriptNodes -> ScriptNodes]
      /\ globalEval \cup spent \cup again \subseteq ScriptNodes \ Unborn
      /\ LoopsOK
  BY DEF ScriptIInv, LoopsOK, TypeOK
<1>3. \A t \in ScriptNodes :
          /\ home'[t] = IF t = clone THEN "out" ELSE home[t]
          /\ content'[t] = IF t = clone THEN content[s] ELSE content[t]
  BY <1>1, <1>2
<1>4. /\ \A t \in ScriptNodes : InPage(t)' <=> InPage(t)
      /\ ~InPage(clone)
  BY <1>1, <1>3 DEF InPage, Page
<1>5. clone \notin globalEval \cup spent
  BY <1>1, <1>2
<1>6. LoopsOK'
  <2>1. home' \in [ScriptNodes -> {"unborn", "out", "holder"} \cup Page]
    BY <1>1, <1>2
  <2>2. ScriptNodes \ Unborn \subseteq ScriptNodes \ Unborn' /\ clone \notin Unborn'
    BY <1>1, <1>3 DEF Unborn
  <2>3. globalEval' \cup spent' \cup again' \subseteq ScriptNodes \ Unborn'
    BY <1>1, <1>2, <2>2
  <2>4. content' \in [ScriptNodes -> ScriptNodes]
    BY <1>1, <1>2
  <2>5. QED
    BY <1>1, <1>2, <2>1, <2>3, <2>4, SameLoops DEF LoopsOK, TypeOK, Page, Loops
<1>7. Waiting' = Waiting /\ Waiting \subseteq ScriptNodes
  BY <1>1, <1>2, SameLoops DEF Waiting, InLoops
<1>8. ASSUME KeptInv PROVE KeptInv'
  <2>1. \A t \in Waiting \ globalEval : InPage(t)
    BY <1>1, <1>2, <1>8, NothingDue
  <2>2. ASSUME NEW t \in spent' \ globalEval' PROVE InPage(t)' /\ t \notin Waiting'
    <3>1. t # clone
      BY <1>1, <1>5, <1>8, <2>2 DEF KeptInv
    <3>2. t \in spent \ globalEval
      BY <1>1, <2>2, <3>1
    <3>3. QED
      BY <1>2, <1>4, <1>7, <1>8, <3>2 DEF KeptInv
  <2>3. ASSUME NEW t \in Waiting' \ globalEval' PROVE Placed(t)'
    <3>1. t \in Waiting \ globalEval
      BY <1>1, <1>7, <2>3
    <3>2. QED
      BY <1>4, <1>7, <2>1, <3>1 DEF Placed
  <2>4. OnceIn(pending', globalEval')
    BY <1>1, <1>8 DEF KeptInv, OnceIn
  <2>5. QED
    BY <1>1, <1>8, <2>2, <2>3, <2>4 DEF KeptInv, OnceIn
<1>9. ASSUME TurnInv, ~reentrant PROVE TurnInv'
  <2>1. \A t \in ScriptNodes : InPage(t) => Evaluated(t)
    BY <1>1, <1>2, <1>9, NothingDue
  <2>2. ASSUME NEW t \in ScriptNodes, NEW u \in ScriptNodes, Evaluated(t), content'[u] = content[t]
        PROVE  Evaluated(u)'
    <3>1. PICK e \in spent : content[e] = content[t]
      BY <2>2 DEF Evaluated
    <3>2. e \in spent' /\ content'[e] = content[e]
      BY <1>1, <1>2, <1>3, <1>5, <3>1
    <3>3. QED
      BY <2>2, <3>1, <3>2 DEF Evaluated
  <2>3. ASSUME NEW t \in globalEval' PROVE Evaluated(t)'
    <3>1. CASE t \in globalEval
      BY <1>2, <1>3, <1>5, <1>9, <2>2, <3>1 DEF TurnInv
    <3>2. CASE t = clone /\ (InPage(s) \/ s \in globalEval)
      BY <1>3, <1>9, <2>1, <2>2, <3>2 DEF TurnInv
    <3>3. QED
      BY <1>1, <2>3, <3>1, <3>2
  <2>4. ASSUME NEW t \in ScriptNodes, InPage(t)' PROVE Evaluated(t)'
    BY <1>3, <1>4, <2>1, <2>2, <2>4
  <2>5. QED
    BY <2>3, <2>4 DEF TurnInv, Evaluated
<1>10. QED
  BY <1>1, <1>6, <1>8, <1>9 DEF ScriptIInv

\* The next script of the innermost loop is evaluated or passed over.
LEMMA EvaluateStep ==
    ASSUME ScriptIInv, UNCHANGED <<reentrant, removes>>, EvaluateNext
    PROVE  ScriptIInv'
<1>1. PICK list : list = pending[Len(pending)]
  OBVIOUS
<1>2. PICK s : s = Head(list)
  OBVIOUS
<1>3. /\ pending # <<>> /\ ~evaluating /\ list # <<>>
      /\ pending' = [pending EXCEPT ![Len(pending)] = Tail(list)]
      /\ IF s \notin globalEval /\ InPage(s)
         THEN evaluating' = TRUE /\ again' = again \cup ({s} \cap spent) /\ spent' = spent \cup {s}
         ELSE UNCHANGED <<evaluating, spent, again>>
      /\ UNCHANGED <<home, holder, globalEval, content, uses, thrown>>
  BY <1>1, <1>2 DEF EvaluateNext, Last, Evaluates
<1>4. LoopsOK
  BY DEF ScriptIInv
<1>5. /\ pending' \in Loops /\ s \in ScriptNodes
      /\ Waiting = Waiting' \cup {s}
      /\ \A flagged : OnceIn(pending, flagged) =>
             /\ OnceIn(pending', flagged)
             /\ s \notin flagged => s \notin Waiting'
  <2>1. InLoops(pending)' = InLoops(pending')
    BY DEF InLoops
  <2>2. QED
    BY <1>1, <1>2, <1>3, <1>4, <2>1, LoopGoesOn DEF Waiting, LoopsOK
<1>6. \A t \in ScriptNodes : InPage(t)' <=> InPage(t)
  BY <1>3 DEF InPage
<1>7. LoopsOK'
  <2>1. pending' # <<>> /\ \A i \in DOMAIN pending' : pending'[i] \in Seq(ScriptNodes)
    <3>1. Len(pending') = Len(pending) /\ Len(pending) # 0
      BY <1>3, <1>4 DEF LoopsOK, Loops
    <3>2. QED
      BY <1>5, <3>1 DEF Loops
  <2>2. s \notin globalEval /\ InPage(s) => s \in ScriptNodes \ Unborn
    BY <1>5 DEF InPage, Unborn, Page
  <2>3. globalEval' \cup spent' \cup again' \subseteq ScriptNodes \ Unborn'
    BY <1>3, <1>4, <2>2 DEF LoopsOK, TypeOK, Unborn
  <2>4. evaluating' \in BOOLEAN
    BY <1>3, <1>4 DEF LoopsOK
  <2>5. TypeOK'
    BY <1>3, <1>4, <2>1, <2>3 DEF LoopsOK, TypeOK, Page
  <2>6. QED
    BY <1>4, <1>5, <2>4, <2>5 DEF LoopsOK, Loops
<1>8. ASSUME KeptInv PROVE KeptInv'
  <2>1. /\ again = {}
        /\ \A t \in spent \ globalEval : InPage(t) /\ t \notin Waiting
        /\ \A t \in Waiting \ globalEval : Placed(t)
        /\ OnceIn(pending, globalEval)
    BY <1>8 DEF KeptInv
  <2>2. OnceIn(pending', globalEval') /\ (s \notin globalEval => s \notin Waiting')
    <3>1. OnceIn(pending', globalEval)
      BY <1>5, <2>1
    <3>2. s \notin globalEval => s \notin Waiting'
      BY <1>5, <2>1
    <3>3. QED
      BY <1>3, <3>1, <3>2 DEF OnceIn
  <2>3. again' = {}
    BY <1>3, <1>5, <2>1
  <2>4. ASSUME NEW t \in spent' \ globalEval' PROVE InPage(t)' /\ t \notin Waiting'
    BY <1>3, <1>4, <1>5, <1>6, <2>1, <2>2, <2>4 DEF LoopsOK, TypeOK
  <2>5. ASSUME NEW t \in Waiting' \ globalEval' PROVE Placed(t)'
    <3>1. t \in Waiting \ globalEval /\ t # s /\ t \in ScriptNodes
      BY <1>3, <1>5, <2>2, <2>5 DEF Waiting, InLoops
    <3>2. list = <<t>> => s = t
      BY <1>2
    <3>3. InPage(t)
      BY <1>1, <2>1, <3>1, <3>2 DEF Placed
    <3>4. QED
      BY <1>6, <3>1, <3>3 DEF Placed
  <2>6. QED
    BY <2>2, <2>3, <2>4, <2>5 DEF KeptInv, OnceIn
<1>9. ASSUME TurnInv PROVE TurnInv'
  <2>1. \A t : Evaluated(t) => Evaluated(t)'
    BY <1>3 DEF Evaluated
  <2>2. ASSUME NEW t \in ScriptNodes, InPage(t)', ~Evaluated(t)'
        PROVE  \E p \in (Waiting \ globalEval)' : InPage(p)' /\ content'[p] = content'[t]
    <3>1. PICK p \in Waiting \ globalEval : InPage(p) /\ content[p] = content[t]
      BY <1>6, <1>9, <2>1, <2>2 DEF TurnInv
    <3>2. p # s
      BY <1>3, <2>2, <3>1 DEF Evaluated
    <3>3. p \in Waiting' /\ p \in ScriptNodes
      BY <1>5, <3>1, <3>2 DEF Waiting, InLoops
    <3>4. QED
      BY <1>3, <1>6, <3>1, <3>3
  <2>3. \A t \in globalEval' : Evaluated(t)'
    BY <1>3, <1>9, <2>1 DEF TurnInv
  <2>4. QED
    BY <2>2, <2>3 DEF TurnInv, Evaluated
<1>10. QED
  BY <1>3, <1>7, <1>8, <1>9 DEF ScriptIInv

\* A script ends, or a loop, or all of them with an exception.
LEMMA EndSteps ==
    ASSUME ScriptIInv, UNCHANGED <<reentrant, removes>>, ScriptEnds \/ ScriptThrows \/ LoopEnds
    PROVE  ScriptIInv'
<1>1. LoopsOK /\ UNCHANGED <<home, holder, globalEval, content, spent, again>>
  BY DEF ScriptIInv, ScriptEnds, ScriptThrows, LoopEnds
<1>2. /\ pending' \in Loops /\ evaluating' \in BOOLEAN
      /\ evaluating' => pending' # <<>>
      /\ ~ScriptThrows => Waiting' = Waiting /\ thrown' = thrown
      /\ ScriptThrows => Waiting' = {} /\ thrown' = TRUE
      /\ OnceIn(pending, globalEval) => OnceIn(pending', globalEval')
  <2>1. InLoops(pending)' = InLoops(pending')
    BY DEF InLoops
  <2>2. CASE ScriptEnds /\ ~ScriptThrows
    <3>1. pending' = pending /\ evaluating' = FALSE /\ thrown' = thrown /\ evaluating
      BY <2>2 DEF ScriptEnds
    <3>2. Waiting' = Waiting
      BY <2>1, <3>1 DEF Waiting
    <3>3. OnceIn(pending, globalEval) => OnceIn(pending', globalEval')
      BY <1>1, <3>1 DEF OnceIn
    <3>4. pending' \in Loops
      BY <1>1, <3>1 DEF LoopsOK
    <3>5. QED
      BY <2>2, <3>1, <3>2, <3>3, <3>4
  <2>3. CASE ScriptThrows
    <3>1. pending' = <<>> /\ evaluating' = FALSE /\ thrown' = TRUE
      BY <2>3 DEF ScriptThrows
    <3>2. Waiting' = {}
      BY <2>1, <3>1 DEF Waiting, InLoops
    <3>3. <<>> \in Loops
      BY NoLoops
    <3>4. OnceIn(pending', globalEval')
      BY <3>1 DEF OnceIn
    <3>5. QED
      BY <2>3, <3>1, <3>2, <3>3, <3>4
  <2>4. CASE LoopEnds
    <3>1. /\ pending # <<>> /\ ~evaluating /\ pending[Len(pending)] = <<>> /\ thrown' = thrown
          /\ pending' = SubSeq(pending, 1, Len(pending) - 1)
          /\ evaluating' = (Len(pending) > 1)
      BY <2>4 DEF LoopEnds, Last, Front
    <3>2. /\ pending' \in Loops /\ Len(pending') = Len(pending) - 1
          /\ InLoops(pending') = InLoops(pending)
          /\ \A flagged : OnceIn(pending, flagged) => OnceIn(pending', flagged)
      BY <1>1, <3>1, LoopIsOver DEF LoopsOK
    <3>3. evaluating' \in BOOLEAN
      BY <3>1
    <3>4. evaluating' => pending' # <<>>
      <4>1. PICK n \in Nat : n = Len(pending)
        BY <1>1 DEF LoopsOK, Loops
      <4>2. n > 1 => Len(pending') # 0
        BY <3>2, <4>1
      <4>3. n > 1 => pending' # <<>>
        BY <4>2
      <4>4. evaluating' => n > 1
        BY <3>1, <4>1, Zenon
      <4>5. QED
        BY <4>3, <4>4, Zenon
    <3>5. OnceIn(pending, globalEval) => OnceIn(pending', globalEval')
      BY <1>1, <3>2 DEF OnceIn
    <3>6. Waiting' = Waiting
      BY <2>1, <3>2 DEF Waiting
    <3>7. ~ScriptThrows
      BY <3>1 DEF ScriptThrows
    <3>8. QED
      BY <3>1, <3>2, <3>3, <3>4, <3>5, <3>6, <3>7
  <2>5. QED
    BY <2>2, <2>3, <2>4
<1>3. LoopsOK'
  <2>1. \A i \in DOMAIN pending' : pending'[i] \in Seq(ScriptNodes)
    BY <1>2 DEF Loops
  <2>2. QED
    BY <1>1, <1>2, <2>1 DEF LoopsOK, TypeOK, Unborn, Page, Loops
<1>4. \A t : InPage(t)' <=> InPage(t)
  BY <1>1 DEF InPage
<1>5. ASSUME KeptInv PROVE KeptInv'
  <2>1. CASE ScriptThrows
    BY <1>1, <1>2, <1>4, <1>5, <2>1 DEF KeptInv, OnceIn
  <2>2. CASE ~ScriptThrows
    <3>1. \A t \in Waiting \ globalEval : InPage(t)
      <4>1. evaluating \/ pending[Len(pending)] = <<>>
        BY <2>2 DEF ScriptEnds, LoopEnds, Last
      <4>2. \A t : <<t>> # <<>>
        OBVIOUS
      <4>3. QED
        BY <1>5, <4>1, <4>2 DEF KeptInv, Placed
    <3>2. QED
      BY <1>1, <1>2, <1>4, <1>5, <2>2, <3>1 DEF KeptInv, Placed, OnceIn
  <2>3. QED
    BY <2>1, <2>2
<1>6. ASSUME TurnInv, ~thrown' PROVE TurnInv'
  BY <1>1, <1>2, <1>4, <1>6 DEF TurnInv, Evaluated
<1>7. thrown => thrown'
  BY <1>2
<1>8. QED
  BY <1>3, <1>5, <1>6, <1>7 DEF ScriptIInv

LEMMA ScriptStep == ASSUME ScriptIInv, [AllNext]_allVars PROVE ScriptIInv'
<1>1. CASE Next
  <2>1. UNCHANGED <<reentrant, removes>>
    BY <1>1 DEF Next
  <2>2. ASSUME NEW s \in ScriptNodes, Create(s) PROVE ScriptIInv'
    BY <2>1, <2>2, CreateStep
  <2>3. ASSUME NEW s \in ScriptNodes, NEW clone \in ScriptNodes, Clone(s, clone) PROVE ScriptIInv'
    BY <2>1, <2>3, CloneScriptStep
  <2>4. QED
    BY <1>1, <2>1, <2>2, <2>3, AppendSteps, DetachSteps, RemoveSteps, EvaluateStep, EndSteps,
       Zenon DEF Next
<1>2. CASE UNCHANGED vars
  BY <1>2 DEF vars, ScriptIInv, LoopsOK, TypeOK, Unborn, Page, Loops, KeptInv, TurnInv, Evaluated,
              Waiting, InLoops, Placed, OnceIn, InPage
<1>3. QED
  BY <1>1, <1>2, Zenon DEF AllNext, allVars

LEMMA ScriptInit == AllInit => ScriptIInv
<1> SUFFICES ASSUME AllInit PROVE ScriptIInv
  OBVIOUS
<1>1. /\ home = [s \in ScriptNodes |-> "unborn"] /\ holder = "out"
      /\ globalEval = {} /\ content = [s \in ScriptNodes |-> s] /\ pending = <<>>
      /\ evaluating = FALSE /\ spent = {} /\ again = {}
      /\ reentrant \in BOOLEAN /\ removes \in BOOLEAN
  BY DEF AllInit, Init
<1>2. LoopsOK
  <2>1. home \in [ScriptNodes -> {"unborn", "out", "holder"} \cup Page]
    BY <1>1
  <2>2. content \in [ScriptNodes -> ScriptNodes]
    BY <1>1
  <2>3. TypeOK
    BY <1>1, <2>1, <2>2 DEF TypeOK
  <2>4. pending \in Loops
    BY <1>1, NoLoops
  <2>5. QED
    BY <1>1, <2>3, <2>4 DEF LoopsOK
<1>3. Waiting = {} /\ OnceIn(pending, globalEval)
  BY <1>1 DEF Waiting, InLoops, OnceIn
<1>4. \A s \in ScriptNodes : ~InPage(s)
  BY <1>1 DEF InPage, Page
<1>5. KeptInv /\ TurnInv
  BY <1>1, <1>3, <1>4 DEF KeptInv, TurnInv
<1>6. QED
  BY <1>2, <1>5 DEF ScriptIInv

LEMMA ScriptIInvGives == ScriptIInv => ScriptInv
<1> SUFFICES ASSUME ScriptIInv PROVE ScriptInv
  OBVIOUS
<1>1. ~removes => EvaluatedOnce
  BY DEF ScriptIInv, KeptInv, EvaluatedOnce
<1>2. ~reentrant => NoneLeftOut
  <2>1. pending = <<>> => Waiting = {}
    BY DEF Waiting, InLoops
  <2>2. QED
    BY <2>1 DEF ScriptIInv, TurnInv, NoneLeftOut, Evaluated
<1>3. QED
  BY <1>1, <1>2 DEF ScriptIInv, LoopsOK, ScriptInv, ScriptsInv

\* For every set of scripts: none is evaluated twice, however scripts that are being
\* evaluated move and clone one another, unless remove or empty is called; and none
\* that was inserted is left out, unless one throws or scripts call jQuery.
THEOREM ScriptsTakeTurns == AllSpec => []ScriptInv
<1>1. AllInit => ScriptIInv
  BY ScriptInit
<1>2. ScriptIInv /\ [AllNext]_allVars => ScriptIInv'
  BY ScriptStep
<1>3. ScriptIInv => ScriptInv
  BY ScriptIInvGives
<1>4. QED
  BY <1>1, <1>2, <1>3, PTL DEF AllSpec

-----------------------------------------------------------------------------
(* Styles.                                                                 *)

\* How the element may be displayed where it is not hidden.
Looks == {natural} \cup (IF dimension THEN {"inline-block"} ELSE {})

\* The display d of the element and the note old of it: what is not noted can
\* be found again, since only an inline element is hidden without a note.
Noted(d, old) ==
    /\ d \in {None, "none"} \cup Looks
    /\ old \in {None} \cup Looks
    /\ d = None \/ (d = "none" /\ old = None) => natural = "inline"

DisplayInv ==
    /\ sheet \in {"inline", "none"} /\ dimension \in BOOLEAN
    /\ natural \in {"inline", "block"}
    /\ Noted(display, olddisplay)

\* The animations on their way: they bring back a size and an overflow.
Animations ==
    [what : {"show", "hide", "toggle"}, orig : {None, 2}, hides : BOOLEAN, overflow : {None}]

\* The size of before is in the note of an animation, which is there from its
\* begin until it is done, and in what it brings back.
SizeInv ==
    /\ size \in {None} \cup 0..2
    /\ fxshow \in [size : {None, 2}, hidden : BOOLEAN \cup {None}]
    /\ fxshow.size = None => fxshow.hidden = None
    /\ \/ /\ anim = Styles!NoAnim
          /\ overflow = None
          /\ fxshow.size = None => size \in {None, 2}
       \/ /\ anim \in Animations
          /\ overflow = (IF dimension THEN "hidden" ELSE None)
          /\ fxshow.size = 2

\* The requests that are remembered.
AskedFor == {None, "show now", "hide now", "show", "hide", "toggle"}
Asks == [what : AskedFor, hides : BOOLEAN, done : BOOLEAN]

\* After a toggle, its direction is in the note if it was not done, and in the
\* display of the element if it was.
AskedInv ==
    /\ asked \in Asks
    /\ asked.what = "toggle" /\ asked.done =>
           /\ anim = Styles!NoAnim
           /\ fxshow.size = None
           /\ asked.hides <=> Styles!IsHidden(display)
    /\ asked.what = "toggle" /\ ~asked.done =>
           /\ fxshow.hidden \in BOOLEAN
           /\ fxshow.hidden <=> asked.hides
           /\ anim # Styles!NoAnim =>
                  /\ anim.hides <=> asked.hides
                  /\ ~asked.hides => ~Styles!IsHidden(display)

StylesIInv == DisplayInv /\ SizeInv /\ AskedInv

\* The values that None is told apart from.
LEMMA NotSet ==
    /\ None # "inline" /\ None # "none" /\ None # "block" /\ None # "inline-block"
    /\ None # "hidden" /\ None # "show" /\ None # "hide" /\ None # "toggle"
    /\ None # 0 /\ None # 1 /\ None # 2
<1>1. None \notin 0..2
  BY Zenon, StylesAssumption
<1>2. None # 0 /\ None # 1 /\ None # 2
  BY <1>1
<1>3. QED
  BY <1>2, StylesAssumption, Zenon

LEMMA AskFields ==
    ASSUME NEW what \in AskedFor, NEW hides \in BOOLEAN, NEW done \in BOOLEAN,
           NEW a, a = Styles!Asked(what, hides, done)
    PROVE  a \in Asks /\ a.what = what /\ (a.hides <=> hides) /\ (a.done <=> done)
BY DEF Asks, Styles!Asked

LEMMA AskTypes ==
    ASSUME NEW a \in Asks
    PROVE  /\ a.what \in AskedFor /\ a.hides \in BOOLEAN /\ a.done \in BOOLEAN
           /\ [a EXCEPT !.done = TRUE] \in Asks
           /\ [a EXCEPT !.done = TRUE].what = a.what
           /\ [a EXCEPT !.done = TRUE].hides <=> a.hides
           /\ [a EXCEPT !.done = TRUE].done
BY DEF Asks

LEMMA NoneRuns == \A x \in Animations : x # Styles!NoAnim
BY NotSet DEF Animations, Styles!NoAnim

\* Nothing is displayed that was not noted, or is not to be found again.
LEMMA ShownLooks ==
    ASSUME DisplayInv, NEW d, NEW old, Noted(d, old)
    PROVE  /\ Noted(Styles!Shown(d, old)[1], Styles!Shown(d, old)[2])
           /\ ~Styles!IsHidden(Styles!Shown(d, old)[1])
<1>1. PICK reset : reset = IF old = None /\ d = "none" THEN None ELSE d
  OBVIOUS
<1>2. PICK kept : kept = IF reset = None /\ Styles!IsHidden(reset) THEN Styles!Default ELSE old
  OBVIOUS
<1>3. PICK shown : shown = IF reset \in {"none", None} THEN kept ELSE reset
  OBVIOUS
<1>4. Styles!Shown(d, old) = <<shown, kept>>
  BY <1>1, <1>2, <1>3, Zenon DEF Styles!Shown
<1>5. kept = IF reset = None /\ sheet = "none" THEN "inline" ELSE old
  BY <1>2, NotSet DEF Styles!IsHidden, Styles!Computed, Styles!Default
<1>6. Noted(shown, kept) /\ shown # "none" /\ (shown = None => sheet # "none")
  BY <1>1, <1>3, <1>5, NotSet DEF DisplayInv, Noted, Looks
<1>7. QED
  BY <1>4, <1>6 DEF Styles!IsHidden, Styles!Computed

LEMMA HiddenLooks ==
    ASSUME DisplayInv, NEW d, NEW old, Noted(d, old)
    PROVE  /\ Noted(Styles!Hidden(d, old)[1], Styles!Hidden(d, old)[2])
           /\ Styles!IsHidden(Styles!Hidden(d, old)[1])
<1>1. PICK kept : kept = IF old = None /\ ~Styles!IsHidden(d) THEN Styles!Computed(d) ELSE old
  OBVIOUS
<1>2. Styles!Hidden(d, old) = <<"none", kept>>
  BY <1>1 DEF Styles!Hidden
<1>3. Noted("none", kept) /\ "none" # None
  BY <1>1, NotSet DEF DisplayInv, Noted, Looks, Styles!IsHidden, Styles!Computed
<1>4. QED
  BY <1>2, <1>3 DEF Styles!IsHidden, Styles!Computed

LEMMA InlinedLooks ==
    ASSUME DisplayInv
    PROVE  Noted(Styles!Inlined, olddisplay)
BY NotSet DEF DisplayInv, Noted, Looks, Styles!Inlined, Styles!Computed

LEMMA NowStep ==
    ASSUME StylesIInv, Styles!ShowNow \/ Styles!HideNow
    PROVE  StylesIInv'
<1>1. Noted(display', olddisplay')
  <2>1. Noted(display, olddisplay)
    BY DEF StylesIInv, DisplayInv
  <2>2. CASE Styles!ShowNow
    <3>1. PICK styles : styles = Styles!Shown(display, olddisplay)
      OBVIOUS
    <3>2. display' = styles[1] /\ olddisplay' = styles[2]
      BY <2>2, <3>1, Zenon DEF Styles!ShowNow, Styles!Become
    <3>3. QED
      BY <2>1, <3>1, <3>2, ShownLooks DEF StylesIInv
  <2>3. CASE Styles!HideNow
    <3>1. PICK styles : styles = Styles!Hidden(display, olddisplay)
      OBVIOUS
    <3>2. display' = styles[1] /\ olddisplay' = styles[2]
      BY <2>3, <3>1, Zenon DEF Styles!HideNow, Styles!Become
    <3>3. QED
      BY <2>1, <3>1, <3>2, HiddenLooks DEF StylesIInv
  <2>4. QED
    BY <2>2, <2>3
<1>2. UNCHANGED <<sheet, dimension, natural, size, overflow, fxshow, anim>>
  BY Zenon DEF Styles!ShowNow, Styles!HideNow
<1>3. /\ asked'.what # "toggle"
      /\ asked' \in Asks
  <2>1. PICK what \in AskedFor, hides \in BOOLEAN, done \in BOOLEAN :
            asked' = Styles!Asked(what, hides, done) /\ what # "toggle"
    BY Zenon DEF Styles!ShowNow, Styles!HideNow, AskedFor
  <2>2. QED
    BY <2>1, AskFields
<1>4. DisplayInv'
  BY <1>1, <1>2 DEF StylesIInv, DisplayInv, Noted, Looks
<1>5. SizeInv'
  BY <1>2 DEF StylesIInv, SizeInv, Styles!NoAnim
<1>6. AskedInv'
  BY <1>3 DEF AskedInv
<1>7. QED
  BY <1>4, <1>5, <1>6 DEF StylesIInv

\* What an animation that begins stores, and where it goes.
LEMMA BeginStep ==
    ASSUME StylesIInv, NEW what \in {"show", "hide", "toggle"}, Styles!Begin(what)
    PROVE  /\ StylesIInv'
           /\ asked.what = "toggle" /\ what = "toggle" => (anim'.hides <=> ~asked.hides)
<1>1. PICK hidden \in BOOLEAN : hidden <=> Styles!FromHidden(what, display)
  BY Zenon
<1>2. anim = Styles!NoAnim /\ overflow = None /\ (fxshow.size = None => size \in {None, 2})
  BY NoneRuns DEF Styles!Begin, Styles!Running, StylesIInv, SizeInv
<1>3. UNCHANGED <<sheet, dimension, natural>>
  BY DEF Styles!Begin
<1>4. /\ Noted(display', olddisplay')
      /\ hidden => ~Styles!IsHidden(display')
  <2>1. CASE hidden
    BY <1>1, <2>1, InlinedLooks, ShownLooks DEF StylesIInv, Styles!Begin, Styles!Become
  <2>2. CASE ~hidden
    <3>1. display' = Styles!Inlined /\ olddisplay' = olddisplay
      BY <1>1, <2>2 DEF Styles!Begin
    <3>2. QED
      BY <2>2, <3>1, InlinedLooks DEF StylesIInv
  <2>3. QED
    BY <2>1, <2>2
<1>5. PICK stored : stored = Styles!Stores(what, Styles!FromHidden(what, display))
  OBVIOUS
<1>6. /\ fxshow' = [size |-> IF fxshow.size = None THEN Styles!Cur(size) ELSE fxshow.size,
                    hidden |-> stored]
      /\ anim' = [what |-> what, orig |-> Styles!Orig,
                  hides |-> ~Styles!FromHidden(what, display), overflow |-> overflow]
      /\ asked' = Styles!Asked(what, ~Styles!FromHidden(what, display), FALSE)
      /\ overflow' = IF dimension THEN "hidden" ELSE overflow
  BY <1>5 DEF Styles!Begin
<1>7. Styles!Cur(size) \in 0..2 /\ (fxshow.size = None => Styles!Cur(size) = 2)
  BY <1>2, NotSet DEF StylesIInv, SizeInv, Styles!Cur
<1>8. stored \in BOOLEAN \cup {None}
  BY <1>1, <1>5, Zenon DEF Styles!Stores, StylesIInv, SizeInv
<1>9. SizeInv'
  <2>1. size' \in 0..2
    BY <1>7 DEF Styles!Begin
  <2>2. fxshow' \in [size : {None, 2}, hidden : BOOLEAN \cup {None}] /\ fxshow'.size = 2
    BY <1>6, <1>7, <1>8, NotSet DEF StylesIInv, SizeInv
  <2>3. Styles!Orig \in {None, 2}
    BY <1>2 DEF StylesIInv, SizeInv, Styles!Orig
  <2>4. anim' \in Animations
    BY <1>2, <1>6, <2>3 DEF Animations
  <2>5. overflow' = (IF dimension' THEN "hidden" ELSE None)
    BY <1>2, <1>3, <1>6, Zenon
  <2>6. QED
    BY <2>1, <2>2, <2>4, <2>5, NotSet DEF SizeInv
<1>10. /\ asked'.what = what /\ asked'.hides \in BOOLEAN /\ (asked'.hides <=> ~hidden)
       /\ ~asked'.done /\ asked'.done \in BOOLEAN
       /\ anim'.hides \in BOOLEAN /\ (anim'.hides <=> ~hidden)
       /\ asked' \in Asks
  <2>1. PICK hides \in BOOLEAN, done \in BOOLEAN :
            hides = ~Styles!FromHidden(what, display) /\ done = FALSE
    BY Zenon
  <2>2. asked' = Styles!Asked(what, hides, done) /\ anim'.hides = hides
    BY <1>6, <2>1, Zenon
  <2>3. what \in AskedFor
    BY Zenon DEF AskedFor
  <2>4. asked' \in Asks /\ asked'.what = what /\ (asked'.hides <=> hides) /\ ~asked'.done
    BY <2>1, <2>2, <2>3, AskFields
  <2>5. asked'.hides \in BOOLEAN /\ asked'.done \in BOOLEAN
    BY <2>4, AskTypes
  <2>6. QED
    BY <1>1, <2>1, <2>2, <2>4, <2>5, Zenon
<1>11. what = "toggle" => fxshow'.hidden \in BOOLEAN /\ (fxshow'.hidden <=> ~hidden)
  BY <1>1, <1>5, <1>6 DEF Styles!Stores
<1>12. AskedInv'
  <2>1. hidden => ~(Styles!IsHidden(display))'
    BY <1>3, <1>4 DEF Styles!IsHidden, Styles!Computed
  <2>2. QED
    BY <1>10, <1>11, <2>1, Zenon DEF AskedInv
<1>13. DisplayInv'
  BY <1>3, <1>4 DEF StylesIInv, DisplayInv, Noted, Looks
<1>14. ASSUME asked.what = "toggle", what = "toggle" PROVE hidden <=> asked.hides
  <2>1. CASE asked.done
    BY <1>1, <1>14, <2>1, NotSet
       DEF StylesIInv, AskedInv, SizeInv, Styles!FromHidden, Styles!Pretends
  <2>2. CASE ~asked.done
    <3>1. fxshow.hidden # None
      BY <1>14, <2>2, StylesAssumption, Zenon DEF StylesIInv, AskedInv
    <3>2. QED
      BY <1>1, <1>14, <2>2, <3>1, Zenon DEF StylesIInv, AskedInv, Styles!FromHidden
  <2>3. QED
    BY <2>1, <2>2, Zenon DEF StylesIInv, AskedInv
<1>15. QED
  BY <1>9, <1>10, <1>12, <1>13, <1>14 DEF StylesIInv

\* Nothing to do: a toggle always has.
LEMMA BeginAndEndStep ==
    ASSUME StylesIInv, NEW what \in {"show", "hide", "toggle"}, Styles!BeginAndEnd(what)
    PROVE  StylesIInv' /\ anim' = anim
<1>1. /\ display' = Styles!Inlined /\ olddisplay' = olddisplay
      /\ UNCHANGED <<sheet, dimension, natural, size, overflow, fxshow, anim>>
  BY Zenon DEF Styles!BeginAndEnd
<1>2. what # "toggle"
  BY DEF Styles!BeginAndEnd, Styles!Idle
<1>3. DisplayInv'
  BY <1>1, InlinedLooks DEF StylesIInv, DisplayInv, Noted, Looks
<1>4. SizeInv'
  BY <1>1 DEF StylesIInv, SizeInv, Styles!NoAnim
<1>5. AskedInv'
  <2>1. PICK hides \in BOOLEAN, done \in BOOLEAN : hides = (what = "hide") /\ done = TRUE
    BY Zenon
  <2>2. asked' = Styles!Asked(what, hides, done) /\ what \in AskedFor
    BY <2>1, Zenon DEF Styles!BeginAndEnd, AskedFor
  <2>3. asked'.what = what /\ asked' \in Asks
    BY <2>2, AskFields
  <2>4. QED
    BY <1>2, <2>3, Zenon DEF AskedInv
<1>6. QED
  BY <1>1, <1>3, <1>4, <1>5 DEF StylesIInv

LEMMA TickStyles ==
    ASSUME StylesIInv, Styles!Tick
    PROVE  StylesIInv'
<1>1. /\ size' = 1 /\ anim # Styles!NoAnim
      /\ UNCHANGED <<sheet, dimension, natural, display, overflow, olddisplay, fxshow, anim, asked>>
  BY DEF Styles!Tick, Styles!Running
<1>2. DisplayInv' /\ SizeInv'
  BY <1>1 DEF StylesIInv, DisplayInv, Noted, Looks, SizeInv, Styles!NoAnim
<1>3. AskedInv'
  BY <1>1, Zenon DEF StylesIInv, AskedInv, Styles!IsHidden, Styles!Computed, Styles!NoAnim
<1>4. QED
  BY <1>2, <1>3 DEF StylesIInv

\* An animation that is done brings back the styles; what it hides is noted.
LEMMA DoneStep ==
    ASSUME StylesIInv, Styles!Done
    PROVE  StylesIInv'
<1>1. /\ fxshow' = Styles!NoShow /\ size' = anim.orig /\ anim' = Styles!NoAnim
      /\ overflow' = (IF dimension THEN anim.overflow ELSE overflow)
      /\ asked' = [asked EXCEPT !.done = TRUE]
      /\ UNCHANGED <<sheet, dimension, natural>>
      /\ anim # Styles!NoAnim
  BY DEF Styles!Done, Styles!Running
<1>2. anim \in Animations
  BY <1>1 DEF StylesIInv, SizeInv
<1>3. SizeInv'
  <2>1. overflow' = None
    BY <1>1, <1>2 DEF Animations, StylesIInv, SizeInv
  <2>2. size' \in {None, 2}
    BY <1>1, <1>2 DEF Animations
  <2>3. fxshow' \in [size : {None, 2}, hidden : BOOLEAN \cup {None}]
        /\ fxshow'.size = None /\ fxshow'.hidden = None
    BY <1>1 DEF Styles!NoShow
  <2>4. QED
    BY <1>1, <2>1, <2>2, <2>3 DEF SizeInv, Styles!NoAnim
<1>4. /\ asked' \in Asks /\ asked'.done /\ asked'.what = asked.what
      /\ asked'.hides <=> asked.hides
      /\ fxshow'.size = None /\ Styles!NoAnim' = Styles!NoAnim
  <2>1. asked \in Asks
    BY DEF StylesIInv, AskedInv
  <2>2. fxshow'.size = None /\ Styles!NoAnim' = Styles!NoAnim
    BY <1>1 DEF Styles!NoShow, Styles!NoAnim
  <2>3. QED
    BY <1>1, <2>1, <2>2, AskTypes
<1>5. CASE anim.hides
  <2>1. PICK styles : styles = Styles!Hidden(display, olddisplay)
    OBVIOUS
  <2>2. display' = styles[1] /\ olddisplay' = styles[2]
    BY <1>5, <2>1, Zenon DEF Styles!Done, Styles!Become
  <2>3. Noted(display', olddisplay') /\ Styles!IsHidden(display')
    BY <2>1, <2>2, HiddenLooks DEF StylesIInv, DisplayInv
  <2>4. DisplayInv'
    BY <1>1, <2>3 DEF StylesIInv, DisplayInv, Noted, Looks
  <2>5. Styles!IsHidden(display)'
    BY <1>1, <2>3 DEF Styles!IsHidden, Styles!Computed
  <2>6. AskedInv'
    <3>1. asked.what = "toggle" => asked.hides
      <4>1. asked.what = "toggle" => ~asked.done
        BY <1>1, Zenon DEF StylesIInv, AskedInv
      <4>2. QED
        BY <1>1, <1>5, <4>1, Zenon DEF StylesIInv, AskedInv
    <3>2. QED
      BY <1>1, <1>4, <2>5, <3>1, Zenon DEF AskedInv
  <2>7. QED
    BY <1>3, <2>4, <2>6 DEF StylesIInv
<1>6. CASE ~anim.hides
  <2>1. display' = display /\ olddisplay' = olddisplay
    BY <1>6, Zenon DEF Styles!Done
  <2>2. DisplayInv'
    BY <1>1, <2>1 DEF StylesIInv, DisplayInv, Noted, Looks
  <2>3. Styles!IsHidden(display)' <=> Styles!IsHidden(display)
    BY <1>1, <2>1 DEF Styles!IsHidden, Styles!Computed
  <2>4. AskedInv'
    <3>1. asked.what = "toggle" => ~asked.hides /\ ~Styles!IsHidden(display)
      <4>1. asked.what = "toggle" => ~asked.done
        BY <1>1, Zenon DEF StylesIInv, AskedInv
      <4>2. QED
        BY <1>1, <1>6, <4>1, Zenon DEF StylesIInv, AskedInv
    <3>2. QED
      BY <1>1, <1>4, <2>3, <3>1, Zenon DEF AskedInv
  <2>5. QED
    BY <1>3, <2>2, <2>4 DEF StylesIInv
<1>7. QED
  BY <1>5, <1>6

LEMMA StopStep ==
    ASSUME StylesIInv, Styles!Stop
    PROVE  StylesIInv'
<1>1. /\ anim' = Styles!NoAnim /\ anim # Styles!NoAnim
      /\ overflow' = (IF dimension THEN anim.overflow ELSE overflow)
      /\ UNCHANGED <<sheet, dimension, natural, display, size, olddisplay, fxshow, asked>>
  BY DEF Styles!Stop, Styles!Running
<1>2. anim.overflow = None /\ fxshow.size = 2 /\ (~dimension => overflow = None)
  BY <1>1 DEF StylesIInv, SizeInv, Animations
<1>3. DisplayInv'
  BY <1>1 DEF StylesIInv, DisplayInv, Noted, Looks
<1>4. SizeInv'
  BY <1>1, <1>2, NotSet DEF StylesIInv, SizeInv, Styles!NoAnim
<1>5. AskedInv'
  <2>1. Styles!NoAnim' = Styles!NoAnim
    BY Zenon DEF Styles!NoAnim
  <2>2. QED
    BY <1>1, <2>1, Zenon DEF StylesIInv, AskedInv
<1>6. QED
  BY <1>3, <1>4, <1>5 DEF StylesIInv

\* The steps of the styles, and what the others leave as it is.
LEMMA StylesStep == ASSUME StylesIInv, [AllNext]_allVars PROVE StylesIInv'
<1>1. CASE Styles!Next
  <2>1. CASE Styles!ShowNow \/ Styles!HideNow \/ Styles!ToggleNow
    BY <2>1, NowStep DEF Styles!ToggleNow
  <2>2. ASSUME NEW what \in {"show", "hide", "toggle"}, Styles!Begin(what) PROVE StylesIInv'
    BY <2>2, BeginStep
  <2>3. ASSUME NEW what \in {"show", "hide", "toggle"}, Styles!BeginAndEnd(what) PROVE StylesIInv'
    BY <2>3, BeginAndEndStep
  <2>4. QED
    BY <1>1, <2>1, <2>2, <2>3, TickStyles, DoneStep, StopStep, Zenon DEF Styles!Next
<1>2. CASE UNCHANGED styleVars
  <2>1. UNCHANGED <<sheet, dimension, natural, display, size, overflow, olddisplay, fxshow, anim,
                    asked>>
    BY <1>2 DEF styleVars
  <2>2. DisplayInv' /\ SizeInv'
    BY <2>1 DEF StylesIInv, DisplayInv, Noted, Looks, SizeInv, Styles!NoAnim
  <2>3. Styles!NoAnim' = Styles!NoAnim
    BY Zenon DEF Styles!NoAnim
  <2>4. Styles!IsHidden(display)' <=> Styles!IsHidden(display)
    BY <2>1 DEF Styles!IsHidden, Styles!Computed
  <2>5. AskedInv'
    BY <2>1, <2>3, <2>4, Zenon DEF StylesIInv, AskedInv
  <2>6. QED
    BY <2>2, <2>5 DEF StylesIInv
<1>3. QED
  BY <1>1, <1>2, Zenon DEF AllNext, allVars

LEMMA StylesInit == AllInit => StylesIInv
<1> SUFFICES ASSUME AllInit PROVE StylesIInv
  OBVIOUS
<1>1. /\ sheet \in {"inline", "none"} /\ display \in {None, "none", "block"}
      /\ dimension \in BOOLEAN
      /\ natural = IF display = "block" THEN "block"
                   ELSE IF sheet = "none" THEN "inline" ELSE sheet
      /\ size = None /\ overflow = None /\ olddisplay = None
  BY DEF AllInit, Styles!Init, Styles!Default
<1>2. fxshow = [size |-> None, hidden |-> None] /\ anim = Styles!NoAnim
      /\ asked = Styles!Asked(None, FALSE, FALSE)
  BY Zenon DEF AllInit, Styles!Init, Styles!NoShow
<1>3. DisplayInv
  BY <1>1, NotSet DEF DisplayInv, Noted, Looks
<1>4. SizeInv
  BY <1>1, <1>2 DEF SizeInv
<1>5. AskedInv
  <2>1. None \in AskedFor /\ TRUE \in BOOLEAN /\ FALSE \in BOOLEAN
    BY Zenon DEF AskedFor
  <2>2. asked.what = None /\ asked \in Asks
    BY <1>2, <2>1, AskFields
  <2>3. QED
    BY <2>2, NotSet, Zenon DEF AskedInv
<1>6. QED
  BY <1>3, <1>4, <1>5 DEF StylesIInv

LEMMA StylesIInvGives == StylesIInv => ShowHideInv
<1> SUFFICES ASSUME StylesIInv PROVE ShowHideInv
  OBVIOUS
<1>1. anim # Styles!NoAnim => fxshow.size = 2 /\ overflow \in {None, "hidden"}
  BY DEF StylesIInv, SizeInv
<1>2. fxshow.size = 2 => fxshow # Styles!NoShow
  BY NotSet DEF Styles!NoShow
<1>3. fxshow = Styles!NoShow => fxshow.size = None
  BY DEF Styles!NoShow
<1>4. Styles!TypeOK
  BY <1>1, <1>2 DEF StylesIInv, DisplayInv, Noted, Looks, SizeInv, Styles!TypeOK, Styles!Running
<1>5. Styles!SizeRestored
  <2>1. ASSUME anim = Styles!NoAnim
        PROVE  overflow = None /\ (fxshow.size = None => size \in {None, 2})
    BY <2>1, NoneRuns DEF StylesIInv, SizeInv
  <2>2. QED
    BY <1>3, <2>1, NotSet DEF Styles!SizeRestored, Styles!Running, Styles!Cur
<1>6. Styles!DisplayRestored
  BY NotSet DEF StylesIInv, DisplayInv, Noted, Looks, Styles!DisplayRestored, Styles!IsHidden,
                Styles!Computed
<1>7. QED
  BY <1>4, <1>5, <1>6 DEF ShowHideInv, Styles!ShowHideInv

\* However often an element is hidden, shown and toggled, at once or animated,
\* and wherever animations are stopped: when it can be seen it is displayed as
\* it was, and its size and overflow are brought back.
THEOREM StylesAreRestored == AllSpec => []ShowHideInv
<1>1. AllInit => StylesIInv
  BY StylesInit
<1>2. StylesIInv /\ [AllNext]_allVars => StylesIInv'
  BY StylesStep
<1>3. StylesIInv => ShowHideInv
  BY StylesIInvGives
<1>4. QED
  BY <1>1, <1>2, <1>3, PTL DEF AllSpec

\* Only what begins an animation lets it run.
LEMMA OnlyBegins ==
    ASSUME StylesIInv, [AllNext]_allVars, ~Styles!Running, Styles!Running'
    PROVE  \E what \in {"show", "hide", "toggle"} : Styles!Begin(what)
<1>1. anim' # anim
  BY DEF Styles!Running, Styles!NoAnim
<1>2. Styles!Next
  <2>1. ~UNCHANGED styleVars
    BY <1>1 DEF styleVars
  <2>2. QED
    BY <2>1, Zenon DEF AllNext, allVars
<1>3. ~(Styles!ShowNow \/ Styles!HideNow \/ Styles!ToggleNow)
  BY <1>1, Zenon DEF Styles!ShowNow, Styles!HideNow, Styles!ToggleNow
<1>4. \A what \in {"show", "hide", "toggle"} : ~Styles!BeginAndEnd(what)
  BY <1>1, BeginAndEndStep
<1>5. ~Styles!Tick /\ ~Styles!Done /\ ~Styles!Stop
  BY Zenon DEF Styles!Tick, Styles!Done, Styles!Stop
<1>6. QED
  BY <1>2, <1>3, <1>4, <1>5, Zenon DEF Styles!Next

LEMMA ToggleStep ==
    ASSUME StylesIInv, [AllNext]_allVars, ~Styles!Running, Styles!Running',
           asked.what = "toggle", anim'.what = "toggle"
    PROVE  anim'.hides # asked.hides
<1>1. PICK what \in {"show", "hide", "toggle"} : Styles!Begin(what)
  BY OnlyBegins
<1>2. anim'.what = what
  BY <1>1, Zenon DEF Styles!Begin
<1>3. anim'.hides <=> ~asked.hides
  BY <1>1, <1>2, BeginStep
<1>4. QED
  BY <1>3, Zenon

\* Whatever was done in between, the next animated toggle goes the other way:
\* the direction of one that was stopped is in its note.
THEOREM TogglesAlternate == AllSpec => ToggleReverses
<1>1. AllInit => StylesIInv
  BY StylesInit
<1>2. StylesIInv /\ [AllNext]_allVars => StylesIInv'
  BY StylesStep
<1>3. StylesIInv /\ [AllNext]_allVars =>
          [~Styles!Running /\ Styles!Running' /\ asked.what = "toggle" /\ anim'.what = "toggle"
               => anim'.hides # asked.hides]_(Styles!vars)
  BY ToggleStep, Zenon
<1>4. QED
  BY <1>1, <1>2, <1>3, PTL DEF AllSpec, ToggleReverses, Styles!ToggleReverses
=============================================================================
