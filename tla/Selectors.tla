----------------------------- MODULE Selectors -----------------------------
(***************************************************************************)
(* Sizzle, the selector engine of jQuery: the elements that a selector     *)
(* finds.  It starts from the right, at the elements that could be found,  *)
(* and climbs for every combinator; what it learns on the way it notes at  *)
(* the elements, with the run it was learnt in.  Selectors within :has and *)
(* :not are searched in the midst of a run of another.                     *)
(*                                                                         *)
(* Here the browser is not asked (querySelectorAll is not there, or does   *)
(* not know a pseudo-class of the selector), no selector has a positional  *)
(* pseudo-class, and none begins with an id or a combinator.  Nodes are    *)
(* numbered in document order; 0 is the document, 1 its element.           *)
(***************************************************************************)
EXTENDS Integers, Sequences, SequencesExt

CONSTANTS
    N,           \* the number of elements
    Tags,        \* their node names
    Names,       \* names of the selectors
    Sel,         \* the groups of each: parts, and the combinators between them
    Queried,     \* the selectors the page uses itself
    MaxQueries,  \* bound: the queries of the page
    None

ASSUME SelectorsAssumption ==
    /\ N \in Nat \ {0} /\ MaxQueries \in Nat
    /\ None \notin Names /\ Queried \subseteq Names
    /\ DOMAIN Sel = Names
    /\ \A S \in Names : \A i \in DOMAIN Sel[S] :
           Len(Sel[S][i].rel) = Len(Sel[S][i].parts) - 1

VARIABLES
    parent,      \* the document
    tag,         \* the node name of each element
    memo,        \* the variables of Sizzle and the notes at the nodes
    answer,      \* the last query, and what it found
    queries

vars == <<parent, tag, memo, answer, queries>>

Nodes == 1..N
Document == 0
Nothing == -1    \* no node, and false
Yes == -2        \* true, among the numbers of runs

\* The documents whose elements are numbered in document order.
Documents ==
    {p \in [Nodes -> 0..N] :
        /\ p[1] = Document
        /\ \A n \in 2..N : p[n] \in 1..(n - 1)
        /\ \A n \in 2..N : \A m \in Nodes : p[n] < m /\ m < n => p[m] >= p[n]}

Before(n) == {m \in Nodes : m < n /\ parent[m] = parent[n]}

Greatest(s) == CHOOSE x \in s : \A y \in s : y <= x

\* elem[dir]
At(n, dir) ==
    IF n = Document THEN Nothing
    ELSE IF dir = "parentNode" THEN parent[n]
    ELSE IF Before(n) = {} THEN Nothing ELSE Greatest(Before(n))

Within(n, context) ==
    context = Document \/ \E path \in SUBSET Nodes :
        /\ n \in path
        /\ \A m \in path : parent[m] \in path \/ parent[m] = context

\* getElementsByTagName
Find(name, context) ==
    SelectSeq([i \in Nodes |-> i], LAMBDA n : (name = "*" \/ tag[n] = name) /\ Within(n, context))

\* Expr.relative
Dir(c) == IF c \in {" ", ">"} THEN "parentNode" ELSE "previousSibling"
First(c) == c \in {">", "+"}
Combinator(p, k) == Sel[p[1]][p[2]].rel[k]
Part(p, k) == Sel[p[1]][p[2]].parts[k]

InitMemo ==
    [runs |-> 0, dirruns |-> 0, cachedruns |-> Nothing, outermost |-> None,
     cache |-> [n \in 0..N |-> [d \in {"parentNode", "previousSibling"} |-> <<None, None>>]],
     matcherCachedRuns |-> [S \in Names |-> 0]]

Result(ok, st) == [ok |-> ok, st |-> st]

-----------------------------------------------------------------------------
RECURSIVE Match(_, _, _, _, _), Climb(_, _, _, _, _, _), Try(_, _, _, _, _), Select(_, _, _)

Note(st, n, dir, note) == [st EXCEPT !.cache[n][dir] = note]

\* (Mutant: a note of another run counts.)
KnownEver(st, n, dir, key) == st.cache[n][dir][1] # None /\ st.cache[n][dir][1][2] = key[2]

\* The note at n is of this run, and of this combinator.
Known(st, n, dir, key) == st.cache[n][dir][1] = key

\* r tells whether m matched: noted at m, unless the run of another selector has
\* noted something of its own there; if it did not match, the climb goes on.
Settle(p, k, key, m, dir, context, r) ==
    LET data == IF r.ok THEN Yes ELSE r.st.cachedruns
        after == IF Known(r.st, m, dir, key) THEN Note(r.st, m, dir, <<key, data>>) ELSE r.st
    IN IF r.ok THEN Result(TRUE, after) ELSE Climb(p, k, key, m, context, after)

\* addCombinator for " " and "~": is there a node in the direction of the k-th
\* combinator from n that the parts up to the k-th match?  The 0-th one climbs
\* to the context.  A node that matched settles it, and a node that failed for
\* the same element, too.
Climb(p, k, key, n, context, st) ==
    LET dir == IF k = 0 THEN "parentNode" ELSE Dir(Combinator(p, k))
        m == At(n, dir)
        note == st.cache[m][dir]
        noted == Note(st, m, dir, <<key, None>>)
    IN
    IF m = Nothing \/ (m = Document /\ k > 0) THEN Result(FALSE, st)
    ELSE IF Known(st, m, dir, key) /\ note[2] \in {Yes, st.cachedruns}
         THEN Result(note[2] = Yes, st)
    ELSE IF Known(st, m, dir, key) THEN Climb(p, k, key, m, context, st)
    ELSE Settle(p, k, key, m, dir, context,
                IF k = 0 THEN Result(m = context, noted) ELSE Match(p, k, m, context, noted))

\* What is left of part k: its combinator, or at the left end the context.
Left(p, k, n, context, st) ==
    LET m == At(n, Dir(Combinator(p, k - 1))) IN
    IF k = 1 /\ context # st.outermost THEN Result(TRUE, st)
    ELSE IF k = 1 THEN Climb(p, 0, <<st.dirruns, <<p, 0>>>>, n, context, st)
    ELSE IF ~First(Combinator(p, k - 1))
         THEN Climb(p, k - 1, <<st.dirruns, <<p, k - 1>>>>, n, context, st)
    ELSE IF m \in Nodes THEN Match(p, k - 1, m, context, st)
    ELSE Result(FALSE, st)

OrBefore(S, g, n, context, r) == IF r.ok THEN r ELSE Try(S, g - 1, n, context, r.st)

\* superMatcher for the element n: the groups of S from g on, the last one first.
Try(S, g, n, context, st) ==
    IF g = 0 THEN Result(FALSE, st)
    ELSE OrBefore(S, g, n, context, Match(<<S, g>>, Len(Sel[S][g].parts), n, context, st))

NextRun(st) == [st EXCEPT !.runs = @ + 1, !.dirruns = st.runs + 1]

\* After each element: found holds it if it matched, and the matcher counts it.
Counted(S, run, found, n, t) ==
    LET c == t.st.matcherCachedRuns[S] + 1
    IN [found |-> IF t.ok THEN Append(found, n) ELSE found,
        st |-> [t.st EXCEPT !.dirruns = run, !.matcherCachedRuns[S] = c, !.cachedruns = c]]

\* After the last one: the variables of the run it was called in are put back.
PutBack(before, run, last) ==
    [last EXCEPT !.st.dirruns = run, !.st.outermost = before.outermost]

\* superMatcher as the outermost one, for the elements elems: the ones found.
SuperMatcher(S, elems, context, before) ==
    LET started == NextRun(before)
        run == started.dirruns
        first == [started EXCEPT !.outermost = IF context = Document THEN Nothing ELSE context,
                                 !.cachedruns = started.matcherCachedRuns[S]]
        Step(r, n) == Counted(S, run, r.found, n, Try(S, Len(Sel[S]), n, context, r.st))
    IN PutBack(before, run, FoldLeft(Step, [found |-> <<>>, st |-> first], elems))

LastPart(S) == Last(Sel[S][1].parts)

Sibling(S) == \E g \in DOMAIN Sel[S] : \E i \in DOMAIN Sel[S][g].rel : Sel[S][g].rel[i] \in {"+", "~"}

\* select: with one group, only the elements with the name at its right end are
\* looked at, and there may be nothing more to it.
Select(S, context, st) ==
    LET seed == Find(LastPart(S).tag, context)
        root == IF Sibling(S) /\ context # Document THEN parent[context] ELSE context
        single == Len(Sel[S]) = 1
        only == Len(Sel[S][1].parts) = 1 /\ LastPart(S).has = None /\ LastPart(S).not = None
    IN
    IF single /\ (seed = <<>> \/ only)
    THEN [found |-> seed, st |-> st]
    ELSE SuperMatcher(S, IF single THEN seed ELSE Find("*", root), context, st)

Found(r) == Result(r.found # <<>>, r.st)
Denied(r) == Result(~r.ok, r.st)

\* :has(S)
Has(S, n, st) == IF S = None THEN Result(TRUE, st) ELSE Found(Select(S, n, st))

\* :not(S): the compiled S, not as the outermost matcher, and with no context.
Not(S, n, st) ==
    IF S = None THEN Result(TRUE, st)
    ELSE Denied(Try(S, Len(Sel[S]), n, None, NextRun(st)))

\* elementMatcher of the parts up to the k-th, from the right: what is :not to
\* hold, then what :has is to, the name, and what is left of the part.
IfMatched(p, k, n, context, r) ==
    IF r.ok /\ Part(p, k).tag \in {"*", tag[n]}
    THEN Left(p, k, n, context, r.st)
    ELSE Result(FALSE, r.st)

IfNotDenied(p, k, n, context, r) ==
    IF r.ok THEN IfMatched(p, k, n, context, Has(Part(p, k).has, n, r.st)) ELSE r

Match(p, k, n, context, st) == IfNotDenied(p, k, n, context, Not(Part(p, k).not, n, st))

-----------------------------------------------------------------------------
Init ==
    /\ parent \in Documents
    /\ tag \in [Nodes -> Tags]
    /\ memo = InitMemo
    /\ answer = [sel |-> None, found |-> <<>>]
    /\ queries = 0

\* Sizzle, called by the page.
Query(S) ==
    /\ queries < MaxQueries
    /\ queries' = queries + 1
    /\ \E r \in {Select(S, Document, memo)} :
        /\ memo' = r.st
        /\ answer' = [sel |-> S, found |-> r.found]
    /\ UNCHANGED <<parent, tag>>

\* The page moves elements about; the notes stay at them.
Rearrange ==
    /\ parent' \in Documents \ {parent}
    /\ answer' = [sel |-> None, found |-> <<>>]
    /\ queries < MaxQueries
    /\ UNCHANGED <<tag, memo, queries>>

Next ==
    \/ \E S \in Queried : Query(S)
    \/ Rearrange

Spec == Init /\ [][Next]_vars
-----------------------------------------------------------------------------
\* What a selector means, from the left and with nothing remembered.
Related(m, c, n) ==
    CASE c = " " -> Within(n, m)
      [] c = ">" -> parent[n] = m
      [] c = "~" -> m \in Before(n)
      [] c = "+" -> m = At(n, "previousSibling")

RECURSIVE Means(_, _, _, _)

MeansAny(S, n, context) ==
    \E g \in DOMAIN Sel[S] : Means(<<S, g>>, Len(Sel[S][g].parts), n, context)

Means(p, k, n, context) ==
    LET c == Part(p, k) IN
    /\ c.tag \in {"*", tag[n]}
    /\ c.has # None => \E x \in Nodes : Within(x, n) /\ MeansAny(c.has, x, n)
    /\ c.not # None => ~MeansAny(c.not, n, Document)
    /\ IF k = 1 THEN Within(n, context)
       ELSE \E m \in Nodes : Related(m, Combinator(p, k - 1), n) /\ Means(p, k - 1, m, context)

\* Between two queries Sizzle is in no run, and every note is of an old one.
TypeOK ==
    /\ parent \in Documents
    /\ memo.outermost = None
    /\ memo.dirruns <= memo.runs
    /\ \A n \in 0..N : \A d \in {"parentNode", "previousSibling"} :
           LET note == memo.cache[n][d] IN
           note[1] # None => note[1][1] <= memo.runs /\ note[2] # None

\* A query finds exactly the elements that its selector means, in document
\* order and each once, in whatever order they were looked at, and whatever was
\* noted before, in this document or in another.
FindsWhatItMeans ==
    answer.sel # None =>
        answer.found = SelectSeq([i \in Nodes |-> i], LAMBDA n : MeansAny(answer.sel, n, Document))

\* Sizzle finds what is meant, and leaves its variables as they were.
SelectorsInv == TypeOK /\ FindsWhatItMeans
=============================================================================
