------------------------------- MODULE Pages -------------------------------
(***************************************************************************)
(* Lists served page by page: the search of the engine                     *)
(* (internal/analyzer/query.go Search, internal/engine/convert.go), and    *)
(* the explorer listing the HTTP adapter builds from all of its pages      *)
(* (internal/server/files.go).                                             *)
(*                                                                         *)
(* A symbol is a record of an id, a name, whether it is a test or          *)
(* anonymous, and the absolute path and line of its declaration.           *)
(***************************************************************************)
EXTENDS Integers, FiniteSets, Sequences

LOCAL INSTANCE SequencesExt
LOCAL INSTANCE FiniteSetsExt

CONSTANTS
    DefaultPageLimit,
    MaxPageLimit

ASSUME PageLimitAssumption ==
    /\ DefaultPageLimit \in Nat \ {0}
    /\ MaxPageLimit \in Nat
    /\ DefaultPageLimit <= MaxPageLimit

-----------------------------------------------------------------------------
(* Search *)

\* An empty query matches every symbol.
Matches(symbols, query, includeTests) ==
    {s \in symbols : /\ ~s.anonymous
                     /\ s.test => includeTests
                     /\ query # 0 => s.name = query}

\* The sequences a sort may leave when it knows only Before and the map it reads
\* has no order.
SortedBy(S, Before(_, _)) ==
    {q \in SetToSeqs(S) : \A i, j \in DOMAIN q : i < j => ~Before(q[j], q[i])}

\* Mutant of BySymbol: equal names are left in the order of the map.
BySymbol_NameOnly(s, t) == s.name < t.name

BySymbol(s, t) ==
    \/ s.name < t.name
    \/ s.name = t.name /\ s.id < t.id

\* searchSymbols: all matches, by name and then by id.
SearchSymbols(symbols, query, includeTests) ==
    SortedBy(Matches(symbols, query, includeTests), BySymbol)

-----------------------------------------------------------------------------
(* Pages *)

NoCursor == [offset |-> 0, binding |-> -1]

ValidLimit(page) == page.limit = 0 \/ page.limit \in 1..MaxPageLimit

ValidCursor(page, binding, total) ==
    \/ page.cursor = NoCursor
    \/ page.cursor.binding = binding /\ page.cursor.offset \in 0..total

\* pageBounds: the items of a page and the cursor behind them.  A cursor is good
\* only for the request that made it, against the snapshot it was made for.
PageOf(items, page, binding) ==
    LET limit == IF page.limit = 0 THEN DefaultPageLimit ELSE page.limit
        offset == page.cursor.offset
        end == Min({offset + limit, Len(items)})
    IN  IF ~ValidLimit(page) \/ ~ValidCursor(page, binding, Len(items))
          THEN [error |-> "invalidParams", items |-> <<>>, next |-> NoCursor]
        ELSE [error |-> "none",
              items |-> SubSeq(items, offset + 1, end),
              next  |-> IF end < Len(items) THEN [offset |-> end, binding |-> binding] ELSE NoCursor]

-----------------------------------------------------------------------------
(* Explorer *)

\* A path is a sequence of names.  Relative to the first root that contains it;
\* the root itself is no file of it.
ProjectRelativePath(roots, path) ==
    LET Containing == {i \in DOMAIN roots : IsStrictPrefix(roots[i], path)}
    IN  IF Containing = {} THEN <<>>
        ELSE SubSeq(path, Len(roots[Min(Containing)]) + 1, Len(path))

\* git: what is tracked or would be, and still exists.
GitProjectFiles(tree) == tree.listed \ tree.deleted

\* The first n of S in an order given by ranks.
First(S, n, rank) == {p \in S : Cardinality({q \in S : rank[q] < rank[p]}) < n}

\* Otherwise a walk, that stays out of hidden and dependency directories and stops
\* one file after the limit.
WalkProjectFiles(tree, max) ==
    First({p \in tree.present : \A i \in 1..(Len(p) - 1) : p[i] \notin tree.skipped},
          max + 1, tree.walkOrder)

\* Paths under the root, `max` of them at most, and whether there are more.
ListProjectFiles(tree, max) ==
    LET found == IF tree.git THEN GitProjectFiles(tree) ELSE WalkProjectFiles(tree, max)
    IN  [paths |-> First(found, max, tree.pathOrder), truncated |-> Cardinality(found) > max]

\* fileListing: every listed file, and every file a symbol is declared in.
FileListing(roots, paths, symbols) ==
    LET Place(s) == ProjectRelativePath(roots, s.path)
        Located == {s \in symbols : Place(s) # <<>>}
    IN  [path \in paths \cup {Place(s) : s \in Located} |-> {s.id : s \in {t \in Located : Place(t) = path}}]
============================================================================
