---------------------------- MODULE IndexAnswers ----------------------------
(***************************************************************************)
(* What an analysis computes and what is asked of its index, next to the   *)
(* classification of functions: the calls a backend reports, the changes   *)
(* attributed to functions and the order they are reviewed in, the         *)
(* neighborhood of a function, and the pages the explorer is built from.   *)
(*                                                                         *)
(* Each computation is pure: a behaviour either classifies one program or  *)
(* answers one request, and the properties compare the answer with what it *)
(* means.                                                                  *)
(***************************************************************************)
EXTENDS Pages, JavaScriptCalls, GitAttribution, GoCalls, Classification, CallGraph

LOCAL INSTANCE SequencesExt

CONSTANTS
    RequestSets,       \* bound: what may be asked, a set for each kind of request
    MaxExplorerFiles

\* What SSA gives of the calls of a Go function: a static call has its callee.
GoSite(s) ==
    /\ s.how \in {"static", "function value", "interface", "builtin"}
    /\ s.how = "static" => s.callees # {}

\* A published graph has the ends of its edges, and a neighborhood any of its requests.
GraphType(graph) ==
    /\ IsFiniteSet(graph.functions)
    /\ graph.tests \subseteq graph.functions
    /\ graph.edges \subseteq graph.functions \X graph.functions

NeighborhoodRequest(q) ==
    /\ q = [root |-> q.root, direction |-> q.direction, depth |-> q.depth, tests |-> q.tests]
    /\ q.depth \in Int
    /\ q.tests \in BOOLEAN

\* The symbols of an index: no two have one id.
SymbolType(symbols) ==
    /\ IsFiniteSet(symbols)
    /\ \A s \in symbols : s.id \in Nat /\ s.name \in Nat /\ s.path \in Seq(STRING)
    /\ \A s, t \in symbols : s.id = t.id => s = t

\* The files of a project: what git lists may have been deleted since.
TreeType(tree) ==
    /\ IsFiniteSet(tree.listed)
    /\ IsFiniteSet(tree.present)
    /\ tree.listed \ tree.deleted \subseteq tree.present
    /\ tree.present \cap tree.deleted = {}
    /\ \A p \in tree.listed \cup tree.present : tree.pathOrder[p] \in Nat /\ tree.walkOrder[p] \in Nat

\* An edit of a file: a script of kept, added and removed lines.
LinesType(edit) ==
    /\ Len(edit.script) \in Nat
    /\ DOMAIN edit.script = 1..Len(edit.script)
    /\ \A i \in DOMAIN edit.script : edit.script[i].op \in {"=", "+", "-"}
    /\ edit.context \in Nat

\* Its functions are what the working tree declares, in order, each from the first line of
\* its comment to its last line, with the line it is found by in between; they may share
\* lines and names and, in JavaScript, stand in one another.
DeclarationType(edit, d) ==
    /\ {d.first, d.line, d.last} \subseteq DOMAIN edit.script
    /\ \A i \in {d.first, d.line, d.last} : edit.script[i].op # "-"
    /\ d.first <= d.line /\ d.line <= d.last
    /\ edit.language = "javascript" => d.first = d.line

FunctionsType(edit) ==
    /\ Len(edit.functions) \in Nat
    /\ DOMAIN edit.functions = 1..Len(edit.functions)
    /\ \A k \in DOMAIN edit.functions : DeclarationType(edit, edit.functions[k])
    /\ \A j, k \in DOMAIN edit.functions : j < k =>
          /\ edit.functions[j].line <= edit.functions[k].line
          /\ edit.language = "go" => edit.functions[j].last <= edit.functions[k].first

\* What HEAD declares, in the lines that were not added, and where git finds it.
HeadType(edit) ==
    /\ \A h \in edit.was :
          /\ {h.first, h.last} \subseteq DOMAIN edit.script
          /\ h.first <= h.last
          /\ edit.script[h.first].op # "+" /\ edit.script[h.last].op # "+"
    /\ edit.from = "nowhere" => \A i \in DOMAIN edit.script : edit.script[i].op = "+"

EditType(edit) ==
    /\ LinesType(edit)
    /\ FunctionsType(edit)
    /\ HeadType(edit)
    /\ edit.from \in {"here", "sibling", "elsewhere", "nowhere"}
    /\ edit.language \in {"go", "javascript"}
    /\ edit.state \in {"tracked", "untracked", "unborn", "outside"}
    /\ edit.deletedIn \in {"", "a", "b"}
    /\ edit.unread \subseteq {"edited", "deleted"}
    /\ edit.nested \in BOOLEAN
    /\ edit.headReadable \in BOOLEAN

\* The modules of a project, in path order: the language lets no name be bound twice in a
\* module, nor exported twice.
ModulesType(tree) ==
    /\ Len(tree) \in Nat
    /\ DOMAIN tree = 1..Len(tree)
    /\ \A i \in DOMAIN tree :
          LET file == tree[i]
              own == file.functions \cup DOMAIN file.classes
          IN  /\ file.declared \subseteq own
              /\ \A b, c \in file.imports : b.local = c.local => b = c
              /\ \A b \in file.imports : b.local \notin own
              /\ \A x, y \in file.listed : x.name = y.name => x = y
              /\ \A x \in file.listed : x.name \notin file.declared

\* What may be asked: the data the code hands to each computation.
WellFormed(r) ==
    /\ r.ask = "graph" =>
          GraphType(r.graph) /\ NeighborhoodRequest(r.from) /\ r.http \in BOOLEAN
    /\ r.ask = "review" =>
          GraphType(r.graph) /\ r.graph.functions \subseteq Int /\ r.changed \subseteq r.graph.functions
    /\ r.ask = "go" =>
          \A f \in DOMAIN r.load.functions : \A s \in r.load.functions[f].sites : GoSite(s)
    /\ r.ask = "changes" => EditType(r.edit)
    /\ r.ask = "javascript" => ModulesType(r.tree) /\ r.caller.file \in DOMAIN r.tree
    /\ r.ask = "explorer" =>
          SymbolType(r.symbols) /\ r.roots \in Seq(Seq(STRING)) /\ TreeType(r.tree)
    /\ r.ask = "page" =>
          /\ SymbolType(r.symbols)
          /\ r.query \in Nat
          /\ r.page.limit \in Int
          /\ r.page.cursor \in [offset : Int, binding : Int]

ASSUME RequestAssumption ==
    /\ MaxExplorerFiles \in Nat
    /\ \A requests \in RequestSets : \A r \in requests : WellFormed(r)

VARIABLES
    request,   \* what is asked, or Nothing
    answer     \* what is answered, or None

Nothing == [ask |-> "nothing"]
None == [given |-> FALSE]
Given(value) == [given |-> TRUE, value |-> value]

\* A program whose authors have labelled everything: there is nothing to classify.
Idle ==
    /\ documentation = [f \in Functions |-> "pure"]
    /\ facts = [f \in Functions |-> {}]
    /\ edges = {}
    /\ kind = [f \in Functions |-> "pure"]
    /\ evidence = [f \in Functions |-> "documented"]
    /\ pending = {}
    /\ changed = FALSE
    /\ phase = "done"

Classifying ==
    /\ Init
    /\ request = Nothing

Asking ==
    /\ Idle
    /\ \E requests \in RequestSets : request \in requests

AnswersInit ==
    /\ Classifying \/ Asking
    /\ answer = None

Asked(what) == request.ask = what /\ ~answer.given

-----------------------------------------------------------------------------
(* The repository of an edit: one file at HEAD and in the working tree, moved or *)
(* not, and a second file that was deleted.                                  *)

File(edit) == [dir |-> "a", name |-> "edited", language |-> edit.language]
Deleted(edit) == [dir |-> edit.deletedIn, name |-> "deleted", language |-> edit.language]

\* Where HEAD has the edited file, which git finds again when it was renamed.
OldFile(edit) ==
    IF edit.from = "nowhere" THEN Absent
    ELSE [dir |-> IF edit.from = "elsewhere" THEN "c" ELSE "a",
          name |-> IF edit.from = "sibling" THEN "renamed" ELSE "edited",
          language |-> edit.language]

LineNumber(edit, i) == NewLinesUpTo(edit.script, i)

\* Functions of the index, each under its place in the file.
SpanOf(edit, k) ==
    LET d == edit.functions[k]
    IN  [id |-> k, name |-> d.name, path |-> File(edit), anonymous |-> FALSE,
         first |-> LineNumber(edit, d.first),
         last  |-> LineNumber(edit, d.last),
         line  |-> LineNumber(edit, d.line),
         position |-> k]

FunctionsOf(edit) == {SpanOf(edit, k) : k \in DOMAIN edit.functions}

\* A patch names the paths of files with hunks only.  Declarations of an unread path are
\* missing: git does not find it at HEAD, or what HEAD has there is no source.
RepositoryOf(edit) ==
    LET tracked == edit.state = "tracked"
        Edited == [path |-> File(edit), oldPath |-> OldFile(edit), hunks |-> HunksOf(edit.script, edit.context)]
        Removed == [path |-> Absent, oldPath |-> Deleted(edit),
                    hunks |-> IF edit.deletedIn = "" THEN {} ELSE {[newStart |-> 0, lines |-> <<"-">>]}]
        Found == (IF "edited" \in edit.unread THEN {} ELSE {OldFile(edit)})
                    \cup (IF "deleted" \in edit.unread THEN {} ELSE {Deleted(edit)})
    IN  [available    |-> edit.state # "outside",
         unborn       |-> edit.state = "unborn",
         listed       |-> {File(edit)},
         untracked    |-> IF tracked THEN {} ELSE {File(edit)},
         patch        |-> IF tracked THEN {file \in {Edited, Removed} : file.hunks # {}} ELSE {},
         head         |-> [p \in Found |-> IF p = Deleted(edit) THEN {"g"} ELSE {h.name : h \in edit.was}],
         headReadable |-> edit.headReadable,
         nested       |-> edit.nested]

-----------------------------------------------------------------------------
(* Answers *)

\* The neighborhood of a function, over HTTP or from any client of the protocol.
AnswerGraph ==
    /\ Asked("graph")
    /\ answer' = Given(Neighborhood(request.graph,
                           IF request.http THEN Coerced(request.from) ELSE request.from))

\* Changed functions in review order, when the index is assembled.
AnswerReview ==
    /\ Asked("review")
    /\ answer' = Given(ReviewOrder(request.graph, request.changed))

AnswerChanges ==
    /\ Asked("changes")
    /\ \E changes \in CaptureGitSnapshot(RepositoryOf(request.edit), FunctionsOf(request.edit)) :
          answer' = Given(changes)

AnswerGo ==
    /\ Asked("go")
    /\ answer' = Given([f \in Symbols(request.load) |->
                          Reported(request.load, request.load.functions[f])])

AnswerJavaScript ==
    /\ Asked("javascript")
    /\ LET links == LinkModules(request.tree)
       IN  answer' = Given([bound |-> links.bound[request.caller.file],
                            relationships |-> Relationships(request.tree, links, request.caller)])

\* One page, asked for by any client.
AnswerPage ==
    /\ Asked("page")
    /\ \E items \in SearchSymbols(request.symbols, request.query, TRUE) :
          answer' = Given(PageOf(items, request.page, request.query))

\* The explorer starts to collect all symbols, tests included.
StartExplorer ==
    /\ Asked("explorer")
    /\ answer' = Given([status |-> "collecting", items |-> <<>>, cursor |-> NoCursor, pages |-> 0])

Collecting == request.ask = "explorer" /\ answer.given /\ answer.value.status = "collecting"

\* One page of the collection, whose order the engine establishes anew each time.
FetchPage ==
    /\ Collecting
    /\ answer.value.pages = 0 \/ answer.value.cursor # NoCursor
    /\ \E items \in SearchSymbols(request.symbols, 0, TRUE) :
          LET page == PageOf(items, [limit |-> MaxPageLimit, cursor |-> answer.value.cursor], 0)
          IN  answer' = Given(IF page.error # "none" THEN [answer.value EXCEPT !.status = "failed"]
                              ELSE [answer.value EXCEPT !.items = @ \o page.items,
                                                        !.cursor = page.next,
                                                        !.pages = @ + 1])

\* No cursor is left: symbols and project files are merged.  Without a listing the
\* analyzed files remain.
ListFiles ==
    /\ Collecting
    /\ answer.value.pages > 0 /\ answer.value.cursor = NoCursor
    /\ LET found == ListProjectFiles(request.tree, MaxExplorerFiles)
           paths == IF request.tree.readable THEN found.paths ELSE {}
       IN  answer' = Given([status |-> "listed",
                            items |-> answer.value.items,
                            pages |-> answer.value.pages,
                            files |-> FileListing(request.roots, paths, ToSet(answer.value.items)),
                            truncated |-> request.tree.readable /\ found.truncated])

AnswerNext ==
    /\ \/ AnswerGraph
       \/ AnswerReview
       \/ AnswerChanges
       \/ AnswerGo
       \/ AnswerJavaScript
       \/ AnswerPage
       \/ StartExplorer
       \/ FetchPage
       \/ ListFiles
    /\ UNCHANGED <<vars, request>>

AnswersNext ==
    \/ Next /\ UNCHANGED <<request, answer>>
    \/ AnswerNext

AnswersSpec == AnswersInit /\ [][AnswersNext]_<<vars, request, answer>>

Answered(what) == request.ask = what /\ answer.given

-----------------------------------------------------------------------------
(* Neighborhoods *)

\* Whatever depth and direction the browser sends, the graph shows exactly the
\* functions within that many calls of the root, at most MaxGraphDepth, and all the
\* edges among them: cycles, self calls and hidden tests neither cut a shorter path
\* nor add a longer one (Focus, handleGraph).  The protocol refuses what the adapter
\* coerces (handleGraphNeighborhood).
FocusIsNeighborhood ==
    Answered("graph") =>
       LET graph == request.graph
           from == request.from
           known == from.root \in graph.functions
           depth == IF from.depth < 0 THEN 0
                    ELSE IF from.depth > MaxGraphDepth THEN MaxGraphDepth ELSE from.depth
           expected == Within(graph, from, depth)
           shown == answer.value
       IN  /\ shown.error = "none" <=>
                /\ known
                /\ ~request.http => /\ from.depth = depth
                                    /\ from.direction \in {"upstream", "downstream", "both"}
           /\ shown.error = "symbolNotFound" => ~known
           /\ shown.error = "none" =>
                /\ shown.nodes = expected
                /\ shown.edges = graph.edges \cap (expected \X expected)

-----------------------------------------------------------------------------
(* Review order *)

\* Of two changed functions one calls, through any functions, the other that does
\* not call back, the caller is reviewed first; functions that call each other
\* are reviewed together; each once, counted with the last functions below it
\* (orderChangedFunctions).  It is this order that the list of changes has on the page,
\* although USER_GUIDE.md:190 says that it "is sorted by qualified function name".
CallersReviewedFirst ==
    Answered("review") =>
       LET order == answer.value
           Position(f) == CHOOSE i \in DOMAIN order : order[i].id = f
           All(f) == [root |-> f, direction |-> "downstream", tests |-> TRUE]
           Reached == [f \in request.changed |->
                         (request.changed \ {f})
                            \cap Within(request.graph, All(f), Cardinality(request.graph.functions))]
           Mutual(f, g) == f = g \/ (g \in Reached[f] /\ f \in Reached[g])
           Bottom(f) == \A g \in Reached[f] : Mutual(f, g)
           LastBelow(f) == {g \in Reached[f] : Bottom(g) /\ ~Mutual(f, g)}
       IN  /\ Len(order) = Cardinality(request.changed)
           /\ {order[i].id : i \in DOMAIN order} = request.changed
           /\ \A f, g \in request.changed :
                /\ g \in Reached[f] /\ ~Mutual(f, g) => Position(f) < Position(g)
                /\ Mutual(f, g) =>
                     /\ order[Position(f)].leaves = order[Position(g)].leaves
                     /\ \A i \in Position(f)..Position(g) : Mutual(f, order[i].id)
           /\ \A f \in request.changed :
                order[Position(f)].leaves = Cardinality(LastBelow(f))

-----------------------------------------------------------------------------
(* Changes *)

\* Declarations found by one line.
Peers(edit, k) == {j \in DOMAIN edit.functions : edit.functions[j].line = edit.functions[k].line}

\* A line was added or removed between the ends of a declaration.
TextChanged(edit, d) == \E i \in d.first..d.last : edit.script[i].op # "="

\* The line above a declaration was removed.
RemovedAbove(edit, d) == d.first > 1 /\ edit.script[d.first - 1].op = "-"

\* A differing file of HEAD that was read has a function of the same identity.
AtHead(edit, d) ==
    /\ edit.headReadable
    /\ \/ /\ "edited" \notin edit.unread
          /\ edit.from \in (IF edit.language = "go" THEN {"here", "sibling"} ELSE {"here"})
          /\ \E h \in edit.was : h.name = d.name
       \/ /\ "deleted" \notin edit.unread
          /\ edit.language = "go"
          /\ edit.deletedIn = File(edit).dir
          /\ d.name = "g"

Whole(edit) == edit.state \in {"untracked", "unborn"}

\* However git cuts an edit into hunks, a function with an added or a removed line in it
\* is listed, and no other but one that closes up to removed lines; functions may stand in
\* one another.  Of functions found by one line one at least is listed: if any of them
\* changed in Go, if all did in JavaScript.  None is listed twice, and one on a line of
\* its own is "updated" exactly if a differing file of HEAD has it, be the file renamed,
\* its name taken over from a deleted one, or its content not to be had
\* (captureGitSnapshot, hunkTouchesSpan, baselinePaths).  USER_GUIDE.md:190-195 promises
\* more than the code keeps, and nothing is claimed here where the two part: that no function
\* which closes up to removed lines is listed, that every one of those that share a line is,
\* and that blue is a new function in a JavaScript project below the root of its repository.
ChangesAttributed ==
    Answered("changes") =>
       LET edit == request.edit
           changes == answer.value
           declared == DOMAIN edit.functions
           Changed(k) == Whole(edit) \/ TextChanged(edit, edit.functions[k])
       IN  /\ edit.state = "outside" => changes = {}
           /\ \A c \in changes :
                /\ c.id \in declared
                /\ \E j \in Peers(edit, c.id) : Changed(j) \/ RemovedAbove(edit, edit.functions[j])
           /\ \A b, c \in changes : b.id = c.id => b = c
           /\ edit.state # "outside" =>
                \A k \in declared :
                   \/ \A j \in Peers(edit, k) : Changed(j)
                   \/ edit.language = "go" /\ Changed(k)
                   => \E c \in changes : c.id \in Peers(edit, k)
           /\ edit.language = "go" \/ ~edit.nested =>
                \A c \in changes :
                   Peers(edit, c.id) = {c.id} =>
                      (c.kind = "updated" <=> ~Whole(edit) /\ AtHead(edit, edit.functions[c.id]))

-----------------------------------------------------------------------------
(* Calls *)

\* No call of a Go function goes unseen: each callee a site may have, as far as it is
\* known, is a callee in the index or leaves a fact, and a site of which nothing is
\* known leaves the function open (markUnresolvedDynamicCalls).  So a function
\* can be inferred pure only from callees that were analyzed.
GoCallsAccounted ==
    Answered("go") =>
       LET load == request.load
           Sites(f) == {s \in load.functions[f].sites : s.how # "builtin"}
       IN  \A f \in DOMAIN answer.value : \A s \in Sites(f) :
              LET reported == answer.value[f]
                  Kept(c) == \E e \in reported.edges : e.callee = c
                  Left(kinds) == reported.facts \cap kinds # {}
              IN  /\ s.callees = {} => Left(OpenFacts)
                  /\ \A c \in s.callees :
                        \/ /\ Kept(c)
                           /\ c \in DOMAIN answer.value
                        \/ Left(OpenFacts)
                        \/ /\ s.how = "static"
                           /\ Left({CallFact(load.packages[load.functions[c].package].importPath)})

\* What the modules of a tree export themselves, and what they pass on of a set of exports.
OwnExports(tree) ==
    UNION {{[file |-> i, name |-> n, entity |-> DeclaredExports(tree, i)[n]] :
              n \in DOMAIN DeclaredExports(tree, i)}
           \cup {[file |-> i, name |-> n, entity |-> ListedExports(tree, i)[n]] :
                   n \in DOMAIN ListedExports(tree, i)} : i \in DOMAIN tree}

PassedOn(tree, S) ==
    UNION {{[file |-> i, name |-> IF r[1].all THEN r[2].name ELSE r[1].local, entity |-> r[2].entity] :
               r \in {p \in ToSet(tree[i].reexports) \X S :
                        /\ p[2].file = ResolveModule(tree, p[1].module)
                        /\ p[1].all \/ p[2].name = p[1].remote}} : i \in DOMAIN tree}

\* What the modules of a tree may export under a name, in the language's own terms.
MayExport(tree) ==
    LET Known[n \in 0..(2 * Len(tree))] ==
            IF n = 0 THEN OwnExports(tree) ELSE Known[n - 1] \cup PassedOn(tree, Known[n - 1])
    IN  Known[2 * Len(tree)]

\* The entities a bare name of file i may denote.
Denoted(tree, i, name) ==
    {OwnEntities(tree, i)[n] : n \in {name} \cap DOMAIN OwnEntities(tree, i)}
       \cup {x.entity : x \in {y \in MayExport(tree) : \E b \in tree[i].imports :
                                  /\ b.local = name /\ b.remote = y.name
                                  /\ ResolveModule(tree, b.module) = y.file}}

\* Imports that are followed whatever the order of the files: of what the module
\* exports where it declares it, or lists in a file that sorts before the importer.
Followed(tree, i, name) ==
    \/ name \in tree[i].functions
    \/ \E b \in tree[i].imports :
          LET j == ResolveModule(tree, b.module)
          IN  /\ b.local = name
              /\ j # NoFile
              /\ \/ b.remote \in tree[j].declared \cap tree[j].functions
                 \/ /\ j < i
                    /\ \E x \in tree[j].listed : x.name = b.remote /\ x.local \in tree[j].functions

\* A bare call of a JavaScript function becomes an edge to a function its name
\* denotes, through imports and re-exports, or leaves the caller open; it becomes
\* an edge when the import is of a listed or declared export that was linked by then.
\* A caller that its module imports back under another name gets no edge to itself
\* (linkModules, recordRelationships).
DirectCallsAccounted ==
    Answered("javascript") /\ request.caller.class = "" =>
       LET tree == request.tree
           caller == request.caller
           reported == answer.value.relationships
           Bound(name) == Lookup(answer.value.bound, name)
           Sites == {s \in caller.sites : /\ s.how = "direct"
                                          /\ s.name \notin KnownNonCalls \cup {caller.name}}
       IN  \A s \in Sites :
              /\ IsFunction(Bound(s.name))
                   => /\ Bound(s.name) \in Denoted(tree, caller.file, s.name)
                      /\ Bound(s.name) # Self(caller) =>
                            [target |-> Bound(s.name), kind |-> "call"] \in reported.edges
              /\ ~IsFunction(Bound(s.name)) => reported.external
              /\ Followed(tree, caller.file, s.name) => IsFunction(Bound(s.name))

\* "Package imports, dynamic dispatch, path aliases, bundler configuration, and
\* cross-language calls remain external and conservative for classification"
\* (internal/backends/javascript/MAP.md:15): a call that adds no call edge leaves the
\* caller open.
EveryCallAccounted ==
    Answered("javascript") =>
       \A s \in request.caller.sites :
          \/ answer.value.relationships.external
          \/ s.name \in KnownNonCalls
          \/ \E e \in answer.value.relationships.edges : e.kind = "call" /\ e.target.name = s.name
          \/ s.how = "direct" /\ s.name = request.caller.name

-----------------------------------------------------------------------------
(* Pages *)

\* Pages of equal keys cut anywhere and served from a map without order still
\* hold every symbol once, and each stands under one file of the listing, which
\* keeps every listed file and every analyzed one even when it is cut short
\* (allSymbols, searchSymbols, pageBounds, fileListing).
PagesPartition ==
    /\ Answered("explorer") => answer.value.status # "failed"
    /\ Answered("explorer") /\ answer.value.status = "listed" =>
         LET items == answer.value.items
             files == answer.value.files
             symbols == {s \in request.symbols : ~s.anonymous}
             tree == request.tree
             Inside(s) == \E i \in DOMAIN request.roots : IsStrictPrefix(request.roots[i], s.path)
         IN  /\ ToSet(items) = symbols
             /\ Len(items) = Cardinality(symbols)
             /\ \/ answer.value.pages = 1
                \/ (answer.value.pages - 1) * MaxPageLimit < Len(items)
             /\ \A s \in symbols :
                  Cardinality({p \in DOMAIN files : s.id \in files[p]}) = (IF Inside(s) THEN 1 ELSE 0)
             /\ \A p \in DOMAIN files : files[p] = {} => p \in tree.present \ tree.deleted
             /\ tree.readable /\ ~answer.value.truncated =>
                  IF tree.git THEN tree.listed \ tree.deleted \subseteq DOMAIN files
                  ELSE {p \in tree.present : Len(p) = 1} \subseteq DOMAIN files
    /\ Answered("page") =>
         LET page == request.page
             refused == answer.value.error # "none"
             total == Cardinality(Matches(request.symbols, request.query, TRUE))
             foreign == page.cursor # NoCursor /\ page.cursor.binding # request.query
         IN  /\ foreign \/ page.limit < 0 \/ page.limit > MaxPageLimit => refused
             /\ ~refused =>
                  /\ Len(answer.value.items) <= MaxPageLimit
                  /\ answer.value.next = NoCursor
                       <=> page.cursor.offset + Len(answer.value.items) = total
=============================================================================
