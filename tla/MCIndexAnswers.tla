--------------------------- MODULE MCIndexAnswers ---------------------------
(* Finite instances of IndexAnswers for TLC. *)
EXTENDS IndexAnswers

LOCAL INSTANCE SequencesExt
LOCAL INSTANCE FiniteSetsExt

-----------------------------------------------------------------------------
(* Programs to classify *)

\* One set of facts for each outcome of classifyDirect.
Facts == {{"pureCall"}, {"edgeCall", "otherCall"}, {"noBody"}}

EdgeOf(k, pairs) == {[caller |-> p[1], callee |-> p[2], kind |-> k] : p \in pairs}

\* Call graphs of up to four calls.  Dependencies between all functions are there to
\* be ignored.
Graphs ==
    {EdgeOf("call", calls) \cup EdgeOf("dependency", Functions \X Functions) :
       calls \in UNION {kSubset(k, Functions \X Functions) : k \in 0..4}}

NoCalls == {{}}

Interchangeable == Permutations(Functions)

-----------------------------------------------------------------------------
(* Graphs to ask about *)

Nodes == 1..4

\* Up to four edges, self calls among them, or all of one cycle and a chord.
SmallGraphs ==
    {[functions |-> Nodes, tests |-> {2}, edges |-> E] :
       E \in UNION {kSubset(k, Nodes \X Nodes) : k \in 0..3}}
      \cup {[functions |-> Nodes, tests |-> {2}, edges |-> {<<1, 2>>, <<2, 3>>, <<3, 4>>, <<4, 1>>, <<1, 3>>}]}

\* Long enough for the depth to be clamped.
Chain == [functions |-> 1..11, tests |-> {}, edges |-> {<<i, i + 1>> : i \in 1..10}]

Neighborhoods ==
    {[ask |-> "graph", graph |-> g, http |-> TRUE,
      from |-> [root |-> 1, direction |-> d, depth |-> n, tests |-> t]] :
        g \in SmallGraphs, d \in {"upstream", "downstream", "both"}, n \in {-1, 0, 1, 2, 3}, t \in BOOLEAN}
      \cup {[ask |-> "graph", graph |-> Chain, http |-> h,
             from |-> [root |-> r, direction |-> d, depth |-> n, tests |-> FALSE]] :
               h \in BOOLEAN, r \in {1, 6, 99}, d \in {"", "upstream", "both"}, n \in {-1, 8, 9}}

ChangedGraphs ==
    {[functions |-> Nodes, tests |-> {}, edges |-> E] :
       E \in UNION {kSubset(k, {p \in Nodes \X Nodes : p[1] # p[2]}) : k \in 0..4}}
      \cup {[functions |-> Nodes, tests |-> {}, edges |-> {<<i, i>> : i \in Nodes}]}

Reviews ==
    {[ask |-> "review", graph |-> g, changed |-> c] : g \in ChangedGraphs, c \in {{}, {1, 2, 4}, Nodes}}

-----------------------------------------------------------------------------
(* Edits *)

\* Functions of a layout: their lines in a script that neither adds nor removes any, and
\* whether a comment precedes the last of them.
Decl(name, lines, doc) == [name |-> name, lines |-> lines, doc |-> doc]

Least(S) == CHOOSE i \in S : \A j \in S : i <= j
Greatest(S) == CHOOSE i \in S : \A j \in S : i >= j

Edit(layout, ops) ==
    LET New(f) == {i \in f.lines : ops[i] # "-"}
        Old(f) == {i \in f.lines : ops[i] # "+"}
        left == SelectSeq(layout, LAMBDA f : New(f) # {})
    IN  [script |-> [i \in DOMAIN ops |-> [op |-> ops[i]]],
         functions |-> [k \in DOMAIN left |->
                          LET lines == New(left[k])
                          IN  [name |-> left[k].name, first |-> Least(lines), last |-> Greatest(lines),
                               line |-> IF left[k].doc THEN Greatest(lines) ELSE Least(lines)]],
         was |-> {[name |-> f.name, first |-> Least(Old(f)), last |-> Greatest(Old(f))] :
                    f \in {g \in ToSet(layout) : Old(g) # {}}},
         context |-> 1, language |-> "javascript", state |-> "tracked", from |-> "here", nested |-> FALSE,
         headReadable |-> TRUE, unread |-> {}, deletedIn |-> ""]

Operations(n) == [1..n -> {"=", "+", "-"}]
Spaced == <<Decl("f", 2..4, FALSE), Decl("g", 6..7, FALSE)>>
Adjacent(doc) == <<Decl("f", 1..2, doc), Decl("g", 3..4, doc)>>
Inner == <<Decl("f", 1..5, FALSE), Decl("g", 2..3, FALSE), Decl("g", {4}, FALSE)>>
InnerOnOneLine == <<Decl("f", 1..3, FALSE), Decl("g", 1..2, FALSE), Decl("h", {4}, FALSE)>>
OneLine == <<Decl("f", {1}, FALSE), Decl("g", 1..2, FALSE), Decl("h", 3..4, FALSE)>>

\* HEAD and working tree agree on who is who, so what is renamed, unread or of another
\* state is taken of adjacent functions; a file that is new has added lines only.
Edits ==
    LET Go(edits) == {[e EXCEPT !.language = "go"] : e \in edits}
        Short(doc) == {Edit(Adjacent(doc), o) : o \in Operations(4)}
        Both == Go(Short(TRUE)) \cup Short(FALSE)
        Shared == Go({Edit(OneLine, o) : o \in Operations(4)}) \cup {Edit(InnerOnOneLine, o) : o \in Operations(4)}
    IN  {Edit(Spaced, o) : o \in Operations(7)}
          \cup {[Edit(Inner, o) EXCEPT !.nested = n] : o \in Operations(5), n \in BOOLEAN}
          \cup {[e EXCEPT !.nested = n, !.headReadable = h, !.deletedIn = d] :
                  e \in Both, n \in BOOLEAN, h \in BOOLEAN, d \in {"", "a", "b"}}
          \cup {[e EXCEPT !.from = p, !.unread = u, !.deletedIn = d] :
                  e \in Both, p \in {"here", "sibling", "elsewhere"},
                  u \in SUBSET {"edited", "deleted"}, d \in {"", "a"}}
          \cup {[e EXCEPT !.from = "nowhere", !.deletedIn = d] :
                  e \in {b \in Both : \A i \in 1..4 : b.script[i].op = "+"}, d \in {"", "a"}}
          \cup {[e EXCEPT !.state = s] :
                  e \in Both \cup Shared, s \in {"tracked", "untracked", "unborn", "outside"}}

Changes == {[ask |-> "changes", edit |-> e] : e \in Edits}

-----------------------------------------------------------------------------
(* Calls *)

\* A main function, two local callees of which the second may fail to load or be a
\* copy built for a test, and dependencies with an effect, none, or unknown.
Function(package, local) ==
    [declared |-> TRUE, local |-> local, test |-> FALSE, package |-> package, body |-> local,
     effect |-> FALSE, qualified |-> {}, sites |-> {}]

Package(path, errors, variant) ==
    [importPath |-> path, errors |-> errors, testVariant |-> variant, imports |-> {}]

StrippedImport == [soft |-> TRUE, type |-> TRUE, dependency |-> TRUE]
BrokenType == [StrippedImport EXCEPT !.soft = FALSE]

Load(errors, variant, how, candidates, static) ==
    [packages |-> ("main" :> [Package("main", {}, FALSE) EXCEPT
                                !.imports = {"os", "strings", "other"}
                                               \cup (IF static = "h" THEN {"second"} ELSE {})]
                     @@ "second" :> Package("second", errors, variant)
                     @@ "os" :> Package("effectful", {StrippedImport}, FALSE)
                     @@ "strings" :> Package("known pure", {}, FALSE)
                     @@ "other" :> Package("other", {}, FALSE)),
     functions |-> ("f" :> [Function("main", TRUE) EXCEPT
                              !.sites = {[how |-> how, callees |-> candidates],
                                         [how |-> "static", callees |-> {static}],
                                         [how |-> "builtin", callees |-> {}]}]
                      @@ "g" :> Function("main", TRUE)
                      @@ "h" :> Function("second", TRUE)
                      @@ "os" :> Function("os", FALSE)
                      @@ "strings" :> Function("strings", FALSE)
                      @@ "other" :> Function("other", FALSE))]

\* A package that was not built has no candidates.
Loads ==
    {Load(p[1], v, h, p[2], d) :
        p \in {q \in {{}, {StrippedImport}, {StrippedImport, BrokenType}}
                      \X UNION {kSubset(k, {"g", "h", "os", "strings"}) : k \in 0..2} :
                 BrokenType \in q[1] => "h" \notin q[2]},
        v \in BOOLEAN, h \in {"function value", "interface"},
        d \in {"g", "h", "os", "strings", "other"}}

GoLoads == {[ask |-> "go", load |-> l] : l \in Loads}

Module(base, ext) == [base |-> base, ext |-> ext, package |-> FALSE]

\* The caller's file imports g from b, and h from a package; b has it, lists it, or
\* passes it on from c, in any path order.
JsFile(base, ext) ==
    [base |-> base, ext |-> ext, index |-> FALSE, functions |-> {}, classes |-> <<>>, returns |-> <<>>,
     declared |-> {}, default |-> "", listed |-> {}, reexports |-> <<>>, imports |-> {}, namespaces |-> {}]

Caller(base) ==
    [JsFile(base, ".ts") EXCEPT
        !.functions = {"f", "k"},
        !.returns = "f" :> "" @@ "k" :> "",
        !.imports = {[module |-> Module("b", ""), remote |-> "g", local |-> "g"],
                     [module |-> [base |-> "b", ext |-> "", package |-> TRUE], remote |-> "h", local |-> "h"]},
        !.namespaces = {[module |-> Module("b", ""), local |-> "ns"]}]

With(file, name, how) ==
    [file EXCEPT !.functions = {name},
                 !.returns = name :> "K",
                 !.declared = IF how = "declared" THEN {name} ELSE {},
                 !.listed = IF how = "listed" THEN {[local |-> name, name |-> "g"]} ELSE {}]

Passing(file, how, base) ==
    [file EXCEPT !.reexports =
       CASE how = "named" -> <<[module |-> Module(base, ""), all |-> FALSE, remote |-> "g", local |-> "g"]>>
         [] how = "star" -> <<[module |-> Module(base, ""), all |-> TRUE, remote |-> "", local |-> ""]>>
         [] OTHER -> <<>>]

Service ==
    [JsFile("s", ".js") EXCEPT
        !.classes = "K" :> [methods |-> {"m", "n"}, statics |-> {"t"}, hidden |-> {"n"}, fields |-> "this.k" :> "K", extends |-> "P"]
                      @@ "P" :> [methods |-> {"p"}, statics |-> {}, hidden |-> {}, fields |-> <<>>, extends |-> ""],
        !.declared = {"K"}]

Trees ==
    {<<Caller("a"), With(JsFile("b", x), "g", w), Passing(With(JsFile("c", ".ts"), "g", v), r, "b")>> :
       x \in {".ts", ".js"}, w \in {"declared", "listed", "no"}, v \in {"declared", "no"}, r \in {"none", "star"}}
      \cup {<<Passing(With(JsFile("b", ".ts"), "own", "no"), r, "c"),
              Passing(With(JsFile("c", ".ts"), "g", w), q, "b"), Caller("z")>> :
              r \in {"named", "star"}, q \in {"none", "star"}, w \in {"declared", "listed"}}
      \cup {<<With(JsFile("b", ".js"), "g", w), With(JsFile("b", ".ts"), "g", v), Caller("z")>> :
              w \in {"declared", "no"}, v \in {"listed", "no"}}

\* A module that imports its own function under another name.
Selfish ==
    [JsFile("a", ".ts") EXCEPT
        !.functions = {"f"},
        !.returns = "f" :> "",
        !.declared = {"f"},
        !.imports = {[module |-> Module("a", ""), remote |-> "f", local |-> "me"]}]

JsCaller(i, class, name, sites, locals) ==
    [file |-> i, class |-> class, name |-> name, sites |-> sites, locals |-> locals]

Bare(name) == [how |-> "direct", name |-> name, receiver |-> ""]
On(receiver, name) == [how |-> "member", name |-> name, receiver |-> receiver]

CallerAt(tree) == CHOOSE i \in DOMAIN tree : "f" \in tree[i].functions

JsCalls ==
    {[ask |-> "javascript", tree |-> t, caller |-> JsCaller(CallerAt(t), "", "f", s, <<>>)] :
       t \in Trees, s \in SUBSET {Bare("g"), Bare("h"), Bare("k"), Bare("f"), On("ns", "g")}}
      \cup {[ask |-> "javascript", tree |-> <<Selfish>>, caller |-> JsCaller(1, "", "f", s, <<>>)] :
              s \in SUBSET {Bare("me"), Bare("f")}}
      \cup {[ask |-> "javascript", tree |-> <<Service>>, caller |-> JsCaller(1, "K", "m", s, l)] :
              s \in SUBSET {On("this", "n"), On("super", "p"), On("K", "t"), On("x", "m"), On("this.k", "n")},
              l \in {<<>>, <<[name |-> "x", how |-> "new", of |-> "K"]>>,
                     <<[name |-> "y", how |-> "typed", of |-> "P"], [name |-> "x", how |-> "alias", of |-> "y"]>>}}

\* A call on a receiver nobody knows, and one of a function named like its caller.
UnknownCalls ==
    {[ask |-> "javascript", tree |-> <<Caller("a"), With(JsFile("b", ".ts"), "g", "declared")>>,
      caller |-> JsCaller(1, "", "f", s, <<>>)] :
        s \in SUBSET {Bare("g"), Bare("h"), On("h", "write")}}

-----------------------------------------------------------------------------
(* Lists *)

Symbol(id, name, path) ==
    [id |-> id, name |-> name, path |-> path, test |-> id = 3, anonymous |-> id = 5]

Roots == <<<<"r">>, <<"x", "r">>>>

SymbolSets ==
    {{Symbol(i, IF i \in named THEN 1 ELSE 2, paths[i]) : i \in ids} :
       ids \in SUBSET (1..5), named \in {{}, {1, 3}, {1, 2, 4}},
       paths \in {[i \in 1..5 |-> CASE i = 1 -> <<"r", "p">>
                                    [] i = 2 -> <<"x", "r", "p">>
                                    [] i = 3 -> <<"r", "d", "q">>
                                    [] i = 4 -> <<"x", "o">>
                                    [] OTHER -> <<"r", "p">>]}}

ProjectFiles ==
    LET files == {<<"p">>, <<"d", "q">>, <<"d.q">>, <<"v", "z">>}
        rank == <<"p">> :> 3 @@ <<"d", "q">> :> 2 @@ <<"d.q">> :> 1 @@ <<"v", "z">> :> 4
        walk == [rank EXCEPT ![<<"d", "q">>] = 1, ![<<"d.q">>] = 2]
    IN  {[git |-> g, readable |-> r, listed |-> files, deleted |-> d, present |-> files \ d,
          skipped |-> {"v"}, pathOrder |-> rank, walkOrder |-> walk] :
            g \in BOOLEAN, r \in BOOLEAN, d \in {{}, {<<"p">>}}}

Explorers == {[ask |-> "explorer", symbols |-> s, roots |-> Roots, tree |-> t] : s \in SymbolSets, t \in ProjectFiles}

PageRequests ==
    {[ask |-> "page", symbols |-> s, query |-> q,
      page |-> [limit |-> l, cursor |-> c]] :
        s \in SymbolSets, q \in 0..1, l \in {-1, 0, 1, MaxPageLimit, MaxPageLimit + 1},
        c \in {NoCursor} \cup [offset : {-1, 0, 2, 9}, binding : {0, 1}]}

OnlyUnknownCalls == {UnknownCalls}

EveryRequest == {Neighborhoods, Reviews, Changes, GoLoads, JsCalls, Explorers, PageRequests}
=============================================================================
