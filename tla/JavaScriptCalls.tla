-------------------------- MODULE JavaScriptCalls --------------------------
(***************************************************************************)
(* How the JavaScript backend links modules and resolves calls             *)
(* (internal/backends/javascript/backend.go).                              *)
(*                                                                         *)
(* A tree is the sequence of analyzed files in path order.  Extraction by  *)
(* regular expressions is abstracted: a file is a record of what is found  *)
(* in it, a callable one of the names and call sites in its body.  A class *)
(* and a function are entities; names map to entities.                     *)
(***************************************************************************)
EXTENDS Integers, Sequences, TLC

LOCAL INSTANCE SequencesExt

NoFile == 0
NoEntity == [kind |-> "none"]
Entity(kind, i, name) == [kind |-> kind, file |-> i, name |-> name]
Method(class, name) == [kind |-> "method", file |-> class.file, class |-> class.name, name |-> name]

\* The names of a map, and those of another one that it does not have.
Over(map, other) ==
    [n \in DOMAIN map \cup DOMAIN other |-> IF n \in DOMAIN map THEN map[n] ELSE other[n]]

Lookup(map, name) == IF name \in DOMAIN map THEN map[name] ELSE NoEntity
IsFunction(e) == e.kind = "function"
IsClass(e) == e.kind = "class"
Source(tree, class) == tree[class.file].classes[class.name]

-----------------------------------------------------------------------------
(* Modules *)

moduleExtensions == <<".ts", ".tsx", ".mts", ".cts", ".js", ".jsx", ".mjs", ".cjs">>

\* An import without an extension takes the first that exists, a file before the
\* index of a directory; one with an extension that file.  A package is not local.
ResolveModule(tree, module) ==
    LET Matches == {i \in DOMAIN tree :
                      /\ ~module.package
                      /\ tree[i].base = module.base
                      /\ module.ext \in {"", tree[i].ext}
                      /\ tree[i].index => module.ext = ""}
        Rank(i) == (IF tree[i].index THEN Len(moduleExtensions) ELSE 0)
                       + SelectInSeq(moduleExtensions, LAMBDA x : x = tree[i].ext)
    IN  IF Matches = {} THEN NoFile
        ELSE CHOOSE i \in Matches : \A j \in Matches : Rank(i) <= Rank(j)

OwnEntities(tree, i) ==
    Over([n \in tree[i].functions |-> Entity("function", i, n)],
         [n \in DOMAIN tree[i].classes |-> Entity("class", i, n)])

\* Exports extraction sees: those of a declaration, of module.exports, and the
\* default only of a class.
DeclaredExports(tree, i) ==
    LET own == OwnEntities(tree, i)
    IN  Over([n \in tree[i].declared |-> own[n]],
             [d \in {x \in {"default"} : tree[i].default \in DOMAIN tree[i].classes} |->
                own[tree[i].default]])

\* export {local as name}
ListedExports(tree, i) ==
    LET own == OwnEntities(tree, i)
        Known == {x \in tree[i].listed : x.local \in DOMAIN own}
    IN  [n \in {x.name : x \in Known} |-> own[(CHOOSE x \in Known : x.name = n).local]]

\* What the imports of file i find in the exports as they stand.
Imported(tree, exports, i) ==
    LET From(b) == ResolveModule(tree, b.module)
        Found == {b \in tree[i].imports :
                    From(b) # NoFile /\ b.remote \in DOMAIN exports[From(b)]}
        Binding(n) == CHOOSE b \in Found : b.local = n
    IN  [n \in {b.local : b \in Found} |-> exports[From(Binding(n))][Binding(n).remote]]

\* Mutant of LinkImports: imports find only the exports of files before them.
LinkImports_OnlyBefore(tree) ==
    LET Link[i \in 0..Len(tree)] ==
          IF i = 0 THEN [exports |-> [j \in DOMAIN tree |-> <<>>], bound |-> <<>>]
          ELSE LET before == Link[i - 1]
               IN  [exports |-> [before.exports EXCEPT
                                    ![i] = Over(ListedExports(tree, i), DeclaredExports(tree, i))],
                    bound   |-> Append(before.bound,
                                       Over(OwnEntities(tree, i), Imported(tree, before.exports, i)))]
    IN  Link[Len(tree)]

\* linkImports: imports of file i are looked up in the exports as they stand, then its
\* listed exports are added.
LinkFile(tree, before, i) ==
    [exports |-> [before.exports EXCEPT ![i] = Over(ListedExports(tree, i), @)],
     bound   |-> Append(before.bound,
                        Over(OwnEntities(tree, i), Imported(tree, before.exports, i)))]

\* File after file: listed exports are added after the imports of the same file, and of
\* every file before it, were looked up.
LinkImports(tree) ==
    LET Link[i \in 0..Len(tree)] ==
          IF i = 0 THEN [exports |-> [j \in DOMAIN tree |-> DeclaredExports(tree, j)], bound |-> <<>>]
          ELSE LinkFile(tree, Link[i - 1], i)
    IN  Link[Len(tree)]

\* One re-export of file i: a name already exported stays.
Reexport(tree, exports, i, item) ==
    LET target == ResolveModule(tree, item.module)
    IN  IF target = NoFile THEN exports
        ELSE IF item.all THEN [exports EXCEPT ![i] = Over(@, exports[target])]
        ELSE IF item.remote \in DOMAIN exports[target]
        THEN [exports EXCEPT ![i] = Over(@, item.local :> exports[target][item.remote])]
        ELSE exports

\* Rounds over the files, as many as there are files; a round without a change is
\* the last, and more would change nothing.
Propagate(tree, exports) ==
    LET n == Len(tree)
        File(k) == ((k - 1) % n) + 1
        After[k \in 0..(n * n)] ==
            IF k = 0 THEN exports
            ELSE FoldLeft(LAMBDA e, item : Reexport(tree, e, File(k), item),
                          After[k - 1], tree[File(k)].reexports)
    IN  After[n * n]

\* linkModules: what every file exports and what names are bound to in it.
LinkModules(tree) ==
    LET linked == LinkImports(tree)
    IN  [exports |-> Propagate(tree, linked.exports), bound |-> linked.bound]

\* The module a name stands for: import * as name, or require.
ModuleAlias(tree, i, name) ==
    LET Aliases == {a \in tree[i].namespaces :
                      a.local = name /\ ResolveModule(tree, a.module) # NoFile}
    IN  IF Aliases = {} THEN NoFile ELSE ResolveModule(tree, (CHOOSE a \in Aliases : TRUE).module)

\* markPublicCallables
Public(tree, links, callable) ==
    LET Exported == UNION {{links.exports[i][n] : n \in DOMAIN links.exports[i]} : i \in DOMAIN tree}
    IN  IF callable.kind = "function" THEN callable \in Exported
        ELSE /\ Entity("class", callable.file, callable.class) \in Exported
             /\ callable.name \notin Source(tree, Entity("class", callable.file, callable.class)).hidden

-----------------------------------------------------------------------------
(* Calls *)

\* Local variables whose class is known: typed, built by new, returned by a
\* factory with a return type, then two rounds of plain aliases.
ReceiverBindings(tree, links, caller) ==
    LET bound == links.bound[caller.file]
        ClassOf(l) ==
            CASE l.how \in {"typed", "new"} -> Lookup(bound, l.of)
              [] l.how = "factory" ->
                   LET factory == Lookup(bound, l.of)
                   IN  IF ~IsFunction(factory) THEN NoEntity
                       ELSE Lookup(bound, tree[factory.file].returns[factory.name])
              [] OTHER -> NoEntity
        stated == SelectSeq(caller.locals, LAMBDA l : IsClass(ClassOf(l)))
        aliases == SelectSeq(caller.locals, LAMBDA l : l.how = "alias")
        Base == FoldLeft(LAMBDA b, l : Over(l.name :> ClassOf(l), b), <<>>, stated)
        Pass(b) == FoldLeft(LAMBDA c, l : IF l.of \in DOMAIN c THEN Over(l.name :> c[l.of], c) ELSE c,
                            b, aliases)
    IN  Pass(Pass(Base))

MemberOf(tree, class, name) ==
    IF IsClass(class) /\ name \in Source(tree, class).methods THEN Method(class, name) ELSE NoEntity
StaticOf(tree, class, name) ==
    IF name \in Source(tree, class).statics THEN Method(class, name) ELSE NoEntity

Parent(tree, links, class) == Lookup(links.bound[class.file], Source(tree, class).extends)

\* resolveMember: the first rule that knows the receiver decides, also when the
\* receiver has no such member.
ResolveMember(tree, links, caller, site) ==
    LET bound == links.bound[caller.file]
        bindings == ReceiverBindings(tree, links, caller)
        class == IF caller.class = "" THEN NoEntity ELSE Entity("class", caller.file, caller.class)
        fields == IF IsClass(class) THEN Source(tree, class).fields ELSE <<>>
        alias == ModuleAlias(tree, caller.file, site.receiver)
        Direct(e) == [target |-> e, kind |-> "call"]
        Dynamic(e) == [target |-> e, kind |-> "dependency"]
    IN  CASE site.receiver = "this" /\ IsClass(class) -> Direct(MemberOf(tree, class, site.name))
          [] site.receiver = "super" /\ IsClass(class) /\ IsClass(Parent(tree, links, class)) ->
               Direct(MemberOf(tree, Parent(tree, links, class), site.name))
          [] alias # NoFile ->
               Direct(IF IsFunction(Lookup(links.exports[alias], site.name))
                      THEN links.exports[alias][site.name] ELSE NoEntity)
          [] IsClass(Lookup(bound, site.receiver)) ->
               Direct(StaticOf(tree, bound[site.receiver], site.name))
          [] site.receiver \in DOMAIN bindings -> Dynamic(MemberOf(tree, bindings[site.receiver], site.name))
          [] site.receiver \in DOMAIN fields ->
               Dynamic(MemberOf(tree, Lookup(bound, fields[site.receiver]), site.name))
          [] OTHER -> Dynamic(NoEntity)

DirectTarget(links, caller, site) ==
    LET e == Lookup(links.bound[caller.file], site.name)
    IN  IF IsFunction(e) THEN e ELSE NoEntity

\* A call of its own name is skipped, whatever the name denotes there.
SkippedDirectCall(caller, site) == site.name = caller.name

KnownNonCalls == {"require", "super"}

Self(caller) ==
    IF caller.class = "" THEN Entity("function", caller.file, caller.name)
    ELSE Method(Entity("class", caller.file, caller.class), caller.name)

\* recordRelationships: edges of a caller, and whether it calls the unknown.
Relationships(tree, links, caller) ==
    LET Members == {ResolveMember(tree, links, caller, s) : s \in {x \in caller.sites : x.how = "member"}}
        Directs == {s \in caller.sites : s.how = "direct" /\ ~SkippedDirectCall(caller, s)}
        Calls == {[target |-> DirectTarget(links, caller, s), kind |-> "call"] : s \in Directs}
    IN  [edges    |-> {e \in Members \cup Calls : e.target \notin {NoEntity, Self(caller)}},
         external |-> \E s \in Directs : /\ DirectTarget(links, caller, s) = NoEntity
                                         /\ s.name \notin KnownNonCalls]
============================================================================
