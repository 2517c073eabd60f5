------------------------------ MODULE GoCalls ------------------------------
(***************************************************************************)
(* What the Go backend reports of the calls of a function                  *)
(* (internal/backends/go/backend.go, facts.go).                            *)
(*                                                                         *)
(* go/packages, SSA and VTA are external: a load is a set of packages with *)
(* their errors, and of functions with the call sites of their SSA bodies. *)
(* A dynamic site has the candidates VTA finds for it, perhaps none.       *)
(* Bodies of dependencies are stripped, so a dependency has no sites.      *)
(***************************************************************************)
EXTENDS FiniteSets

-----------------------------------------------------------------------------
(* What is analyzed *)

\* An error only of a body that was stripped: soft, and in a dependency.
Forgiven(error) == error.soft /\ error.type /\ error.dependency

\* forgiveStrippedBodyErrors: all of a package's errors, or none.
ErrorsAfter(package) ==
    IF \A e \in package.errors : Forgiven(e) THEN {} ELSE package.errors

Healthy(package) == ErrorsAfter(package) = {}

\* An importer of a package with errors is ill-typed, however far the import.  Only
\* what is healthy and well-typed is built as SSA.
IllTyped(load, name) ==
    \E p \in {name} \cup load.packages[name].imports : ~Healthy(load.packages[p])

\* collectSymbols: declarations and literals of those packages, in local files,
\* and, unless in a test file, of the variant that is not built for a test.
IsSymbol(load, f) ==
    /\ f.declared
    /\ f.local
    /\ ~IllTyped(load, f.package)
    /\ f.test \/ ~load.packages[f.package].testVariant

Symbols(load) == {id \in DOMAIN load.functions : IsSymbol(load, load.functions[id])}

-----------------------------------------------------------------------------
(* Facts and relationships *)

\* The kind Classification knows a call into a package by; a callee without a
\* package is unknown.
CallFact(importPath) ==
    CASE importPath = "effectful" -> "edgeCall"
      [] importPath = "known pure" -> "pureCall"
      [] OTHER -> "otherCall"

Unknown == CallFact("")

\* collectFacts: no body is a fact of its own; effects and qualified calls by syntax.
SyntaxFacts(f) ==
    IF ~f.body THEN {"noBody"}
    ELSE (IF f.effect THEN {"effect"} ELSE {}) \cup {CallFact(p) : p \in f.qualified}

Static(f) == {s \in f.sites : s.how = "static"}
Dynamic(f) == {s \in f.sites : s.how \in {"function value", "interface"}}

\* Sites with a static callee: an edge to a symbol, a fact of its package otherwise.
StaticEdges(load, f) ==
    {[callee |-> c, dynamic |-> FALSE] : c \in (UNION {s.callees : s \in Static(f)}) \cap Symbols(load)}
StaticFacts(load, f) ==
    {CallFact(load.packages[load.functions[c].package].importPath) :
       c \in (UNION {s.callees : s \in Static(f)}) \ Symbols(load)}

\* Edges of the call graph at the other sites: a candidate that is no symbol is unknown.
DynamicEdges(load, f) ==
    {[callee |-> c, dynamic |-> TRUE] : c \in (UNION {s.callees : s \in Dynamic(f)}) \cap Symbols(load)}
DynamicFacts(load, f) ==
    {Unknown : c \in (UNION {s.callees : s \in Dynamic(f)}) \ Symbols(load)}

\* Mutant of UnresolvedFacts: a site without a candidate calls nothing.
UnresolvedFacts_None(f) == {}

\* markUnresolvedDynamicCalls: a site without a candidate that is not a builtin.
UnresolvedFacts(f) == {Unknown : s \in {x \in Dynamic(f) : x.callees = {}}}

\* collectRelationships, with the facts it adds to those of collectFacts.
Reported(load, f) ==
    [edges |-> StaticEdges(load, f) \cup DynamicEdges(load, f),
     facts |-> SyntaxFacts(f) \cup StaticFacts(load, f) \cup DynamicFacts(load, f)
                  \cup UnresolvedFacts(f)]
============================================================================
