--------------------------- MODULE Classification ---------------------------
(***************************************************************************)
(* How the index labels functions pure, edge or unknown                    *)
(* (internal/analyzer/classify.go, called by buildIndex).                  *)
(*                                                                         *)
(* classifyDirect labels each function from its documentation and the      *)
(* facts its backend reported.  classifyFunctions then goes over a Go map, *)
(* pass after pass, and promotes to pure what calls only pure functions:   *)
(* a pass visits every function once, in an order the runtime chooses, and *)
(* sees the promotions made earlier in the same pass.                      *)
(***************************************************************************)

CONSTANTS
    Functions,
    FactSets,  \* bound: the sets of fact kinds a function may have
    EdgeSets   \* bound: the sets of edges of the index

VARIABLES
    documentation, \* authored label of each function: pure, edge or none
    facts,         \* kinds of the facts reported of each function
    edges,         \* edges of the index: caller, callee, kind
    kind,          \* label of each function: pure, edge or unknown
    evidence,      \* what the label of a function rests on
    pending,       \* functions the current pass has still to visit
    changed,       \* this pass promoted a function
    phase          \* propagating, done

program == <<documentation, facts, edges>>
vars == <<program, kind, evidence, pending, changed, phase>>

-----------------------------------------------------------------------------

\* Facts that show an effect: a goroutine, a channel send, a write to package,
\* object or indexed state, a call into an effect package.
EffectFacts == {"effect", "edgeCall"}

\* Facts that leave the effect open: no body, or a call into a package that is
\* neither an effect package nor known to be pure.
OpenFacts == {"noBody", "otherCall"}

FactKinds == EffectFacts \cup OpenFacts \cup {"pureCall"}

Edges == [caller : Functions, callee : Functions, kind : {"call", "dependency"}]

\* Backends report relationships between symbols of the same snapshot only.
ASSUME ProgramAssumption ==
    /\ FactSets \subseteq SUBSET FactKinds
    /\ EdgeSets \subseteq SUBSET Edges

Authored(f) == documentation[f] # "none"

\* classifyDirect: the documentation decides alone, then effects, then nothing.
DirectKind(f) ==
    CASE documentation[f] = "pure" -> "pure"
      [] documentation[f] = "edge" -> "edge"
      [] OTHER -> IF facts[f] \cap EffectFacts # {} THEN "edge" ELSE "unknown"

DirectEvidence(f) ==
    IF Authored(f) THEN "documented"
    ELSE IF DirectKind(f) = "edge" THEN "effects" ELSE "none"

DirectEdge(f) == DirectKind(f) = "edge"

ExternalCall(f) == ~Authored(f) /\ facts[f] \cap OpenFacts # {}

LocalCalls(f) == {e.callee : e \in {x \in edges : x.caller = f /\ x.kind = "call"}}

Pure == {f \in Functions : kind[f] = "pure"}

-----------------------------------------------------------------------------

\* buildIndex: every symbol labelled from its own evidence, then the first pass.
Init ==
    /\ documentation \in [Functions -> {"pure", "edge", "none"}]
    /\ facts \in [Functions -> FactSets]
    /\ edges \in EdgeSets
    /\ kind = [f \in Functions |-> DirectKind(f)]
    /\ evidence = [f \in Functions |-> DirectEvidence(f)]
    /\ pending = Functions
    /\ changed = FALSE
    /\ phase = "propagating"

\* Mutant of Settled: calls into code nobody analyzed leave a function open.
Settled_NoExternalCall(f) == kind[f] # "unknown" \/ DirectEdge(f)

Settled(f) == kind[f] # "unknown" \/ DirectEdge(f) \/ ExternalCall(f)

\* Mutant of Visit: the last function visited decides whether the pass changed.
Visit_LastDecides(f) ==
    /\ phase = "propagating"
    /\ f \in pending
    /\ pending' = pending \ {f}
    /\ changed' = (~Settled(f) /\ LocalCalls(f) \subseteq Pure)
    /\ IF changed'
         THEN /\ kind' = [kind EXCEPT ![f] = "pure"]
              /\ evidence' = [evidence EXCEPT ![f] = "callees"]
         ELSE UNCHANGED <<kind, evidence>>
    /\ UNCHANGED <<program, phase>>

\* One iteration of the inner loop.
Visit(f) ==
    /\ phase = "propagating"
    /\ f \in pending
    /\ pending' = pending \ {f}
    /\ IF Settled(f) \/ ~(LocalCalls(f) \subseteq Pure)
         THEN UNCHANGED <<kind, evidence, changed>>
         ELSE /\ kind' = [kind EXCEPT ![f] = "pure"]
              /\ evidence' = [evidence EXCEPT ![f] = "callees"]
              /\ changed' = TRUE
    /\ UNCHANGED <<program, phase>>

\* The pass promoted something: another one.
NextPass ==
    /\ phase = "propagating"
    /\ pending = {}
    /\ changed
    /\ pending' = Functions
    /\ changed' = FALSE
    /\ UNCHANGED <<program, kind, evidence, phase>>

\* A pass without a promotion is the last.  What stays unknown says why.
Conclude ==
    /\ phase = "propagating"
    /\ pending = {}
    /\ ~changed
    /\ phase' = "done"
    /\ evidence' = [f \in Functions |->
                      IF kind[f] # "unknown" THEN evidence[f]
                      ELSE IF ExternalCall(f) THEN "unanalyzed" ELSE "unestablished"]
    /\ UNCHANGED <<program, kind, pending, changed>>

Next ==
    \/ \E f \in Functions : Visit(f)
    \/ NextPass
    \/ Conclude

Spec == Init /\ [][Next]_vars

FairSpec == Spec /\ WF_vars(Next)

-----------------------------------------------------------------------------

\* A set of functions the rules of purity add nothing to.
Closed(S) ==
    \A f \in Functions :
       \/ f \in S
       \/ DirectKind(f) = "edge"
       \/ DirectKind(f) = "unknown" /\ (ExternalCall(f) \/ ~(LocalCalls(f) \subseteq S))

\* The map is walked in an order that differs from run to run.  The pure functions
\* are still those of the least set closed under the rules: the order decides
\* neither how many are promoted nor which (classifyFunctions).
PurityIgnoresOrder ==
    /\ \A S \in SUBSET Functions : Closed(S) => Pure \subseteq S
    /\ phase = "done" => Closed(Pure)

\* A function whose own body shows or may hide an effect, and no author vouches for.
Suspect(f) ==
    \/ documentation[f] = "edge"
    \/ documentation[f] = "none" /\ facts[f] \cap (EffectFacts \cup OpenFacts) # {}

\* No call leads out of the functions T, unless from one an author calls pure.
CallsStayIn(T) == \A g \in T : documentation[g] = "pure" \/ LocalCalls(g) \subseteq T

\* Functions a call of f can reach before an author's word for purity is met: the least
\* set around f that no call leads out of.
ReachedFrom(f) ==
    {g \in Functions : \A T \in SUBSET Functions : f \in T /\ CallsStayIn(T) => g \in T}

\* A function labelled pure by inference calls, however deep, no function with an
\* effect or with code nobody analyzed, and is on no call cycle: recursion never
\* proves itself pure (classifyFunctions, classifyDirect).
InferredPureReachesNoEffect ==
    \A f \in Pure :
       ~Authored(f) =>
          \A g \in ReachedFrom(f) :
             /\ ~Suspect(g)
             /\ ~Authored(g) => \A h \in LocalCalls(g) : g \notin ReachedFrom(h)

\* The passes come to an end, and then every function says what its label rests on.
ClassificationEnds ==
    <>(phase = "done" /\ \A f \in Functions : evidence[f] # "none")
============================================================================
