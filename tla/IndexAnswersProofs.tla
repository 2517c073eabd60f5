------------------------ MODULE IndexAnswersProofs ------------------------
(***************************************************************************)
(* What holds of the answers of IndexAnswers for any program and request.  *)
(* Of classification: the labels do not depend on the order in which       *)
(* functions are visited, and what is inferred pure reaches neither an     *)
(* effect nor itself.  Of each answer: that it means what its property     *)
(* says.  An answer does not change once it is given, so its property is a *)
(* fact about the operator that computes it.                               *)
(***************************************************************************)
EXTENDS IndexAnswers, DataLemmas, SequenceTheorems

LOCAL INSTANCE SequencesExt
LOCAL INSTANCE FiniteSetsExt

Kinds == {"pure", "edge", "unknown"}

\* A label is the direct one, or was promoted from unknown.
LabelsFromEvidence ==
    \A f \in Functions :
       \/ kind[f] = DirectKind(f)
       \/ kind[f] = "pure" /\ DirectKind(f) = "unknown" /\ ~ExternalCall(f)

\* Nothing is pure that a closed set does without.
PureIsLeast == \A S \in SUBSET Functions : Closed(S) => Pure \subseteq S

\* As long as the pass has promoted nothing, what it visited can stay as it is.
VisitedStay ==
    ~changed => \A f \in Functions \ pending : Settled(f) \/ ~(LocalCalls(f) \subseteq Pure)

\* The last pass was complete and promoted nothing.
LastPassQuiet == phase = "done" => pending = {} /\ ~changed

\* A function is pure by its author's word, or because all it calls is.
PureCallsPure == CallsStayIn(Pure)

IInv ==
    /\ edges \subseteq Edges
    /\ kind \in [Functions -> Kinds]
    /\ LabelsFromEvidence
    /\ PureIsLeast
    /\ PureCallsPure
    /\ VisitedStay
    /\ LastPassQuiet

-----------------------------------------------------------------------------

LEMMA DirectKindIsKind == ASSUME NEW f PROVE DirectKind(f) \in Kinds
  BY DEF DirectKind, Kinds

\* Directly pure functions lie in every closed set.
LEMMA DirectlyPureIsInClosed ==
  ASSUME NEW S \in SUBSET Functions, Closed(S), NEW f \in Functions, DirectKind(f) = "pure"
  PROVE  f \in S
  BY DEF Closed

\* So does a function the rules promote, with its callees.
LEMMA PromotedIsInClosed ==
  ASSUME NEW S \in SUBSET Functions, Closed(S), NEW f \in Functions,
         DirectKind(f) = "unknown", ~ExternalCall(f), LocalCalls(f) \subseteq S
  PROVE  f \in S
  BY DEF Closed

\* What a program is does not change, nor does what follows from it alone.
LEMMA ProgramStays ==
  ASSUME UNCHANGED program
  PROVE  /\ \A f : DirectKind(f)' = DirectKind(f)
         /\ \A f : ExternalCall(f)' = ExternalCall(f)
         /\ \A f : DirectEdge(f)' = DirectEdge(f)
         /\ \A f : LocalCalls(f)' = LocalCalls(f)
         /\ \A S : Closed(S)' = Closed(S)
         /\ documentation' = documentation /\ edges' = edges
  BY DEF program, DirectKind, ExternalCall, DirectEdge, LocalCalls, Closed, Authored

-----------------------------------------------------------------------------

LEMMA InitIInv == Init => IInv
<1> SUFFICES ASSUME Init PROVE IInv
  OBVIOUS
<1>1. kind \in [Functions -> Kinds]
  BY DirectKindIsKind DEF Init
<1>2. \A f \in Functions : kind[f] = DirectKind(f)
  BY DEF Init
<1>3. PureIsLeast
  BY <1>2, DirectlyPureIsInClosed DEF PureIsLeast, Pure
<1>4. VisitedStay /\ LastPassQuiet
  BY DEF Init, VisitedStay, LastPassQuiet
<1>5. PureCallsPure
  BY <1>2 DEF PureCallsPure, CallsStayIn, Pure, DirectKind
<1>6. edges \subseteq Edges
  BY ProgramAssumption DEF Init
<1> QED
  BY <1>1, <1>2, <1>3, <1>4, <1>5, <1>6 DEF IInv, LabelsFromEvidence

\* So it does of a program whose authors have labelled everything.
LEMMA IdleIInv == Idle => IInv
<1> SUFFICES ASSUME Idle PROVE IInv
  OBVIOUS
<1>1. /\ documentation = [f \in Functions |-> "pure"] /\ edges = {} /\ pending = {}
      /\ kind = [f \in Functions |-> "pure"] /\ changed = FALSE
  BY DEF Idle
<1>2. kind \in [Functions -> Kinds] /\ Pure = Functions
  BY <1>1 DEF Kinds, Pure
<1>3. \A f \in Functions : DirectKind(f) = "pure"
  BY <1>1 DEF DirectKind
<1>4. LabelsFromEvidence
  BY <1>1, <1>3 DEF LabelsFromEvidence
<1>5. PureIsLeast
  BY <1>2, <1>3, DirectlyPureIsInClosed DEF PureIsLeast
<1>6. PureCallsPure
  BY <1>1, <1>2 DEF PureCallsPure, CallsStayIn
<1>7. VisitedStay
  BY <1>1 DEF VisitedStay, Settled
<1>8. LastPassQuiet
  BY <1>1 DEF LastPassQuiet
<1> QED
  BY <1>1, <1>2, <1>4, <1>5, <1>6, <1>7, <1>8 DEF IInv

\* A promotion: the function was unknown and all it calls is pure.
LEMMA PromotionKeepsIInv ==
  ASSUME IInv, NEW f \in Functions, Visit(f), ~Settled(f), LocalCalls(f) \subseteq Pure
  PROVE  IInv'
<1>1. /\ kind' = [kind EXCEPT ![f] = "pure"]
      /\ changed' = TRUE
      /\ phase' = phase /\ phase = "propagating"
      /\ UNCHANGED program
  BY DEF Visit
<1>2. DirectKind(f) = "unknown" /\ ~ExternalCall(f)
  BY DEF IInv, LabelsFromEvidence, Settled
<1>3. kind' \in [Functions -> Kinds]
  BY <1>1 DEF IInv, Kinds
<1>4. LabelsFromEvidence'
  BY <1>1, <1>2, ProgramStays DEF IInv, LabelsFromEvidence
<1>5. Pure' \subseteq Pure \cup {f}
  BY <1>1 DEF IInv, Pure
<1>6. PureIsLeast'
  <2> SUFFICES ASSUME NEW S \in SUBSET Functions, Closed(S) PROVE Pure' \subseteq S
    BY <1>1, ProgramStays DEF PureIsLeast
  <2>1. Pure \subseteq S
    BY DEF IInv, PureIsLeast
  <2>2. f \in S
    BY <1>2, <2>1, PromotedIsInClosed
  <2> QED
    BY <1>5, <2>1, <2>2
<1>7. VisitedStay' /\ LastPassQuiet'
  BY <1>1 DEF VisitedStay, LastPassQuiet
<1>8. Pure \subseteq Pure'
  BY <1>1 DEF IInv, Pure
<1>9. PureCallsPure'
  BY <1>1, <1>5, <1>8, ProgramStays DEF IInv, PureCallsPure, CallsStayIn
<1>10. (edges \subseteq Edges)'
  BY <1>1, ProgramStays DEF IInv, Edges
<1> QED
  BY <1>3, <1>4, <1>6, <1>7, <1>9, <1>10 DEF IInv

\* No label changes: what the invariant says of the labels stays true.
LEMMA SameLabels ==
  ASSUME IInv, UNCHANGED <<program, kind>>
  PROVE  /\ (edges \subseteq Edges)'
         /\ (kind \in [Functions -> Kinds])'
         /\ LabelsFromEvidence'
         /\ PureIsLeast'
         /\ PureCallsPure'
         /\ Pure' = Pure
         /\ \A f : Settled(f)' = Settled(f)
<1>1. Pure' = Pure
  BY DEF Pure
<1>2. LabelsFromEvidence'
  BY ProgramStays DEF IInv, LabelsFromEvidence
<1>3. PureIsLeast'
  BY <1>1, ProgramStays DEF IInv, PureIsLeast
<1>4. \A f : Settled(f)' = Settled(f)
  BY ProgramStays DEF Settled
<1>5. PureCallsPure'
  BY <1>1, ProgramStays DEF IInv, PureCallsPure, CallsStayIn
<1>6. (edges \subseteq Edges)'
  BY ProgramStays DEF IInv, Edges
<1> QED
  BY <1>1, <1>2, <1>3, <1>4, <1>5, <1>6 DEF IInv

LEMMA NextIInv == IInv /\ [Next]_vars => IInv'
<1> SUFFICES ASSUME IInv, [Next]_vars PROVE IInv'
  OBVIOUS
<1>1. ASSUME NEW f \in Functions, Visit(f) PROVE IInv'
  <2>1. CASE ~Settled(f) /\ LocalCalls(f) \subseteq Pure
    BY <1>1, <2>1, PromotionKeepsIInv
  <2>2. CASE Settled(f) \/ ~(LocalCalls(f) \subseteq Pure)
    <3>1. UNCHANGED <<program, kind, changed, phase>> /\ pending' = pending \ {f}
      BY <1>1, <2>2 DEF Visit
    <3>2. phase = "propagating"
      BY <1>1 DEF Visit
    <3>3. VisitedStay'
      BY <2>2, <3>1, SameLabels, ProgramStays DEF IInv, VisitedStay
    <3>4. LastPassQuiet'
      BY <3>1, <3>2 DEF LastPassQuiet
    <3> QED
      BY <3>1, <3>3, <3>4, SameLabels DEF IInv
  <2> QED
    BY <2>1, <2>2
<1>2. CASE NextPass
  <2>1. UNCHANGED <<program, kind>>
    BY <1>2 DEF NextPass
  <2>2. VisitedStay' /\ LastPassQuiet'
    BY <1>2 DEF NextPass, VisitedStay, LastPassQuiet
  <2> QED
    BY <2>1, <2>2, SameLabels DEF IInv
<1>3. CASE Conclude
  <2>1. UNCHANGED <<program, kind, pending, changed>> /\ pending = {} /\ ~changed
    BY <1>3 DEF Conclude
  <2>2. VisitedStay' /\ LastPassQuiet'
    BY <2>1, SameLabels, ProgramStays DEF IInv, VisitedStay, LastPassQuiet
  <2> QED
    BY <2>1, <2>2, SameLabels DEF IInv
<1>4. CASE UNCHANGED vars
  <2>1. UNCHANGED <<program, kind, pending, changed, phase>>
    BY <1>4 DEF vars
  <2>2. VisitedStay' /\ LastPassQuiet'
    BY <2>1, SameLabels, ProgramStays DEF IInv, VisitedStay, LastPassQuiet
  <2> QED
    BY <2>1, <2>2, SameLabels DEF IInv
<1> QED
  BY <1>1, <1>2, <1>3, <1>4 DEF Next

\* At the end no rule applies any more.
LEMMA EndIsClosed == IInv => PurityIgnoresOrder
<1> SUFFICES ASSUME IInv PROVE PurityIgnoresOrder
  OBVIOUS
<1>1. ASSUME phase = "done", NEW f \in Functions, f \notin Pure
      PROVE  \/ DirectKind(f) = "edge"
             \/ DirectKind(f) = "unknown" /\ (ExternalCall(f) \/ ~(LocalCalls(f) \subseteq Pure))
  <2>1. kind[f] = DirectKind(f) /\ kind[f] # "pure"
    BY <1>1 DEF IInv, LabelsFromEvidence, Pure
  <2>2. Settled(f) \/ ~(LocalCalls(f) \subseteq Pure)
    BY <1>1 DEF IInv, LastPassQuiet, VisitedStay
  <2>3. DirectKind(f) \in {"edge", "unknown"}
    BY <2>1, DirectKindIsKind DEF Kinds
  <2> QED
    BY <2>1, <2>2, <2>3 DEF Settled, DirectEdge
<1>2. phase = "done" => Closed(Pure)
  BY <1>1 DEF Closed
<1> QED
  BY <1>2 DEF IInv, PureIsLeast, PurityIgnoresOrder

-----------------------------------------------------------------------------
(* Classifying and answering.                                              *)

\* Either a program is classified, or a request of the bound is answered.
LEMMA AnswersInitIInv == AnswersInit => IInv
  BY InitIInv, IdleIInv DEF AnswersInit, Classifying, Asking

LEMMA AnswersNextIInv ==
  IInv /\ [AnswersNext]_<<vars, request, answer>> => IInv'
<1>1. [AnswersNext]_<<vars, request, answer>> => [Next]_vars
  BY DEF AnswersNext, AnswerNext
<1> QED
  BY <1>1, NextIInv

LEMMA AnswersIInv == AnswersSpec => []IInv
  BY AnswersInitIInv, AnswersNextIInv, PTL DEF AnswersSpec

\* The labels of any program, whatever the functions, facts and edges, do not depend
\* on the order of the map (classifyFunctions).
THEOREM PurityIsTheLeastFixpoint == AnswersSpec => []PurityIgnoresOrder
  BY AnswersIInv, EndIsClosed, PTL

-----------------------------------------------------------------------------
(* What is inferred pure.                                                  *)

\* Calls lead from one function of the index to another.
LEMMA CalleesAreFunctions ==
  ASSUME edges \subseteq Edges, NEW g \in Functions
  PROVE  LocalCalls(g) \subseteq Functions
  BY DEF LocalCalls, Edges

\* Nobody who shows or may hide an effect becomes pure.
LEMMA SuspectsAreNotPure ==
  ASSUME LabelsFromEvidence, NEW g \in Pure
  PROVE  ~Suspect(g)
  BY DEF LabelsFromEvidence, Suspect, Pure, DirectKind, ExternalCall, Authored

\* A pure function reaches pure functions only.
LEMMA PureReachesPure ==
  ASSUME PureCallsPure, NEW f \in Pure
  PROVE  ReachedFrom(f) \subseteq Pure
<1>1. Pure \in SUBSET Functions
  BY DEF Pure
<1> QED
  BY <1>1 DEF PureCallsPure, ReachedFrom

\* What f reaches is a set that no call leads out of, and f lies in it.
LEMMA ReachedIsClosed ==
  ASSUME edges \subseteq Edges, NEW f \in Functions
  PROVE  f \in ReachedFrom(f) /\ CallsStayIn(ReachedFrom(f))
<1>1. f \in ReachedFrom(f)
  BY DEF ReachedFrom
<1>2. SUFFICES ASSUME NEW g \in ReachedFrom(f), documentation[g] # "pure",
                      NEW h \in LocalCalls(g)
               PROVE  h \in ReachedFrom(f)
  BY <1>1 DEF CallsStayIn
<1>3. g \in Functions /\ h \in Functions
  BY <1>2, CalleesAreFunctions DEF ReachedFrom
<1>4. ASSUME NEW T \in SUBSET Functions, f \in T, CallsStayIn(T) PROVE h \in T
  <2>1. g \in T
    BY <1>2, <1>4 DEF ReachedFrom
  <2> QED
    BY <1>2, <1>4, <2>1 DEF CallsStayIn
<1> QED
  BY <1>3, <1>4 DEF ReachedFrom

\* A function reaches what its callees reach, and itself, and nothing else.
LEMMA ReachedThroughCallee ==
  ASSUME edges \subseteq Edges, NEW f \in Functions, NEW g \in ReachedFrom(f), g # f
  PROVE  \E h \in LocalCalls(f) : g \in ReachedFrom(h)
<1> DEFINE T == {f} \cup UNION {ReachedFrom(h) : h \in LocalCalls(f)}
<1>1. \A h \in LocalCalls(f) : h \in Functions /\ h \in ReachedFrom(h) /\ CallsStayIn(ReachedFrom(h))
  BY CalleesAreFunctions, ReachedIsClosed
<1>2. T \in SUBSET Functions
  BY DEF ReachedFrom
<1>3. CallsStayIn(T)
  <2> SUFFICES ASSUME NEW x \in T, documentation[x] # "pure", NEW y \in LocalCalls(x)
               PROVE  y \in T
    BY DEF CallsStayIn
  <2>1. CASE x = f
    BY <1>1, <2>1
  <2>2. CASE x # f
    <3>1. PICK h \in LocalCalls(f) : x \in ReachedFrom(h)
      BY <2>2
    <3>2. y \in ReachedFrom(h)
      BY <1>1, <3>1 DEF CallsStayIn
    <3> QED
      BY <3>2
  <2> QED
    BY <2>1, <2>2
<1>4. g \in T
  BY <1>2, <1>3 DEF ReachedFrom
<1> QED
  BY <1>4

\* An author's word for purity ends the search.
LEMMA ReachEndsAtWord ==
  ASSUME NEW f \in Functions, documentation[f] = "pure"
  PROVE  ReachedFrom(f) = {f}
<1>1. {f} \in SUBSET Functions /\ CallsStayIn({f})
  BY DEF CallsStayIn
<1> QED
  BY <1>1 DEF ReachedFrom

\* What reaches a function on a call cycle is no part of the least set closed under the
\* rules: the other functions are closed without it.
LEMMA CyclesStayOut ==
  ASSUME edges \subseteq Edges, NEW g \in Functions, documentation[g] # "pure",
         NEW h \in LocalCalls(g), g \in ReachedFrom(h)
  PROVE  \E S \in SUBSET Functions : Closed(S) /\ g \notin S
<1> DEFINE C == {f \in Functions : documentation[f] # "pure" /\ g \in ReachedFrom(f)}
<1>1. ASSUME NEW f \in C PROVE \E x \in LocalCalls(f) : x \in C
  <2>1. PICK x \in LocalCalls(f) : g \in ReachedFrom(x)
    <3>1. CASE f = g
      BY <3>1
    <3>2. CASE f # g
      BY <1>1, <3>2, ReachedThroughCallee
    <3> QED
      BY <3>1, <3>2
  <2>2. x \in Functions
    BY <1>1, <2>1, CalleesAreFunctions
  <2>3. documentation[x] # "pure"
    BY <2>1, <2>2, ReachEndsAtWord
  <2> QED
    BY <2>1, <2>2, <2>3
<1>2. Closed(Functions \ C)
  <2> SUFFICES ASSUME NEW f \in C
               PROVE  \/ DirectKind(f) = "edge"
                      \/ DirectKind(f) = "unknown" /\ ~(LocalCalls(f) \subseteq Functions \ C)
    BY DEF Closed
  <2>1. DirectKind(f) \in {"edge", "unknown"}
    BY DEF DirectKind
  <2> QED
    BY <1>1, <2>1
<1>3. g \in C
  BY ReachedIsClosed
<1> QED
  BY <1>2, <1>3

\* A function that was inferred pure reaches no function with an effect, with code nobody
\* analyzed, or on a call cycle, whatever the program (classifyFunctions, classifyDirect).
THEOREM InferredPurityIsEarned == AnswersSpec => []InferredPureReachesNoEffect
<1>1. IInv => InferredPureReachesNoEffect
  <2> SUFFICES ASSUME IInv, NEW f \in Pure, NEW g \in ReachedFrom(f)
               PROVE  /\ ~Suspect(g)
                      /\ ~Authored(g) => \A h \in LocalCalls(g) : g \notin ReachedFrom(h)
    BY DEF InferredPureReachesNoEffect
  <2>1. g \in Pure /\ g \in Functions
    BY PureReachesPure DEF IInv, Pure
  <2>2. ~Suspect(g)
    BY <2>1, SuspectsAreNotPure DEF IInv
  <2>3. ASSUME ~Authored(g), NEW h \in LocalCalls(g), g \in ReachedFrom(h) PROVE FALSE
    <3>1. documentation[g] # "pure"
      BY <2>3 DEF Authored
    <3>2. PICK S \in SUBSET Functions : Closed(S) /\ g \notin S
      BY <2>1, <2>3, <3>1, CyclesStayOut DEF IInv
    <3> QED
      BY <2>1, <3>2 DEF IInv, PureIsLeast
  <2> QED
    BY <2>2, <2>3
<1> QED
  BY <1>1, AnswersIInv, PTL

-----------------------------------------------------------------------------
(* Requests and their answers.                                             *)

GraphAnswer(r) == Neighborhood(r.graph, IF r.http THEN Coerced(r.from) ELSE r.from)
ReviewAnswer(r) == ReviewOrder(r.graph, r.changed)
GoAnswer(r) == [f \in Symbols(r.load) |-> Reported(r.load, r.load.functions[f])]
JavaScriptAnswer(r) ==
    LET links == LinkModules(r.tree)
    IN  [bound |-> links.bound[r.caller.file],
         relationships |-> Relationships(r.tree, links, r.caller)]
ChangesAnswers(r) == CaptureGitSnapshot(RepositoryOf(r.edit), FunctionsOf(r.edit))
PageAnswers(r) == {PageOf(items, r.page, r.query) : items \in SearchSymbols(r.symbols, r.query, TRUE)}

\* An answer is computed from the request.
AnswerIsComputed ==
    /\ Answered("graph") => answer.value = GraphAnswer(request)
    /\ Answered("review") => answer.value = ReviewAnswer(request)
    /\ Answered("go") => answer.value = GoAnswer(request)
    /\ Answered("javascript") => answer.value = JavaScriptAnswer(request)
    /\ Answered("changes") => answer.value \in ChangesAnswers(request)
    /\ Answered("page") => answer.value \in PageAnswers(request)

RequestInv == WellFormed(request) /\ AnswerIsComputed

\* No request is answered at first, and what is asked comes from the bound.
LEMMA RequestInvInit == AnswersInit => RequestInv
<1> SUFFICES ASSUME AnswersInit PROVE RequestInv
  OBVIOUS
<1>1. ~answer.given
  BY DEF AnswersInit, None
<1>2. ASSUME request = Nothing PROVE WellFormed(request)
  BY <1>2 DEF Nothing, WellFormed
<1>3. ASSUME NEW requests \in RequestSets, request \in requests PROVE WellFormed(request)
  BY <1>3, RequestAssumption
<1>4. WellFormed(request)
  BY <1>2, <1>3 DEF AnswersInit, Classifying, Asking
<1> QED
  BY <1>1, <1>4 DEF RequestInv, AnswerIsComputed, Answered

\* A request stays, and only the action for its kind answers it.
LEMMA RequestInvNext == RequestInv /\ [AnswersNext]_<<vars, request, answer>> => RequestInv'
<1> SUFFICES ASSUME RequestInv, [AnswersNext]_<<vars, request, answer>>
             PROVE  RequestInv'
  OBVIOUS
<1>1. UNCHANGED request
  BY DEF AnswersNext, AnswerNext
<1>2. WellFormed(request)'
  BY <1>1 DEF RequestInv
<1>3. ASSUME UNCHANGED answer PROVE AnswerIsComputed'
  BY <1>1, <1>3 DEF RequestInv, AnswerIsComputed, Answered
<1>4. ASSUME AnswerGraph PROVE AnswerIsComputed'
  BY <1>1, <1>4 DEF AnswerGraph, Asked, Given, Answered, AnswerIsComputed, GraphAnswer
<1>5. ASSUME AnswerReview PROVE AnswerIsComputed'
  BY <1>1, <1>5 DEF AnswerReview, Asked, Given, Answered, AnswerIsComputed, ReviewAnswer
<1>6. ASSUME AnswerChanges PROVE AnswerIsComputed'
  BY <1>1, <1>6 DEF AnswerChanges, Asked, Given, Answered, AnswerIsComputed, ChangesAnswers
<1>7. ASSUME AnswerGo PROVE AnswerIsComputed'
  BY <1>1, <1>7 DEF AnswerGo, Asked, Given, Answered, AnswerIsComputed, GoAnswer
<1>8. ASSUME AnswerJavaScript PROVE AnswerIsComputed'
  BY <1>1, <1>8 DEF AnswerJavaScript, Asked, Given, Answered, AnswerIsComputed, JavaScriptAnswer
<1>9. ASSUME AnswerPage PROVE AnswerIsComputed'
  <2>1. PICK items \in SearchSymbols(request.symbols, request.query, TRUE) :
           answer' = Given(PageOf(items, request.page, request.query))
    BY <1>9 DEF AnswerPage
  <2>2. answer'.value = PageOf(items, request.page, request.query)
    BY <2>1 DEF Given
  <2>3. answer'.value \in PageAnswers(request)
    BY <2>2 DEF PageAnswers
  <2>4. request.ask = "page"
    BY <1>9 DEF AnswerPage, Asked
  <2> QED
    BY <1>1, <2>3, <2>4 DEF Answered, AnswerIsComputed
<1>10. ASSUME StartExplorer \/ FetchPage \/ ListFiles PROVE AnswerIsComputed'
  <2>1. request.ask = "explorer"
    <3>1. FetchPage => Collecting
      BY Zenon DEF FetchPage
    <3> QED
      BY <1>10, <3>1 DEF StartExplorer, ListFiles, Collecting, Asked
  <2> QED
    BY <1>1, <2>1 DEF Answered, AnswerIsComputed
<1>11. AnswerIsComputed'
  BY <1>3, <1>4, <1>5, <1>6, <1>7, <1>8, <1>9, <1>10 DEF AnswersNext, AnswerNext
<1> QED
  BY <1>2, <1>11 DEF RequestInv

\* Every answer is computed from a well-formed request.
LEMMA RequestInvAlways == AnswersSpec => []RequestInv
  BY RequestInvInit, RequestInvNext, PTL DEF AnswersSpec

-----------------------------------------------------------------------------
(* Neighborhoods.                                                          *)

\* The levels of Focus are what the turns of its loop make of the root.
LEMMA LevelsUnfold ==
  ASSUME NEW graph, NEW asked, GraphType(graph), asked.depth \in Nat,
         asked.root \in graph.functions
  PROVE  /\ Levels(graph, asked) \in
              [0..asked.depth -> [selected : SUBSET graph.functions, frontier : SUBSET graph.functions]]
         /\ Levels(graph, asked)[0] = [selected |-> {asked.root}, frontier |-> {asked.root}]
         /\ \A n \in 1..asked.depth :
               Levels(graph, asked)[n] = Expanded(graph, asked, Levels(graph, asked)[n - 1])
<1> DEFINE d == asked.depth
           S == [selected : SUBSET graph.functions, frontier : SUBSET graph.functions]
           base == [selected |-> {asked.root}, frontier |-> {asked.root}]
           step == [n \in 1..d |-> [level \in S |-> Expanded(graph, asked, level)]]
<1>1. base \in S
  OBVIOUS
<1>2. ASSUME NEW level \in S PROVE Expanded(graph, asked, level) \in S
  <2>1. \A id, e : e \in graph.edges => OtherEnd(e, id) \in graph.functions
    BY DEF GraphType, OtherEnd
  <2> QED
    BY <2>1 DEF Expanded, CandidateEdges
<1>3. step \in [1..d -> [S -> S]]
  BY <1>2
<1> HIDE DEF step, base, S, d
<1>4. PICK L \in [0..d -> S] : Recursive(L, d, base, step)
  BY <1>1, <1>3, RecursionExists DEF d
<1>5. \A x \in S : Expanded(graph, asked, x) \in S
  BY <1>2
<1>6. \A n \in 1..d : \A x \in S : step[n][x] = Expanded(graph, asked, x)
  BY DEF step
<1>7. L = [n \in 0..d |-> IF n = 0 THEN base ELSE Expanded(graph, asked, L[n - 1])]
  <2>1. \A n \in 0..d : n # 0 => n \in 1..d /\ L[n - 1] \in S
    BY <1>4 DEF d
  <2>2. \A n \in 0..d : (IF n = 0 THEN base ELSE step[n][L[n - 1]])
                        = (IF n = 0 THEN base ELSE Expanded(graph, asked, L[n - 1]))
    BY <1>6, <2>1
  <2> QED
    BY <1>4, <2>2 DEF Recursive
<1> DEFINE F == Levels(graph, asked)
<1>8. F = [n \in 0..d |-> IF n = 0 THEN base ELSE Expanded(graph, asked, F[n - 1])]
  BY <1>7 DEF Levels, base, d
<1> HIDE DEF F
<1>9. DOMAIN F = 0..d /\ F[0] = base /\ \A n \in 1..d : F[n] = Expanded(graph, asked, F[n - 1])
  <2>1. 0 \in 0..d /\ \A n \in 1..d : n \in 0..d /\ n # 0
    BY DEF d
  <2> QED
    BY <1>8, <2>1
<1> DEFINE P == {n \in 0..d : F[n] \in S}
<1>10. 0..d \subseteq P
  <2>1. 0 \in P
    BY <1>1, <1>9 DEF d
  <2>2. \A n \in 1..d : n - 1 \in P => n \in P
    BY <1>5, <1>9 DEF d
  <2> HIDE DEF P
  <2> QED
    BY <2>1, <2>2, BoundedInduction DEF d
<1>11. F \in [0..d -> S]
  BY <1>8, <1>10
<1> QED
  BY <1>9, <1>11 DEF d, base, S, F

Balls(graph, asked, d, ball) ==
    /\ ball \in [0..d -> SUBSET graph.functions]
    /\ ball[0] = {asked.root}
    /\ \A n \in 1..d : ball[n] = Nearby(graph, asked, ball[n - 1])

\* The balls around the root are what one step after the other makes of it.
LEMMA BallsUnfold ==
  ASSUME NEW graph, NEW asked, NEW d \in Nat, asked.root \in graph.functions
  PROVE  \E ball : Balls(graph, asked, d, ball) /\ Within(graph, asked, d) = ball[d]
<1> DEFINE S == SUBSET graph.functions
           base == {asked.root}
           step == [n \in 1..d |-> [x \in S |-> Nearby(graph, asked, x)]]
<1>1. \A x : Nearby(graph, asked, x) \in S
  BY DEF Nearby
<1>2. base \in S /\ step \in [1..d -> [S -> S]]
  BY <1>1
<1>3. \A n \in 1..d : \A x \in S : step[n][x] = Nearby(graph, asked, x)
  OBVIOUS
<1> HIDE DEF S, base, step
<1>4. PICK L \in [0..d -> S] : Recursive(L, d, base, step)
  BY <1>2, RecursionExists
<1>5. L = [n \in 0..d |-> IF n = 0 THEN base ELSE Nearby(graph, asked, L[n - 1])]
  <2>1. \A n \in 0..d : n # 0 => n \in 1..d /\ L[n - 1] \in S
    BY <1>4
  <2>2. \A n \in 0..d : (IF n = 0 THEN base ELSE step[n][L[n - 1]])
                        = (IF n = 0 THEN base ELSE Nearby(graph, asked, L[n - 1]))
    BY <1>3, <2>1
  <2> QED
    BY <1>4, <2>2 DEF Recursive
<1> DEFINE B == CHOOSE M : M = [n \in 0..d |-> IF n = 0 THEN base ELSE Nearby(graph, asked, M[n - 1])]
<1>6. B = [n \in 0..d |-> IF n = 0 THEN base ELSE Nearby(graph, asked, B[n - 1])]
  BY <1>5
<1>7. Within(graph, asked, d) = B[d]
  BY DEF Within, base
<1> HIDE DEF B
<1>8. B[0] = base /\ \A n \in 1..d : B[n] = Nearby(graph, asked, B[n - 1])
  <2>1. 0 \in 0..d /\ \A n \in 1..d : n \in 0..d /\ n # 0
    OBVIOUS
  <2> QED
    BY <1>6, <2>1
<1>9. B \in [0..d -> S]
  <2>1. \A n \in 0..d : B[n] \in S
    BY <1>1, <1>2, <1>6
  <2> QED
    BY <1>6, <2>1
<1> QED
  BY <1>7, <1>8, <1>9 DEF S, base, Balls

\* The neighbors of a function in a direction are what is linked to it.
LEMMA NeighborsAreLinked ==
  ASSUME NEW graph, NEW asked, GraphType(graph),
         asked.direction \in {"upstream", "downstream", "both"},
         NEW u \in graph.functions, NEW v \in graph.functions
  PROVE  (\E e \in CandidateEdges(graph, asked.direction, u) : v = OtherEnd(e, u))
            <=> Linked(graph, asked, u, v)
<1>1. \A e \in graph.edges : e = <<e[1], e[2]>>
  BY DEF GraphType
<1>2. ASSUME NEW e \in CandidateEdges(graph, asked.direction, u), v = OtherEnd(e, u)
      PROVE  Linked(graph, asked, u, v)
  BY <1>1, <1>2 DEF CandidateEdges, OtherEnd, Linked
<1>3. ASSUME asked.direction # "upstream", <<u, v>> \in graph.edges
      PROVE  \E e \in CandidateEdges(graph, asked.direction, u) : v = OtherEnd(e, u)
  <2>1. <<u, v>> \in CandidateEdges(graph, asked.direction, u) /\ v = OtherEnd(<<u, v>>, u)
    BY <1>3 DEF CandidateEdges, OtherEnd
  <2> QED
    BY <2>1
<1>4. ASSUME asked.direction \in {"upstream", "both"}, <<v, u>> \in graph.edges
      PROVE  \E e \in CandidateEdges(graph, asked.direction, u) : v = OtherEnd(e, u)
  <2>1. <<v, u>> \in CandidateEdges(graph, asked.direction, u) /\ v = OtherEnd(<<v, u>>, u)
    BY <1>4 DEF CandidateEdges, OtherEnd
  <2> QED
    BY <2>1
<1> QED
  BY <1>2, <1>3, <1>4 DEF Linked

\* What Focus has selected after a number of levels is what is that near to the root: the
\* loop looks at the neighbors of the frontier only, those of the rest are selected.
LEMMA FocusSelectsBall ==
  ASSUME NEW graph, NEW asked, GraphType(graph), asked.depth \in Nat,
         asked.direction \in {"upstream", "downstream", "both"},
         asked.root \in graph.functions
  PROVE  Levels(graph, asked)[asked.depth].selected = Within(graph, asked, asked.depth)
<1> DEFINE d == asked.depth
           V == graph.functions
           F == Levels(graph, asked)
<1>0. PICK ball : Balls(graph, asked, d, ball) /\ Within(graph, asked, d) = ball[d]
  BY BallsUnfold
<1>1. /\ ball \in [0..d -> SUBSET V]
      /\ ball[0] = {asked.root}
      /\ \A n \in 1..d : ball[n] = Nearby(graph, asked, ball[n - 1])
  BY <1>0 DEF Balls
<1>2. /\ F \in [0..d -> [selected : SUBSET V, frontier : SUBSET V]]
      /\ F[0] = [selected |-> {asked.root}, frontier |-> {asked.root}]
      /\ \A n \in 1..d : F[n] = Expanded(graph, asked, F[n - 1])
  BY LevelsUnfold
<1> HIDE DEF F
<1> DEFINE Hidden == IF asked.tests THEN {} ELSE graph.tests
           Step(S) == {v \in V : \E u \in S : Linked(graph, asked, u, v)} \ Hidden
<1>3. ASSUME NEW x \in [selected : SUBSET V, frontier : SUBSET V]
      PROVE  /\ Expanded(graph, asked, x).frontier = Step(x.frontier) \ x.selected
             /\ Expanded(graph, asked, x).selected = x.selected \cup (Step(x.frontier) \ x.selected)
  <2> DEFINE next == (UNION {{OtherEnd(e, id) : e \in CandidateEdges(graph, asked.direction, id)} :
                                id \in x.frontier}) \ (Hidden \cup x.selected)
  <2>1. \A id, e : e \in graph.edges => OtherEnd(e, id) \in V
    BY DEF GraphType, OtherEnd
  <2>2. \A v : v \in next <=> v \in Step(x.frontier) \ x.selected
    BY <2>1, NeighborsAreLinked DEF CandidateEdges
  <2>3. next = Step(x.frontier) \ x.selected
    BY <2>2
  <2> HIDE DEF Step
  <2> QED
    BY <2>3 DEF Expanded
<1>4. \A S \in SUBSET V : Nearby(graph, asked, S) = S \cup Step(S)
  BY DEF Nearby, GraphType
<1>5. Step({}) = {} /\ \A A, B : Step(A \cup B) = Step(A) \cup Step(B)
  OBVIOUS
<1> HIDE DEF Step
<1> DEFINE P == {n \in 0..d : /\ F[n].selected = ball[n]
                              /\ F[n].frontier \subseteq F[n].selected
                              /\ Step(F[n].selected \ F[n].frontier) \subseteq F[n].selected}
<1>6. 0..d \subseteq P
  <2>1. 0 \in P
    <3>1. F[0].selected = {asked.root} /\ F[0].frontier = {asked.root} /\ 0 \in 0..d
      BY <1>2
    <3>2. F[0].selected \ F[0].frontier = {}
      BY <3>1
    <3> QED
      BY <1>1, <1>5, <3>1, <3>2
  <2>2. ASSUME NEW n \in 1..d, n - 1 \in P PROVE n \in P
    <3>1. n - 1 \in 0..d /\ n \in 0..d
      OBVIOUS
    <3>2. PICK x \in [selected : SUBSET V, frontier : SUBSET V] : x = F[n - 1]
      BY <1>2, <3>1
    <3>3. /\ x.selected = ball[n - 1]
          /\ x.frontier \subseteq x.selected
          /\ Step(x.selected \ x.frontier) \subseteq x.selected
      BY <2>2, <3>2
    <3>4. /\ F[n].frontier = Step(x.frontier) \ x.selected
          /\ F[n].selected = x.selected \cup (Step(x.frontier) \ x.selected)
      BY <1>2, <1>3, <3>2
    <3>5. ball[n] = x.selected \cup Step(x.selected)
      BY <1>1, <1>4, <3>1, <3>3
    <3>6. Step(x.selected) = Step(x.selected \ x.frontier) \cup Step(x.frontier)
      <4>1. x.selected = (x.selected \ x.frontier) \cup x.frontier
        BY <3>3
      <4> QED
        BY <1>5, <4>1
    <3>7. F[n].selected = ball[n]
      BY <3>3, <3>4, <3>5, <3>6
    <3>8. F[n].selected \ F[n].frontier = x.selected
      BY <3>4
    <3>9. Step(x.selected) \subseteq F[n].selected
      BY <3>3, <3>4, <3>6
    <3> QED
      BY <3>1, <3>4, <3>7, <3>8, <3>9
  <2> HIDE DEF P
  <2> QED
    BY <2>1, <2>2, BoundedInduction
<1>7. d \in P
  <2>1. d \in 0..d
    OBVIOUS
  <2> HIDE DEF P
  <2> QED
    BY <1>6, <2>1
<1> QED
  BY <1>0, <1>7 DEF F

\* Coercion leaves a request the protocol accepts.
LEMMA CoercedRequest ==
  ASSUME NEW from, NeighborhoodRequest(from)
  PROVE  /\ NeighborhoodRequest(Coerced(from))
         /\ Coerced(from).root = from.root
         /\ Coerced(from).tests = from.tests
         /\ Coerced(from).depth = (IF from.depth < 0 THEN 0
                                   ELSE IF from.depth > MaxGraphDepth THEN MaxGraphDepth ELSE from.depth)
         /\ Coerced(from).direction = (IF from.direction \in {"upstream", "both"} THEN from.direction ELSE "downstream")
<1> DEFINE depth == IF from.depth < 0 THEN 0 ELSE IF from.depth > MaxGraphDepth THEN MaxGraphDepth ELSE from.depth
           direction == IF from.direction \in {"upstream", "both"} THEN from.direction ELSE "downstream"
<1>1. Coerced(from) = [from EXCEPT !.depth = depth, !.direction = direction]
  BY DEF Coerced
<1>2. depth \in Int
  BY DEF NeighborhoodRequest, MaxGraphDepth
<1> HIDE DEF depth, direction
<1>4. /\ NeighborhoodRequest(Coerced(from))
         /\ Coerced(from).root = from.root
         /\ Coerced(from).tests = from.tests
         /\ Coerced(from).depth = depth
         /\ Coerced(from).direction = direction
  <2> DEFINE n == [root |-> from.root, direction |-> direction, depth |-> depth, tests |-> from.tests]
  <2>1. Coerced(from) = n
    BY <1>1 DEF NeighborhoodRequest
  <2>2. NeighborhoodRequest(n)
    BY <1>2 DEF NeighborhoodRequest
  <2> QED
    BY <2>1, <2>2
<1> QED
  BY <1>4 DEF depth, direction

\* The adapter reads a direction it does not know as the search for neighbors does.
LEMMA CoercedWithin ==
  ASSUME NEW graph, NEW from, NeighborhoodRequest(from), NEW d \in Nat, from.root \in graph.functions
  PROVE  Within(graph, Coerced(from), d) = Within(graph, from, d)
<1> DEFINE c == Coerced(from)
<1>1. /\ c.root = from.root /\ c.tests = from.tests
      /\ c.direction # "upstream" <=> from.direction # "upstream"
      /\ c.direction \in {"upstream", "both"} <=> from.direction \in {"upstream", "both"}
  BY DEF Coerced, NeighborhoodRequest
<1> HIDE DEF c
<1>2. \A S : Nearby(graph, c, S) = Nearby(graph, from, S)
  BY <1>1 DEF Nearby, Linked
<1>3. PICK a : Balls(graph, c, d, a) /\ Within(graph, c, d) = a[d]
  BY <1>1, BallsUnfold
<1>4. PICK b : Balls(graph, from, d, b) /\ Within(graph, from, d) = b[d]
  BY BallsUnfold
<1> DEFINE P == {n \in 0..d : a[n] = b[n]}
<1>5. 0 \in P /\ \A n \in 1..d : n - 1 \in P => n \in P
  <2>1. a[0] = b[0]
    BY <1>1, <1>3, <1>4 DEF Balls
  <2>2. \A n \in 1..d : a[n] = Nearby(graph, c, a[n - 1]) /\ b[n] = Nearby(graph, from, b[n - 1])
    BY <1>3, <1>4 DEF Balls
  <2>3. \A n \in 1..d : n \in 0..d
    OBVIOUS
  <2> QED
    BY <1>2, <2>1, <2>2, <2>3
<1> HIDE DEF P
<1>6. d \in P
  BY <1>5, BoundedInduction
<1> QED
  BY <1>3, <1>4, <1>6 DEF P, c

\* For any graph, root, depth and direction, what is shown is all and only what lies that
\* near to the root, with the edges among it, and what is refused is what the protocol
\* refuses (Focus, handleGraph, handleGraphNeighborhood).
THEOREM FocusShowsNeighborhoods == AnswersSpec => []FocusIsNeighborhood
<1>1. ASSUME RequestInv, Answered("graph") PROVE FocusIsNeighborhood
  <2> DEFINE graph == request.graph
             from == request.from
             asked == IF request.http THEN Coerced(from) ELSE from
             depth == IF from.depth < 0 THEN 0
                      ELSE IF from.depth > MaxGraphDepth THEN MaxGraphDepth ELSE from.depth
             shown == answer.value
             expected == Within(graph, from, depth)
             Clean == ~request.http => /\ from.depth = depth
                                       /\ from.direction \in {"upstream", "downstream", "both"}
  <2>1. /\ GraphType(graph) /\ NeighborhoodRequest(from) /\ request.http \in BOOLEAN
        /\ shown = Neighborhood(graph, asked)
    BY <1>1 DEF RequestInv, WellFormed, AnswerIsComputed, Answered, GraphAnswer
  <2>2. /\ NeighborhoodRequest(asked)
        /\ asked.root = from.root
        /\ Accepted(asked) <=> Clean
        /\ Accepted(asked) => asked.depth = depth /\ depth \in Nat
        /\ Accepted(asked) => asked.direction \in {"upstream", "downstream", "both"}
    <3>1. /\ Coerced(from).root = from.root /\ Coerced(from).tests = from.tests
          /\ Coerced(from).depth = depth
          /\ Coerced(from).direction \in {"upstream", "downstream", "both"}
          /\ NeighborhoodRequest(Coerced(from))
      BY <2>1, CoercedRequest
    <3>2. depth \in 0..MaxGraphDepth /\ (from.depth = depth <=> from.depth \in 0..MaxGraphDepth)
      BY <2>1 DEF NeighborhoodRequest, MaxGraphDepth
    <3> HIDE DEF depth
    <3> QED
      BY <2>1, <3>1, <3>2 DEF Accepted, MaxGraphDepth
  <2>3. Accepted(asked) /\ from.root \in graph.functions => Within(graph, asked, depth) = expected
    BY <2>1, <2>2, CoercedWithin
  <2> HIDE DEF graph, from, asked, depth, shown, expected, Clean
  <2>4. ASSUME Accepted(asked), from.root \in graph.functions
        PROVE  shown = Induced(graph, expected)
    <3>1. Levels(graph, asked)[asked.depth].selected = expected
      BY <2>1, <2>2, <2>3, <2>4, FocusSelectsBall
    <3> QED
      BY <2>1, <2>2, <2>4, <3>1 DEF Neighborhood, Focus
  <2>5. ASSUME ~Accepted(asked) \/ from.root \notin graph.functions
        PROVE  shown.error = (IF Accepted(asked) THEN "symbolNotFound" ELSE "invalidParams")
    BY <2>1, <2>2, <2>5 DEF Neighborhood, Refused
  <2>6. ASSUME NEW nodes PROVE /\ Induced(graph, nodes).error = "none"
                               /\ Induced(graph, nodes).nodes = nodes
                               /\ Induced(graph, nodes).edges = graph.edges \cap (nodes \X nodes)
    <3>1. \A e \in graph.edges : e = <<e[1], e[2]>>
      BY <2>1 DEF GraphType
    <3> QED
      BY <3>1 DEF Induced
  <2>7. /\ shown.error = "none" <=> from.root \in graph.functions /\ Clean
        /\ shown.error = "symbolNotFound" => from.root \notin graph.functions
        /\ shown.error = "none" => /\ shown.nodes = expected
                                   /\ shown.edges = graph.edges \cap (expected \X expected)
    BY <2>2, <2>4, <2>5, <2>6
  <2> QED
    BY <2>7 DEF FocusIsNeighborhood, graph, from, depth, shown, expected, Clean
<1>2. RequestInv => FocusIsNeighborhood
  BY <1>1 DEF FocusIsNeighborhood
<1> QED
  BY <1>2, RequestInvAlways, PTL

-----------------------------------------------------------------------------
(* Pages.                                                                  *)

Sorted(symbols, query) == SearchSymbols(symbols, query, TRUE)
Found(symbols, query) == Matches(symbols, query, TRUE)

\* A search returns what it finds, each once, in some order.
LEMMA SortedIsEnumeration ==
  ASSUME NEW symbols, SymbolType(symbols), NEW query, NEW q \in Sorted(symbols, query)
  PROVE  LET N == Cardinality(Found(symbols, query))
         IN  /\ N \in Nat
             /\ q \in [1..N -> Found(symbols, query)]
             /\ q \in Seq(Found(symbols, query))
             /\ Len(q) = N
             /\ \A i, j \in 1..N : i # j => q[i] # q[j]
             /\ \A i, j \in 1..N : i < j => ~BySymbol(q[j], q[i])
             /\ \A x \in Found(symbols, query) : \E i \in 1..N : q[i] = x
<1> DEFINE S == Found(symbols, query)
           N == Cardinality(S)
<1>1. S \subseteq symbols
  BY DEF Found, Matches
<1>2. IsFiniteSet(S) /\ N \in Nat
  <2> HIDE DEF S
  <2> QED
    BY <1>1, FS_Subset, FS_CardinalityType DEF SymbolType
<1>3. /\ q \in [1..N -> S]
      /\ \A i, j \in 1..N : i # j => q[i] # q[j]
      /\ \A i, j \in 1..N : i < j => ~BySymbol(q[j], q[i])
  BY DEF Sorted, SearchSymbols, SortedBy, SetToSeqs, Found
<1> HIDE DEF S
<1>4. \A x \in S : \E i \in 1..N : q[i] = x
  BY <1>2, <1>3, EnumerationIsOnto
<1>5. q \in Seq(S) /\ Len(q) = N
  BY <1>2, <1>3
<1> QED
  BY <1>2, <1>3, <1>4, <1>5 DEF S

\* Names and ids leave no choice: whatever order the map has, the sort ends in one sequence.
LEMMA SortedIsUnique ==
  ASSUME NEW symbols, SymbolType(symbols), NEW query,
         NEW q \in Sorted(symbols, query), NEW r \in Sorted(symbols, query)
  PROVE  q = r
<1> DEFINE S == Found(symbols, query)
           N == Cardinality(S)
<1>1. /\ N \in Nat
      /\ q \in [1..N -> S] /\ r \in [1..N -> S]
      /\ \A i, j \in 1..N : i # j => q[i] # q[j]
      /\ \A i, j \in 1..N : i # j => r[i] # r[j]
      /\ \A i, j \in 1..N : i < j => ~BySymbol(q[j], q[i])
      /\ \A i, j \in 1..N : i < j => ~BySymbol(r[j], r[i])
      /\ \A x \in S : \E i \in 1..N : q[i] = x
      /\ \A x \in S : \E i \in 1..N : r[i] = x
  BY SortedIsEnumeration
<1>2. \A x, y \in S : ~BySymbol(x, y) /\ ~BySymbol(y, x) => x = y
  <2>1. S \subseteq symbols
    BY DEF Found, Matches
  <2> HIDE DEF S
  <2> QED
    BY <2>1 DEF SymbolType, BySymbol
<1> HIDE DEF S, N
<1> DEFINE Apart == {i \in 1..N : q[i] # r[i]}
<1>3. SUFFICES ASSUME Apart # {} PROVE FALSE
  <2>1. ASSUME \A i \in 1..N : q[i] = r[i] PROVE q = r
    <3>1. q = [i \in 1..N |-> q[i]] /\ r = [i \in 1..N |-> r[i]]
      BY <1>1
    <3> QED
      BY <2>1, <3>1
  <2> QED
    BY <2>1
<1>4. PICK i \in Apart : \A j \in Apart : i <= j
  <2>1. Apart \in SUBSET Nat
    BY <1>1
  <2> HIDE DEF Apart
  <2> QED
    BY <1>3, <2>1, LeastNatural
<1>5. i \in 1..N /\ q[i] # r[i] /\ q[i] \in S /\ r[i] \in S
  BY <1>1, <1>4
<1>6. \A j \in 1..N : j < i => q[j] = r[j]
  BY <1>1, <1>4
<1>7. PICK j \in 1..N : r[j] = q[i]
  BY <1>1, <1>5
<1>8. PICK k \in 1..N : q[k] = r[i]
  BY <1>1, <1>5
<1>9. j > i
  <2>1. j # i
    BY <1>5, <1>7
  <2>2. ~(j < i)
    <3> SUFFICES ASSUME j < i PROVE FALSE
      OBVIOUS
    <3>1. q[j] = q[i] /\ j # i
      BY <1>1, <1>5, <1>6, <1>7
    <3> QED
      BY <1>1, <1>5, <3>1
  <2> QED
    BY <1>1, <1>5, <2>1, <2>2
<1>10. k > i
  <2>1. k # i
    BY <1>5, <1>8
  <2>2. ~(k < i)
    <3> SUFFICES ASSUME k < i PROVE FALSE
      OBVIOUS
    <3>1. r[k] = r[i] /\ k # i
      BY <1>1, <1>5, <1>6, <1>8
    <3> QED
      BY <1>1, <1>5, <3>1
  <2> QED
    BY <1>1, <1>5, <2>1, <2>2
<1>11. ~BySymbol(q[i], r[i])
  BY <1>1, <1>5, <1>7, <1>9
<1>12. ~BySymbol(r[i], q[i])
  BY <1>1, <1>5, <1>8, <1>10
<1> QED
  BY <1>2, <1>5, <1>11, <1>12

\* A page that is not refused: at most a limit of items, from the offset of the cursor
\* on, and a cursor behind them as long as something is left.
PageIsCut(items, page, binding) ==
    LET limit == IF page.limit = 0 THEN DefaultPageLimit ELSE page.limit
        offset == page.cursor.offset
        end == IF offset + limit <= Len(items) THEN offset + limit ELSE Len(items)
        served == PageOf(items, page, binding)
        Fine == ValidLimit(page) /\ ValidCursor(page, binding, Len(items))
    IN  /\ served.error = "none" <=> Fine
        /\ Fine =>
             /\ limit \in 1..MaxPageLimit
             /\ offset \in 0..Len(items)
             /\ offset <= end /\ end <= Len(items) /\ end \in Nat
             /\ served.items = SubSeq(items, offset + 1, end)
             /\ Len(served.items) = end - offset
             /\ served.next = (IF end < Len(items) THEN [offset |-> end, binding |-> binding] ELSE NoCursor)
             /\ end < Len(items) => end = offset + limit /\ served.next # NoCursor

\* A page is a run of the items from its offset, and leads to the next unless it is the last.
LEMMA PageProperties ==
  ASSUME NEW S, NEW items \in Seq(S), NEW page, NEW binding \in Nat,
         page.limit \in Int, page.cursor \in [offset : Int, binding : Int]
  PROVE  PageIsCut(items, page, binding)
<1> DEFINE limit == IF page.limit = 0 THEN DefaultPageLimit ELSE page.limit
           offset == page.cursor.offset
           end == IF offset + limit <= Len(items) THEN offset + limit ELSE Len(items)
           served == PageOf(items, page, binding)
           Fine == ValidLimit(page) /\ ValidCursor(page, binding, Len(items))
<1>1. Len(items) \in Nat /\ offset \in Int /\ limit \in Int
  BY PageLimitAssumption
<1>2. Min({offset + limit, Len(items)}) = end
  <2>1. \A x, y \in Int : Min({x, y}) = IF x <= y THEN x ELSE y
    BY DEF Min
  <2> QED
    BY <1>1, <2>1
<1>3. served = (IF ~Fine THEN [error |-> "invalidParams", items |-> <<>>, next |-> NoCursor]
                ELSE [error |-> "none",
                      items |-> SubSeq(items, offset + 1, end),
                      next |-> IF end < Len(items) THEN [offset |-> end, binding |-> binding] ELSE NoCursor])
  BY <1>2 DEF PageOf
<1>4. Fine => limit \in 1..MaxPageLimit /\ offset \in 0..Len(items)
  BY <1>1, PageLimitAssumption DEF ValidLimit, ValidCursor, NoCursor
<1>5. Fine => offset <= end /\ end <= Len(items) /\ end \in Nat
  BY <1>1, <1>4
<1>6. \A n : [offset |-> n, binding |-> binding] # NoCursor
  BY DEF NoCursor
<1> HIDE DEF Fine, served, limit, offset
<1>7. Fine => Len(SubSeq(items, offset + 1, end)) = end - offset
  <2> SUFFICES ASSUME Fine PROVE Len(SubSeq(items, offset + 1, end)) = end - offset
    OBVIOUS
  <2>1. \A i \in (offset + 1)..end : items[i] \in S
    BY <1>1, <1>4, <1>5
  <2> HIDE DEF end
  <2> QED
    BY <1>1, <1>4, <1>5, <2>1, SubSeqProperties
<1>8. end < Len(items) => end = offset + limit
  BY <1>1
<1> HIDE DEF end
<1>9. served.error = "none" <=> Fine
  BY <1>3
<1>10. Fine => /\ served.items = SubSeq(items, offset + 1, end)
               /\ served.next = (IF end < Len(items) THEN [offset |-> end, binding |-> binding] ELSE NoCursor)
  BY <1>3
<1>11. Fine => Len(served.items) = end - offset
  BY <1>7, <1>10
<1>12. Fine /\ end < Len(items) => end = offset + limit /\ served.next # NoCursor
  BY <1>6, <1>8, <1>10
<1> QED
  BY <1>4, <1>5, <1>9, <1>10, <1>11, <1>12 DEF PageIsCut, Fine, served, limit, offset, end

Total(symbols) == Cardinality(Found(symbols, 0))

Collection(items, cursor, pages) ==
    [status |-> "collecting", items |-> items, cursor |-> cursor, pages |-> pages]

\* A page is fetched as long as the one before was full.
PagesWereFull(items, pages) ==
    \/ pages = 1
    \/ (pages - 1) * MaxPageLimit < Len(items)

\* What has been collected is the beginning of the sorted list, in full pages.
PartlyCollected(symbols, items, cursor, pages) ==
    /\ pages \in Nat
    /\ pages = 0 => items = <<>> /\ cursor = NoCursor
    /\ pages > 0 => /\ Len(items) \in 0..Total(symbols)
                    /\ \E q \in Sorted(symbols, 0) : items = SubSeq(q, 1, Len(items))
    /\ pages > 0 /\ cursor = NoCursor => Len(items) = Total(symbols) /\ PagesWereFull(items, pages)
    /\ cursor # NoCursor => /\ cursor = [offset |-> Len(items), binding |-> 0]
                            /\ Len(items) = pages * MaxPageLimit
                            /\ Len(items) < Total(symbols)

ProjectFilesOf(r) ==
    LET found == ListProjectFiles(r.tree, MaxExplorerFiles)
    IN  [paths     |-> IF r.tree.readable THEN found.paths ELSE {},
         truncated |-> r.tree.readable /\ found.truncated]

Listing(r, items, pages) ==
    LET found == ProjectFilesOf(r)
    IN  [status |-> "listed", items |-> items, pages |-> pages,
         files |-> FileListing(r.roots, found.paths, ToSet(items)),
         truncated |-> found.truncated]

ExplorerInv ==
    Answered("explorer") =>
        \/ \E items, cursor, pages :
              /\ answer.value = Collection(items, cursor, pages)
              /\ PartlyCollected(request.symbols, items, cursor, pages)
        \/ \E items, pages :
              /\ answer.value = Listing(request, items, pages)
              /\ items \in Sorted(request.symbols, 0)
              /\ PagesWereFull(items, pages)

\* One more page keeps what has been collected in order.
LEMMA NextPageIsNext ==
  ASSUME NEW symbols, SymbolType(symbols), NEW items, NEW cursor, NEW pages,
         PartlyCollected(symbols, items, cursor, pages), pages = 0 \/ cursor # NoCursor,
         NEW sorted \in Sorted(symbols, 0)
  PROVE  LET page == PageOf(sorted, [limit |-> MaxPageLimit, cursor |-> cursor], 0)
         IN  /\ page.error = "none"
             /\ PartlyCollected(symbols, items \o page.items, page.next, pages + 1)
<1> DEFINE S == Found(symbols, 0)
           N == Total(symbols)
           asked == [limit |-> MaxPageLimit, cursor |-> cursor]
           page == PageOf(sorted, asked, 0)
           limit == IF asked.limit = 0 THEN DefaultPageLimit ELSE asked.limit
           offset == asked.cursor.offset
           end == IF offset + limit <= Len(sorted) THEN offset + limit ELSE Len(sorted)
<1>1. N \in Nat /\ sorted \in Seq(S) /\ Len(sorted) = N
  BY SortedIsEnumeration DEF Total
<1>2. MaxPageLimit \in Nat /\ MaxPageLimit > 0 /\ pages \in Nat
  BY PageLimitAssumption DEF PartlyCollected
<1>3. limit = MaxPageLimit /\ asked.limit = MaxPageLimit /\ asked.cursor = cursor
  BY <1>2
<1>4. /\ cursor \in [offset : Int, binding : Int]
      /\ cursor = NoCursor \/ cursor.binding = 0
      /\ offset = Len(items) /\ Len(items) = pages * MaxPageLimit
      /\ Len(items) \in 0..N
      /\ items = SubSeq(sorted, 1, Len(items))
      /\ pages # 0 => Len(items) < N
  <2>1. CASE pages = 0
    <3>1. items = <<>> /\ cursor = NoCursor /\ Len(items) = 0
      BY <2>1 DEF PartlyCollected
    <3>2. SubSeq(sorted, 1, 0) = <<>>
      BY SubSeqEmpty
    <3> QED
      BY <1>1, <1>2, <1>3, <2>1, <3>1, <3>2 DEF NoCursor
  <2>2. CASE pages # 0
    <3>1. /\ cursor = [offset |-> Len(items), binding |-> 0]
          /\ Len(items) = pages * MaxPageLimit
          /\ Len(items) \in 0..N
          /\ Len(items) < N
      BY <1>2, <2>2 DEF PartlyCollected
    <3>2. PICK q \in Sorted(symbols, 0) : items = SubSeq(q, 1, Len(items))
      BY <1>2, <2>2 DEF PartlyCollected
    <3>3. q = sorted
      BY <3>2, SortedIsUnique
    <3> QED
      BY <1>1, <1>3, <3>1, <3>2, <3>3
  <2> QED
    BY <2>1, <2>2
<1>5. ValidLimit(asked) /\ ValidCursor(asked, 0, Len(sorted))
  BY <1>1, <1>2, <1>3, <1>4 DEF ValidLimit, ValidCursor
<1>6. /\ page.error = "none"
      /\ offset <= end /\ end <= N /\ end \in Nat
      /\ page.items = SubSeq(sorted, offset + 1, end)
      /\ page.next = (IF end < N THEN [offset |-> end, binding |-> 0] ELSE NoCursor)
      /\ end < N => end = offset + limit /\ page.next # NoCursor
  <2>1. asked.limit \in Int /\ asked.cursor \in [offset : Int, binding : Int]
    BY <1>2, <1>3, <1>4
  <2> HIDE DEF asked
  <2>2. /\ page.error = "none"
        /\ offset <= end /\ end <= Len(sorted) /\ end \in Nat
        /\ page.items = SubSeq(sorted, offset + 1, end)
        /\ page.next = (IF end < Len(sorted) THEN [offset |-> end, binding |-> 0] ELSE NoCursor)
        /\ end < Len(sorted) => end = offset + limit /\ page.next # NoCursor
    <3>1. PageIsCut(sorted, asked, 0)
      BY <1>1, <2>1, PageProperties
    <3> QED
      BY <1>5, <3>1 DEF PageIsCut
  <2> HIDE DEF page, offset, end, limit, N
  <2> QED
    BY <1>1, <2>2
<1> HIDE DEF page, limit, asked, N, S
<1>7. items \o page.items = SubSeq(sorted, 1, end) /\ Len(items \o page.items) = end
  <2>1. SubSeq(sorted, 1, offset) \o SubSeq(sorted, offset + 1, end) = SubSeq(sorted, 1, end)
    <3>1. 1 \in 1..(Len(sorted) + 1) /\ offset \in (1 - 1)..Len(sorted) /\ end \in offset..Len(sorted)
      BY <1>1, <1>4, <1>6
    <3> HIDE DEF offset, end
    <3> QED
      BY <1>1, <3>1, ConcatAdjacentSubSeq
  <2>2. \A i \in 1..end : sorted[i] \in S
    BY <1>1, <1>6
  <2>3. Len(SubSeq(sorted, 1, end)) = end
    <3> HIDE DEF end, offset
    <3>1. Len(SubSeq(sorted, 1, end)) = IF 1 <= end THEN end - 1 + 1 ELSE 0
      BY <1>6, <2>2, SubSeqProperties
    <3> QED
      BY <1>6, <3>1
  <2> QED
    BY <1>4, <1>6, <2>1, <2>3
<1> HIDE DEF end, offset
<1>8. (pages + 1) * MaxPageLimit = pages * MaxPageLimit + MaxPageLimit /\ (pages + 1) - 1 = pages
  BY <1>2
<1>9. end < N => end = (pages + 1) * MaxPageLimit
  BY <1>3, <1>4, <1>6, <1>8
<1>10. ~(end < N) => end = N /\ PagesWereFull(items \o page.items, pages + 1)
  <2> SUFFICES ASSUME ~(end < N) PROVE end = N /\ PagesWereFull(items \o page.items, pages + 1)
    OBVIOUS
  <2>1. end = N
    BY <1>1, <1>6
  <2>2. pages # 0 => (pages + 1 - 1) * MaxPageLimit < Len(items \o page.items)
    <3>1. pages + 1 - 1 = pages
      BY <1>2
    <3>2. (pages + 1 - 1) * MaxPageLimit = Len(items)
      BY <1>4, <3>1
    <3>3. Len(items \o page.items) = N
      BY <1>7, <2>1
    <3> QED
      BY <1>4, <3>2, <3>3
  <2> QED
    BY <1>2, <2>1, <2>2 DEF PagesWereFull
<1>11. pages + 1 \in Nat /\ pages + 1 > 0 /\ pages + 1 # 0
  BY <1>2
<1> DEFINE gathered == items \o page.items
<1>12. Len(gathered) = end /\ end \in 0..N /\ gathered = SubSeq(sorted, 1, Len(gathered))
  <2>1. gathered = SubSeq(sorted, 1, end) /\ Len(gathered) = end
    BY <1>7
  <2> HIDE DEF gathered
  <2> QED
    BY <1>1, <1>6, <2>1
<1> HIDE DEF gathered
<1>13. page.next = NoCursor => Len(gathered) = N /\ PagesWereFull(gathered, pages + 1)
  BY <1>6, <1>10, <1>12 DEF gathered
<1>14. page.next # NoCursor => /\ page.next = [offset |-> Len(gathered), binding |-> 0]
                               /\ Len(gathered) = (pages + 1) * MaxPageLimit
                               /\ Len(gathered) < N
  BY <1>6, <1>9, <1>12
<1>15. PartlyCollected(symbols, gathered, page.next, pages + 1)
  BY <1>11, <1>12, <1>13, <1>14 DEF PartlyCollected, N
<1> QED
  BY <1>6, <1>15 DEF page, asked, gathered

\* Each page that is fetched continues the one before.
LEMMA ExplorerInvNext ==
  RequestInv /\ ExplorerInv /\ [AnswersNext]_<<vars, request, answer>> => ExplorerInv'
<1> SUFFICES ASSUME RequestInv, ExplorerInv, [AnswersNext]_<<vars, request, answer>>, request.ask = "explorer"
             PROVE  ExplorerInv'
  BY DEF ExplorerInv, AnswersNext, AnswerNext, Answered
<1> DEFINE symbols == request.symbols
<1>1. UNCHANGED request /\ SymbolType(symbols)
  BY DEF AnswersNext, AnswerNext, RequestInv, WellFormed
<1>2. ASSUME UNCHANGED answer PROVE ExplorerInv'
  BY <1>1, <1>2 DEF ExplorerInv, Answered
<1>3. ASSUME StartExplorer PROVE ExplorerInv'
  <2>1. answer'.value = Collection(<<>>, NoCursor, 0)
    BY <1>3 DEF StartExplorer, Given, Collection
  <2>2. PartlyCollected(symbols, <<>>, NoCursor, 0)
    BY DEF PartlyCollected
  <2> QED
    BY <1>1, <2>1, <2>2 DEF ExplorerInv
<1>4. ASSUME Collecting
      PROVE  \E items, cursor, pages : /\ answer.value = Collection(items, cursor, pages)
                                       /\ PartlyCollected(symbols, items, cursor, pages)
  <2>1. \A items, pages : Listing(request, items, pages).status = "listed"
    BY DEF Listing
  <2>2. Answered("explorer") /\ answer.value.status = "collecting"
    BY <1>4 DEF Collecting, Answered
  <2> QED
    BY <2>1, <2>2 DEF ExplorerInv
<1>5. ASSUME FetchPage PROVE ExplorerInv'
  <2>1. Collecting
    BY <1>5 DEF FetchPage
  <2>2. PICK items, cursor, pages : /\ answer.value = Collection(items, cursor, pages)
                                    /\ PartlyCollected(symbols, items, cursor, pages)
    BY <1>4, <2>1
  <2>3. /\ answer.value.items = items /\ answer.value.cursor = cursor
        /\ answer.value.pages = pages
    BY <2>2 DEF Collection
  <2> DEFINE Page(sorted) == PageOf(sorted, [limit |-> MaxPageLimit, cursor |-> cursor], 0)
  <2>4. /\ pages = 0 \/ cursor # NoCursor
        /\ \E sorted \in Sorted(symbols, 0) :
             answer' = Given(IF Page(sorted).error # "none" THEN [answer.value EXCEPT !.status = "failed"]
                             ELSE [answer.value EXCEPT !.items = @ \o Page(sorted).items,
                                                       !.cursor = Page(sorted).next,
                                                       !.pages = @ + 1])
    BY <1>5, <2>3 DEF FetchPage, Sorted
  <2>5. PICK sorted \in Sorted(symbols, 0) :
          answer' = Given(IF Page(sorted).error # "none" THEN [answer.value EXCEPT !.status = "failed"]
                          ELSE [answer.value EXCEPT !.items = @ \o Page(sorted).items,
                                                    !.cursor = Page(sorted).next,
                                                    !.pages = @ + 1])
    BY <2>4
  <2> DEFINE page == Page(sorted)
  <2>6. /\ page.error = "none"
        /\ PartlyCollected(symbols, items \o page.items, page.next, pages + 1)
    BY <1>1, <2>2, <2>4, NextPageIsNext
  <2> HIDE DEF page
  <2>7. answer'.value = Collection(items \o page.items, page.next, pages + 1)
    <3>1. answer'.value = [answer.value EXCEPT !.items = @ \o page.items, !.cursor = page.next, !.pages = @ + 1]
      BY <2>5, <2>6 DEF Given, page
    <3>2. answer'.value = [Collection(items, cursor, pages) EXCEPT !.items = items \o page.items,
                                                                   !.cursor = page.next, !.pages = pages + 1]
      BY <2>2, <2>3, <3>1
    <3> DEFINE gathered == items \o page.items
               more == pages + 1
               next == page.next
    <3> HIDE DEF gathered, more, next
    <3>3. answer'.value = [Collection(items, cursor, pages) EXCEPT !.items = gathered, !.cursor = next, !.pages = more]
      BY <3>2 DEF gathered, more, next
    <3>4. answer'.value = Collection(gathered, next, more)
      BY <3>3 DEF Collection
    <3> QED
      BY <3>4 DEF gathered, more, next
  <2> QED
    BY <1>1, <2>6, <2>7 DEF ExplorerInv
<1>6. ASSUME ListFiles PROVE ExplorerInv'
  <2>1. Collecting
    BY <1>6 DEF ListFiles
  <2>2. PICK items, cursor, pages : /\ answer.value = Collection(items, cursor, pages)
                                    /\ PartlyCollected(symbols, items, cursor, pages)
    BY <1>4, <2>1
  <2>3. /\ answer.value.items = items /\ answer.value.cursor = cursor
        /\ answer.value.pages = pages
    BY <2>2 DEF Collection
  <2>4. pages > 0 /\ cursor = NoCursor
    BY <1>6, <2>3 DEF ListFiles
  <2>5. answer'.value = Listing(request, items, pages)
    BY <1>6, <2>3 DEF ListFiles, Given, Listing, ProjectFilesOf
  <2>6. PagesWereFull(items, pages) /\ Len(items) = Total(symbols)
    BY <2>2, <2>4 DEF PartlyCollected
  <2>7. PICK q \in Sorted(symbols, 0) : items = SubSeq(q, 1, Len(items))
    BY <2>2, <2>4 DEF PartlyCollected
  <2>8. items = q
    BY <1>1, <2>6, <2>7, SortedIsEnumeration, SubSeqFull DEF Total
  <2> QED
    BY <1>1, <2>5, <2>6, <2>8 DEF ExplorerInv
<1>7. StartExplorer \/ FetchPage \/ ListFiles \/ UNCHANGED answer
  BY DEF AnswersNext, AnswerNext, Asked, AnswerGraph, AnswerReview, AnswerChanges,
         AnswerGo, AnswerJavaScript, AnswerPage
<1> QED
  BY <1>2, <1>3, <1>5, <1>6, <1>7

\* A collection is made of whole pages of the symbols that are found.
LEMMA ExplorerInvAlways == AnswersSpec => []ExplorerInv
<1>1. AnswersInit => ExplorerInv
  BY DEF AnswersInit, None, ExplorerInv, Answered
<1> QED
  BY <1>1, ExplorerInvNext, RequestInvAlways, PTL DEF AnswersSpec

\* A search for all symbols finds every named one.
LEMMA EverySymbolIsFound ==
  ASSUME NEW symbols PROVE Found(symbols, 0) = {s \in symbols : ~s.anonymous}
  BY DEF Found, Matches

\* A path relative to the roots is empty if and only if no root is above it.
LEMMA RelativePath ==
  ASSUME NEW roots \in Seq(Seq(STRING)), NEW path \in Seq(STRING)
  PROVE  ProjectRelativePath(roots, path) = <<>>
            <=> ~(\E i \in DOMAIN roots : IsStrictPrefix(roots[i], path))
<1> DEFINE Containing == {i \in DOMAIN roots : IsStrictPrefix(roots[i], path)}
<1>1. DOMAIN roots = 1..Len(roots) /\ Len(roots) \in Nat /\ Len(path) \in Nat
  OBVIOUS
<1>2. CASE Containing = {}
  BY <1>2 DEF ProjectRelativePath
<1>3. CASE Containing # {}
  <2> DEFINE root == roots[Min(Containing)]
  <2>1. Containing \in SUBSET Nat
    BY <1>1
  <2>2. Min(Containing) \in Containing
    <3> HIDE DEF Containing
    <3> QED
      BY <1>3, <2>1, LeastNatural DEF Min
  <2>3. root \in Seq(STRING) /\ IsStrictPrefix(root, path)
    BY <1>1, <2>2
  <2> HIDE DEF root
  <2>4. Len(root) \in Nat /\ Len(root) < Len(path)
    <3>1. Len(root) <= Len(path) /\ SubSeq(root, 1, Len(root)) = SubSeq(path, 1, Len(root)) /\ root # path
      BY <2>3 DEF IsStrictPrefix, IsPrefix
    <3>2. SubSeq(root, 1, Len(root)) = root /\ SubSeq(path, 1, Len(path)) = path
      BY <2>3, SubSeqFull
    <3> QED
      BY <1>1, <2>3, <3>1, <3>2
  <2> DEFINE rest == SubSeq(path, Len(root) + 1, Len(path))
  <2>5. Len(rest) = Len(path) - (Len(root) + 1) + 1
    BY <1>1, <2>4, SubSeqProperties
  <2>6. rest # <<>>
    BY <1>1, <2>4, <2>5
  <2> QED
    BY <1>3, <2>6 DEF ProjectRelativePath, root
<1> QED
  BY <1>2, <1>3

\* A symbol of the listing stands under its own path and under no other, and a file
\* without symbols comes from the project.
EachUnderOne(roots, paths, shown, files) ==
    /\ paths \subseteq DOMAIN files
    /\ \A p \in DOMAIN files : files[p] = {} => p \in paths
    /\ \A s \in shown :
          Cardinality({p \in DOMAIN files : s.id \in files[p]})
             = (IF \E i \in DOMAIN roots : IsStrictPrefix(roots[i], s.path) THEN 1 ELSE 0)

\* An enumeration holds each element once.
LEMMA EachSymbolOnce ==
  ASSUME NEW roots \in Seq(Seq(STRING)), NEW paths, NEW symbols, SymbolType(symbols),
         NEW shown, shown \subseteq symbols
  PROVE  EachUnderOne(roots, paths, shown, FileListing(roots, paths, shown))
<1> DEFINE files == FileListing(roots, paths, shown)
           Place(s) == ProjectRelativePath(roots, s.path)
           Located == {s \in shown : Place(s) # <<>>}
           At(p) == {s.id : s \in {t \in Located : Place(t) = p}}
           Inside(s) == \E i \in DOMAIN roots : IsStrictPrefix(roots[i], s.path)
<1>1. files = [p \in paths \cup {Place(s) : s \in Located} |-> At(p)]
  BY DEF FileListing
<1>2. \A s \in shown : Inside(s) <=> Place(s) # <<>>
  BY RelativePath DEF SymbolType
<1> HIDE DEF files, Place, Inside
<1>3. DOMAIN files = paths \cup {Place(s) : s \in Located} /\ \A p \in DOMAIN files : files[p] = At(p)
  BY <1>1
<1>4. ASSUME NEW p \in DOMAIN files, files[p] = {} PROVE p \in paths
  <2>1. ASSUME NEW s \in Located, p = Place(s) PROVE s.id \in At(p)
    BY <2>1
  <2> QED
    BY <1>3, <1>4, <2>1
<1>5. ASSUME NEW s \in shown
      PROVE  Cardinality({p \in DOMAIN files : s.id \in files[p]}) = (IF Inside(s) THEN 1 ELSE 0)
  <2> DEFINE Under == {p \in DOMAIN files : s.id \in files[p]}
  <2>1. \A p : s.id \in At(p) <=> s \in Located /\ Place(s) = p
    BY DEF SymbolType
  <2>2. CASE Inside(s)
    <3>1. s \in Located /\ Place(s) \in DOMAIN files
      BY <1>2, <1>3, <2>2
    <3>2. Under = {Place(s)}
      BY <1>3, <2>1, <3>1
    <3> QED
      BY <2>2, <3>2, FS_Singleton
  <2>3. CASE ~Inside(s)
    <3>1. Under = {}
      BY <1>2, <1>3, <2>1, <2>3
    <3> QED
      BY <2>3, <3>1, FS_EmptySet
  <2> QED
    BY <2>2, <2>3
<1> QED
  BY <1>3, <1>4, <1>5 DEF EachUnderOne, files, Inside

\* The project lists files that exist, and all of them as long as it does not say that
\* there are more.
LEMMA ListedFilesExist ==
  ASSUME NEW tree, TreeType(tree), MaxExplorerFiles \in Nat
  PROVE  LET found == ListProjectFiles(tree, MaxExplorerFiles)
         IN  /\ found.paths \subseteq tree.present \ tree.deleted
             /\ ~found.truncated =>
                  IF tree.git THEN tree.listed \ tree.deleted \subseteq found.paths
                  ELSE {p \in tree.present : Len(p) = 1} \subseteq found.paths
<1> DEFINE max == MaxExplorerFiles
           walked == {p \in tree.present : \A i \in 1..(Len(p) - 1) : p[i] \notin tree.skipped}
           found == IF tree.git THEN GitProjectFiles(tree) ELSE WalkProjectFiles(tree, max)
<1>1. \A S, n, rank : First(S, n, rank) \subseteq S
  BY DEF First
<1>2. \A S, n, rank : IsFiniteSet(S) /\ n \in Nat /\ (\A p \in S : rank[p] \in Nat)
                        => First(S, n, rank) = S \/ Cardinality(First(S, n, rank)) >= n
  BY FirstOnes DEF First
<1>3. GitProjectFiles(tree) = tree.listed \ tree.deleted /\ WalkProjectFiles(tree, max) = First(walked, max + 1, tree.walkOrder)
  BY DEF GitProjectFiles, WalkProjectFiles
<1>4. IsFiniteSet(tree.listed \ tree.deleted) /\ IsFiniteSet(walked) /\ walked \subseteq tree.present
  BY FS_Subset DEF TreeType
<1>5. {p \in tree.present : Len(p) = 1} \subseteq walked
  OBVIOUS
<1> HIDE DEF walked
<1>6. /\ ListProjectFiles(tree, max).paths = First(found, max, tree.pathOrder)
      /\ ListProjectFiles(tree, max).truncated <=> Cardinality(found) > max
  BY DEF ListProjectFiles
<1>7. /\ found \subseteq tree.present \ tree.deleted
      /\ IsFiniteSet(found) /\ Cardinality(found) \in Nat
      /\ \A p \in found : tree.pathOrder[p] \in Nat
  <2>1. found \subseteq tree.present \ tree.deleted
    BY <1>1, <1>3, <1>4 DEF TreeType
  <2>2. IsFiniteSet(tree.present)
    BY DEF TreeType
  <2> HIDE DEF found
  <2>3. IsFiniteSet(found)
    BY <2>1, <2>2, FS_Subset
  <2> QED
    BY <2>1, <2>3, FS_CardinalityType DEF TreeType
<1>8. ASSUME Cardinality(found) <= max PROVE First(found, max, tree.pathOrder) = found
  <2> DEFINE F == First(found, max, tree.pathOrder)
  <2> HIDE DEF found
  <2>1. F \in SUBSET found /\ (F = found \/ Cardinality(F) >= max)
    BY <1>1, <1>2, <1>7
  <2> HIDE DEF F
  <2>2. Cardinality(F) <= Cardinality(found) /\ (Cardinality(F) = Cardinality(found) => F = found)
    BY <1>7, <2>1, FS_Subset
  <2>3. Cardinality(F) \in Nat
    BY <1>7, <2>1, FS_Subset, FS_CardinalityType
  <2>4. F = found
    BY <1>7, <1>8, <2>1, <2>2, <2>3
  <2> QED
    BY <2>4 DEF F
<1>9. ASSUME Cardinality(found) <= max, ~tree.git PROVE found = walked
  <2>1. found = First(walked, max + 1, tree.walkOrder)
    BY <1>3, <1>9
  <2>2. found = walked \/ Cardinality(found) >= max + 1
    <3>1. max + 1 \in Nat /\ \A p \in walked : tree.walkOrder[p] \in Nat
      BY <1>4 DEF TreeType
    <3> QED
      BY <1>2, <1>4, <2>1, <3>1
  <2> HIDE DEF found
  <2> QED
    BY <1>7, <1>9, <2>2
<1>10. found = IF tree.git THEN tree.listed \ tree.deleted ELSE WalkProjectFiles(tree, max)
  BY <1>3
<1> HIDE DEF found
<1>11. ListProjectFiles(tree, max).paths \subseteq tree.present \ tree.deleted
  BY <1>1, <1>6, <1>7
<1>12. ASSUME ~ListProjectFiles(tree, max).truncated
       PROVE  IF tree.git THEN tree.listed \ tree.deleted \subseteq ListProjectFiles(tree, max).paths
              ELSE {p \in tree.present : Len(p) = 1} \subseteq ListProjectFiles(tree, max).paths
  <2>1. Cardinality(found) <= max
    BY <1>6, <1>7, <1>12
  <2>2. ListProjectFiles(tree, max).paths = found
    BY <1>6, <1>8, <2>1
  <2> QED
    BY <1>5, <1>9, <1>10, <2>1, <2>2
<1> QED
  BY <1>11, <1>12

ListedRight(r, v) ==
  LET items == v.items
      files == v.files
      symbols == {s \in r.symbols : ~s.anonymous}
      tree == r.tree
      Inside(s) == \E i \in DOMAIN r.roots : IsStrictPrefix(r.roots[i], s.path)
  IN  /\ ToSet(items) = symbols
      /\ Len(items) = Cardinality(symbols)
      /\ \/ v.pages = 1
         \/ (v.pages - 1) * MaxPageLimit < Len(items)
      /\ \A s \in symbols :
           Cardinality({p \in DOMAIN files : s.id \in files[p]}) = (IF Inside(s) THEN 1 ELSE 0)
      /\ \A p \in DOMAIN files : files[p] = {} => p \in tree.present \ tree.deleted
      /\ tree.readable /\ ~v.truncated =>
           IF tree.git THEN tree.listed \ tree.deleted \subseteq DOMAIN files
           ELSE {p \in tree.present : Len(p) = 1} \subseteq DOMAIN files

\* The listing of a project has each symbol inside a root under its own file, and every file.
LEMMA ListingIsRight ==
  ASSUME NEW r, r.ask = "explorer", WellFormed(r),
         NEW items \in Sorted(r.symbols, 0), NEW pages, PagesWereFull(items, pages)
  PROVE  ListedRight(r, Listing(r, items, pages))
<1> DEFINE v == Listing(r, items, pages)
           symbols == {s \in r.symbols : ~s.anonymous}
           tree == r.tree
           found == ListProjectFiles(tree, MaxExplorerFiles)
           paths == IF tree.readable THEN found.paths ELSE {}
           files == FileListing(r.roots, paths, ToSet(items))
<1>1. SymbolType(r.symbols) /\ r.roots \in Seq(Seq(STRING)) /\ TreeType(tree) /\ MaxExplorerFiles \in Nat
  BY RequestAssumption DEF WellFormed
<1>2. /\ v.items = items /\ v.pages = pages /\ v.files = files
      /\ v.truncated = (tree.readable /\ found.truncated)
  BY DEF Listing, ProjectFilesOf
<1>3. ToSet(items) = symbols /\ Len(items) = Cardinality(symbols)
  <2>1. symbols = Found(r.symbols, 0)
    BY EverySymbolIsFound
  <2> HIDE DEF symbols
  <2>2. LET N == Cardinality(symbols)
        IN  /\ N \in Nat
            /\ items \in [1..N -> symbols]
            /\ Len(items) = N
            /\ \A x \in symbols : \E i \in 1..N : items[i] = x
    BY <1>1, <2>1, SortedIsEnumeration
  <2> QED
    BY <2>2 DEF ToSet
<1>4. symbols \subseteq r.symbols
  OBVIOUS
<1>5. /\ paths \subseteq DOMAIN files
      /\ \A p \in DOMAIN files : files[p] = {} => p \in paths
      /\ \A s \in symbols :
            Cardinality({p \in DOMAIN files : s.id \in files[p]})
               = (IF \E i \in DOMAIN r.roots : IsStrictPrefix(r.roots[i], s.path) THEN 1 ELSE 0)
  <2> HIDE DEF symbols, paths
  <2> QED
    <3>1. EachUnderOne(r.roots, paths, ToSet(items), files)
      BY <1>1, <1>3, <1>4, EachSymbolOnce
    <3> HIDE DEF files
    <3> QED
      BY <1>3, <3>1 DEF EachUnderOne
<1>6. /\ found.paths \subseteq tree.present \ tree.deleted
      /\ ~found.truncated =>
           IF tree.git THEN tree.listed \ tree.deleted \subseteq found.paths
           ELSE {p \in tree.present : Len(p) = 1} \subseteq found.paths
  BY <1>1, ListedFilesExist
<1> HIDE DEF files, found, symbols, v
<1>7. \A p \in DOMAIN files : files[p] = {} => p \in tree.present \ tree.deleted
  BY <1>5, <1>6
<1>8. tree.readable /\ ~v.truncated =>
           IF tree.git THEN tree.listed \ tree.deleted \subseteq DOMAIN files
           ELSE {p \in tree.present : Len(p) = 1} \subseteq DOMAIN files
  BY <1>2, <1>5, <1>6
<1>9. pages = 1 \/ (pages - 1) * MaxPageLimit < Len(items)
  BY DEF PagesWereFull
<1> QED
  BY <1>2, <1>3, <1>5, <1>7, <1>8, <1>9 DEF ListedRight, symbols, v

\* Whatever order the map of symbols has on each request and wherever the pages are cut,
\* the explorer is built of every symbol once, each under one file, and loses no file that
\* it says it has; a page that does not fit its request is refused (searchSymbols,
\* pageBounds, allSymbols, fileListing).
THEOREM PagesMakeAPartition == AnswersSpec => []PagesPartition
<1>1. ASSUME RequestInv, ExplorerInv, Answered("explorer")
      PROVE  /\ answer.value.status # "failed"
             /\ answer.value.status = "listed" => ListedRight(request, answer.value)
  <2>1. request.ask = "explorer" /\ WellFormed(request)
    BY <1>1 DEF RequestInv, Answered
  <2>2. \A items, cursor, pages : Collection(items, cursor, pages).status = "collecting"
    BY DEF Collection
  <2>3. \A items, pages : Listing(request, items, pages).status = "listed"
    BY DEF Listing
  <2> QED
    BY <1>1, <2>1, <2>2, <2>3, ListingIsRight DEF ExplorerInv
<1>2. ASSUME RequestInv, Answered("page")
      PROVE  LET page == request.page
                 refused == answer.value.error # "none"
                 total == Cardinality(Matches(request.symbols, request.query, TRUE))
                 foreign == page.cursor # NoCursor /\ page.cursor.binding # request.query
             IN  /\ foreign \/ page.limit < 0 \/ page.limit > MaxPageLimit => refused
                 /\ ~refused =>
                      /\ Len(answer.value.items) <= MaxPageLimit
                      /\ answer.value.next = NoCursor
                           <=> page.cursor.offset + Len(answer.value.items) = total
  <2> DEFINE page == request.page
             query == request.query
             S == Found(request.symbols, query)
             total == Cardinality(S)
  <2>1. /\ SymbolType(request.symbols) /\ query \in Nat
        /\ page.limit \in Int /\ page.cursor \in [offset : Int, binding : Int]
    BY <1>2 DEF RequestInv, WellFormed, Answered
  <2>2. PICK items \in Sorted(request.symbols, query) : answer.value = PageOf(items, page, query)
    BY <1>2 DEF RequestInv, AnswerIsComputed, PageAnswers, Sorted
  <2>3. items \in Seq(S) /\ Len(items) = total /\ total \in Nat
    BY <2>1, <2>2, SortedIsEnumeration
  <2>4. PageIsCut(items, page, query)
    BY <2>1, <2>3, PageProperties
  <2> DEFINE limit == IF page.limit = 0 THEN DefaultPageLimit ELSE page.limit
             offset == page.cursor.offset
             end == IF offset + limit <= Len(items) THEN offset + limit ELSE Len(items)
             served == answer.value
             Fine == ValidLimit(page) /\ ValidCursor(page, query, Len(items))
  <2>5. /\ served.error = "none" <=> Fine
        /\ Fine =>
             /\ limit \in 1..MaxPageLimit
             /\ offset \in 0..Len(items)
             /\ offset <= end /\ end <= Len(items) /\ end \in Nat
             /\ Len(served.items) = end - offset
             /\ served.next = (IF end < Len(items) THEN [offset |-> end, binding |-> query] ELSE NoCursor)
             /\ end < Len(items) => end = offset + limit /\ served.next # NoCursor
    BY <2>2, <2>4 DEF PageIsCut
  <2>6. /\ Fine => page.cursor = NoCursor \/ page.cursor.binding = query
        /\ Fine => page.limit = 0 \/ page.limit \in 1..MaxPageLimit
    BY DEF ValidLimit, ValidCursor
  <2>7. MaxPageLimit \in Nat
    BY PageLimitAssumption
  <2>8. offset \in Int /\ page.limit \in Int /\ limit \in Int
    BY <2>1, PageLimitAssumption
  <2>9. ASSUME Fine PROVE Len(served.items) <= MaxPageLimit
    BY <2>3, <2>5, <2>7, <2>8, <2>9
  <2>10. ASSUME Fine PROVE served.next = NoCursor <=> offset + Len(served.items) = total
    <3>1. end = total <=> ~(end < total)
      BY <2>3, <2>5, <2>10
    <3> HIDE DEF end, served, offset, Fine, total, S
    <3> QED
      BY <2>3, <2>5, <2>8, <2>10, <3>1
  <2>11. ASSUME Fine
         PROVE  /\ ~(page.cursor # NoCursor /\ page.cursor.binding # query)
                /\ ~(page.limit < 0) /\ ~(page.limit > MaxPageLimit)
    <3> HIDE DEF Fine
    <3> QED
      BY <2>6, <2>7, <2>8, <2>11
  <2> HIDE DEF Fine, served, total, S, offset, page
  <2> QED
    BY <2>5, <2>9, <2>10, <2>11 DEF served, total, S, offset, page, Found
<1>3. RequestInv /\ ExplorerInv => PagesPartition
  BY <1>1, <1>2 DEF PagesPartition, ListedRight
<1> QED
  BY <1>3, RequestInvAlways, ExplorerInvAlways, PTL

-----------------------------------------------------------------------------
(* Changes.                                                                *)

NewAt(script) == {j \in Nat : script[j].op # "-"}

\* The lines of the new file are the lines of the script that are not removed.
LEMMA NewLinesAreCounted ==
  ASSUME NEW script, NEW i \in Nat
  PROVE  NewLinesUpTo(script, i) = Counted(NewAt(script), i)
<1>1. {j \in 1..i : script[j].op # "-"} = {j \in 1..i : j \in NewAt(script)}
  BY DEF NewAt
<1> QED
  BY <1>1 DEF NewLinesUpTo, Counted

\* Each of them has the number after the one before.
LEMMA NewLinesStep ==
  ASSUME NEW script, NEW i \in Nat
  PROVE  /\ NewLinesUpTo(script, i) \in Nat
         /\ NewLinesUpTo(script, 0) = 0
         /\ i # 0 => NewLinesUpTo(script, i)
                        = NewLinesUpTo(script, i - 1) + (IF script[i].op # "-" THEN 1 ELSE 0)
<1>1. i # 0 => i - 1 \in Nat
  OBVIOUS
<1>2. i \in NewAt(script) <=> script[i].op # "-"
  BY DEF NewAt
<1> QED
  BY <1>1, <1>2, NewLinesAreCounted, CountStep

\* Line numbers follow the script.
LEMMA NewLinesGrow ==
  ASSUME NEW script, NEW i \in Nat, NEW j \in Nat, i <= j
  PROVE  NewLinesUpTo(script, i) <= NewLinesUpTo(script, j)
BY NewLinesAreCounted, CountGrows

\* The counter of a hunk stands where the edit script does.
LEMMA HunkCounter ==
  ASSUME NEW script, NEW first \in Nat, NEW last \in Nat, NEW k \in Nat,
         first # 0, k # 0, first + k <= last + 1,
         \A i \in Nat : first <= i /\ i <= last => script[i].op \in {"=", "+", "-"}
  PROVE  NewLine(HunkAt(script, first, last), k) = NewLinesUpTo(script, first + k - 2) + 1
<1> DEFINE d == last - first
           hunk == HunkAt(script, first, last)
           T == {j \in Nat : hunk.lines[j] \in {"+", "="}}
           P == {n \in 0..d : Counted(T, n) + NewLinesUpTo(script, first - 1)
                                = NewLinesUpTo(script, first + n - 1)}
<1>0. d \in Nat
  OBVIOUS
<1>1. hunk.newStart = NewLinesUpTo(script, first - 1) + 1
  BY DEF HunkAt
<1>2. \A j \in 1..(d + 1) : j \in T <=> script[first + j - 1].op # "-"
  <2> SUFFICES ASSUME NEW j \in 1..(d + 1) PROVE j \in T <=> script[first + j - 1].op # "-"
    OBVIOUS
  <2>1. hunk.lines[j] = script[first + j - 1].op
    BY DEF HunkAt
  <2>2. first + j - 1 \in Nat /\ first <= first + j - 1 /\ first + j - 1 <= last
    OBVIOUS
  <2> HIDE DEF hunk
  <2> QED
    BY <2>1, <2>2
<1> HIDE DEF hunk, T, d
<1>3. 0 \in P
  <2>1. first + 0 - 1 = first - 1 /\ NewLinesUpTo(script, first - 1) \in Nat /\ Counted(T, 0) = 0
    BY NewLinesStep, CountStep
  <2> QED
    BY <1>0, <2>1
<1>4. \A n \in 1..d : n - 1 \in P => n \in P
  <2> SUFFICES ASSUME NEW n \in 1..d, n - 1 \in P PROVE n \in P
    OBVIOUS
  <2>1. n \in Nat /\ n # 0 /\ n - 1 \in Nat /\ n \in 1..(d + 1) /\ n \in 0..d
    BY <1>0
  <2>2. Counted(T, n) = Counted(T, n - 1) + (IF n \in T THEN 1 ELSE 0) /\ Counted(T, n - 1) \in Nat
    BY <2>1, CountStep
  <2>3. /\ first + n - 1 \in Nat
        /\ first + n - 1 # 0
        /\ first + (n - 1) - 1 = (first + n - 1) - 1
    BY <2>1
  <2>4. NewLinesUpTo(script, first + n - 1)
          = NewLinesUpTo(script, first + (n - 1) - 1) + (IF script[first + n - 1].op # "-" THEN 1 ELSE 0)
    BY <2>3, NewLinesStep
  <2>5. NewLinesUpTo(script, first + (n - 1) - 1) \in Nat /\ NewLinesUpTo(script, first - 1) \in Nat
    <3>1. first + (n - 1) - 1 \in Nat /\ first - 1 \in Nat
      BY <2>1
    <3> QED
      BY <3>1, NewLinesStep
  <2>6. Counted(T, n - 1) + NewLinesUpTo(script, first - 1) = NewLinesUpTo(script, first + (n - 1) - 1)
    OBVIOUS
  <2> QED
    BY <1>2, <2>1, <2>2, <2>4, <2>5, <2>6
<1>5. k - 1 \in P
  <2>1. 0..d \subseteq P
    <3> HIDE DEF P
    <3> QED
      BY <1>0, <1>3, <1>4, BoundedInduction
  <2>2. k - 1 \in 0..d
    BY DEF d
  <2> QED
    BY <2>1, <2>2
<1>6. Cardinality({j \in 1..(k - 1) : hunk.lines[j] \in {"+", "="}}) = Counted(T, k - 1)
  <2>1. {j \in 1..(k - 1) : hunk.lines[j] \in {"+", "="}} = {j \in 1..(k - 1) : j \in T}
    BY DEF T
  <2> QED
    BY <2>1 DEF Counted
<1>7. Counted(T, k - 1) \in Nat /\ NewLinesUpTo(script, first - 1) \in Nat
  <2>1. k - 1 \in Nat /\ first - 1 \in Nat
    BY <1>0 DEF d
  <2> QED
    BY <2>1, CountStep, NewLinesStep
<1>8. first + (k - 1) - 1 = first + k - 2
  OBVIOUS
<1> QED
  BY <1>1, <1>5, <1>6, <1>7, <1>8 DEF NewLine, hunk

ScriptType(script) ==
    /\ Len(script) \in Nat
    /\ DOMAIN script = 1..Len(script)
    /\ \A i \in DOMAIN script : script[i].op \in {"=", "+", "-"}

\* The runs of shown lines that git prints as hunks.
Runs(script, context) ==
    LET shown == Shown(script, context)
    IN  {p \in shown \X shown : /\ p[1] <= p[2]
                                /\ p[1]..p[2] \subseteq shown
                                /\ p[1] - 1 \notin shown
                                /\ p[2] + 1 \notin shown}

\* Every changed line lies in a hunk.
LEMMA ChangedLinesAreShown ==
  ASSUME NEW script, ScriptType(script), NEW context \in Nat,
         NEW m \in DOMAIN script, script[m].op # "="
  PROVE  \E a, b \in Nat : /\ <<a, b>> \in Runs(script, context)
                           /\ a <= m /\ m <= b
<1> DEFINE n == Len(script)
           shown == Shown(script, context)
<1>1. n \in Nat /\ m \in Nat /\ 1 <= m /\ m <= n
  BY DEF ScriptType
<1>2. m \in shown
  <2>1. m \in (m - context)..(m + context)
    BY <1>1
  <2> QED
    BY <2>1 DEF Shown
<1>3. \A i \in shown : i \in Nat /\ 1 <= i /\ i <= n
  BY DEF Shown, ScriptType
<1> HIDE DEF n, shown
<1> DEFINE Before == {a \in shown : a <= m /\ a..m \subseteq shown}
           After == {b \in shown : m <= b /\ m..b \subseteq shown}
<1>4. m..m = {m}
  BY <1>1
<1>5. Before \in SUBSET Nat /\ Before # {} /\ After \in SUBSET (0..n) /\ After # {}
  <2>1. m \in Before /\ m \in After
    BY <1>1, <1>2, <1>4
  <2>2. \A i \in shown : i \in 0..n
    BY <1>1, <1>3
  <2> QED
    BY <1>3, <2>1, <2>2
<1> HIDE DEF Before, After
<1>6. PICK a \in Before : \A i \in Before : a <= i
  BY <1>5, LeastNatural
<1>7. PICK b \in After : \A i \in After : i <= b
  BY <1>1, <1>5, GreatestNatural
<1>8. /\ a \in shown /\ a <= m /\ \A i \in Nat : a <= i /\ i <= m => i \in shown
      /\ b \in shown /\ m <= b /\ \A i \in Nat : m <= i /\ i <= b => i \in shown
      /\ a \in Nat /\ b \in Nat
  <2>1. a \in shown /\ a <= m /\ a..m \subseteq shown /\ b \in shown /\ m <= b /\ m..b \subseteq shown
    BY <1>6, <1>7 DEF Before, After
  <2>2. a \in Nat /\ b \in Nat
    BY <1>3, <2>1
  <2>3. ASSUME NEW i \in Nat, a <= i, i <= m PROVE i \in shown
    <3>1. i \in a..m
      BY <1>1, <2>2, <2>3
    <3> QED
      BY <2>1, <3>1
  <2>4. ASSUME NEW i \in Nat, m <= i, i <= b PROVE i \in shown
    <3>1. i \in m..b
      BY <1>1, <2>2, <2>4
    <3> QED
      BY <2>1, <3>1
  <2> QED
    BY <2>1, <2>2, <2>3, <2>4
<1>9. a..b \subseteq shown /\ a <= b
  <2> SUFFICES ASSUME NEW i \in a..b PROVE i \in shown
    BY <1>1, <1>8
  <2>1. i \in Nat /\ a <= i /\ i <= b
    BY <1>8
  <2>2. i <= m \/ m <= i
    BY <1>1, <2>1
  <2> QED
    BY <1>8, <2>1, <2>2
<1>10. a - 1 \notin shown
  <2> SUFFICES ASSUME a - 1 \in shown PROVE FALSE
    OBVIOUS
  <2>1. a - 1 \in Nat /\ a - 1 <= m
    BY <1>1, <1>3, <1>8
  <2>2. (a - 1)..m \subseteq shown
    <3> SUFFICES ASSUME NEW i \in (a - 1)..m PROVE i \in shown
      OBVIOUS
    <3>1. i \in Nat /\ (i = a - 1 \/ (a <= i /\ i <= m))
      BY <1>1, <1>8, <2>1
    <3> QED
      BY <1>8, <3>1
  <2>3. a - 1 \in Before
    BY <2>1, <2>2 DEF Before
  <2> QED
    BY <1>6, <1>8, <2>3
<1>11. b + 1 \notin shown
  <2> SUFFICES ASSUME b + 1 \in shown PROVE FALSE
    OBVIOUS
  <2>1. m <= b + 1
    BY <1>1, <1>8
  <2>2. m..(b + 1) \subseteq shown
    <3> SUFFICES ASSUME NEW i \in m..(b + 1) PROVE i \in shown
      OBVIOUS
    <3>0. b \in Nat /\ m \in Nat
      BY <1>1, <1>8
    <3>1. i \in Nat /\ (i = b + 1 \/ (m <= i /\ i <= b))
      BY <3>0
    <3> QED
      BY <1>8, <3>1
  <2>3. b + 1 \in After
    BY <2>1, <2>2 DEF After
  <2> QED
    BY <1>7, <1>8, <2>3
<1>12. <<a, b>> \in Runs(script, context)
  BY <1>8, <1>9, <1>10, <1>11 DEF Runs, shown
<1> QED
  BY <1>8, <1>12

\* A function has a diff if a line was added or removed where the new file has it.
LEMMA DiffIsChangedLine ==
  ASSUME NEW script, ScriptType(script), NEW context \in Nat,
         NEW file, file.hunks = HunksOf(script, context), NEW span
  PROVE  HasDiff(file, span)
            <=> \E m \in DOMAIN script : /\ script[m].op # "="
                                         /\ NewLinesUpTo(script, m - 1) + 1 \in span.first..span.last
<1> DEFINE Inside(l) == l \in span.first..span.last
           N(i) == NewLinesUpTo(script, i)
<1>0. Len(script) \in Nat /\ \A i \in DOMAIN script : i \in Nat /\ 1 <= i /\ i <= Len(script)
  BY DEF ScriptType
<1>1. file.hunks = {HunkAt(script, g[1], g[2]) : g \in Runs(script, context)}
  BY DEF HunksOf, Runs
<1>2. ASSUME NEW a \in Nat, NEW b \in Nat, <<a, b>> \in Runs(script, context), NEW k \in Nat, k # 0, a + k <= b + 1
      PROVE  /\ a + k - 1 \in DOMAIN script
             /\ HunkAt(script, a, b).lines[k] = script[a + k - 1].op
             /\ NewLine(HunkAt(script, a, b), k) = N((a + k - 1) - 1) + 1
  <2>1. a..b \subseteq DOMAIN script /\ a \in DOMAIN script
    BY <1>2 DEF Runs, Shown
  <2>2. a # 0 /\ a + k - 1 \in a..b
    BY <1>0, <1>2, <2>1
  <2>3. \A i \in Nat : a <= i /\ i <= b => script[i].op \in {"=", "+", "-"}
    <3> SUFFICES ASSUME NEW i \in Nat, a <= i, i <= b PROVE script[i].op \in {"=", "+", "-"}
      OBVIOUS
    <3>1. i \in a..b
      OBVIOUS
    <3> QED
      BY <2>1, <3>1 DEF ScriptType
  <2>4. NewLine(HunkAt(script, a, b), k) = N(a + k - 2) + 1
    BY <1>2, <2>2, <2>3, HunkCounter
  <2>5. a + k - 2 = (a + k - 1) - 1
    OBVIOUS
  <2>6. k \in 1..(b - a + 1)
    BY <1>2
  <2>7. HunkAt(script, a, b).lines[k] = script[a + k - 1].op
    BY <2>6 DEF HunkAt
  <2> QED
    BY <2>1, <2>2, <2>4, <2>5, <2>7
<1>3. ASSUME NEW m \in DOMAIN script, script[m].op # "=", Inside(N(m - 1) + 1)
      PROVE  HasDiff(file, span)
  <2>1. PICK a \in Nat, b \in Nat : <<a, b>> \in Runs(script, context) /\ a <= m /\ m <= b
    BY <1>3, ChangedLinesAreShown
  <2> DEFINE k == m - a + 1
             hunk == HunkAt(script, a, b)
  <2>2. k \in Nat /\ k # 0 /\ a + k <= b + 1 /\ a + k - 1 = m
    BY <1>0, <2>1
  <2>3. hunk.lines[k] = script[m].op /\ NewLine(hunk, k) = N(m - 1) + 1
    <3> HIDE DEF k
    <3> QED
      BY <1>2, <2>1, <2>2
  <2>4. hunk \in file.hunks
    <3>1. <<a, b>>[1] = a /\ <<a, b>>[2] = b
      OBVIOUS
    <3> QED
      BY <1>1, <2>1, <3>1
  <2>5. k \in DOMAIN hunk.lines
    <3>1. k \in 1..(b - a + 1)
      BY <1>0, <2>1
    <3> QED
      BY <3>1 DEF HunkAt
  <2>6. hunk.lines[k] \in {"+", "-"}
    BY <1>3, <2>3 DEF ScriptType
  <2> HIDE DEF hunk, k
  <2>7. HunkTouchesSpan(hunk, span.first, span.last)
    BY <1>3, <2>3, <2>5, <2>6 DEF HunkTouchesSpan
  <2> QED
    BY <2>4, <2>7 DEF HasDiff
<1>4. ASSUME HasDiff(file, span)
      PROVE  \E m \in DOMAIN script : script[m].op # "=" /\ Inside(N(m - 1) + 1)
  <2>1. PICK hunk \in file.hunks : HunkTouchesSpan(hunk, span.first, span.last)
    BY <1>4 DEF HasDiff
  <2>2. PICK g \in Runs(script, context) : hunk = HunkAt(script, g[1], g[2])
    BY <1>1, <2>1
  <2> DEFINE a == g[1]
             b == g[2]
  <2>3. a \in Nat /\ b \in Nat /\ g = <<a, b>>
    <3>1. g \in Shown(script, context) \X Shown(script, context)
      BY DEF Runs
    <3>2. Shown(script, context) \subseteq DOMAIN script
      BY DEF Shown
    <3> QED
      BY <1>0, <3>1, <3>2
  <2>4. PICK k \in DOMAIN hunk.lines : hunk.lines[k] \in {"+", "-"} /\ NewLine(hunk, k) \in span.first..span.last
    BY <2>1 DEF HunkTouchesSpan
  <2>5. k \in 1..(b - a + 1)
    BY <2>2, <2>4 DEF HunkAt
  <2> HIDE DEF a, b
  <2>6. k \in Nat /\ k # 0 /\ a + k <= b + 1
    BY <2>3, <2>5
  <2>7. /\ a + k - 1 \in DOMAIN script
        /\ hunk.lines[k] = script[a + k - 1].op
        /\ NewLine(hunk, k) = N((a + k - 1) - 1) + 1
    <3>1. hunk = HunkAt(script, a, b)
      BY <2>2 DEF a, b
    <3> QED
      BY <1>2, <2>3, <2>6, <3>1
  <2>8. script[a + k - 1].op # "="
    BY <2>4, <2>7
  <2> QED
    BY <2>4, <2>7, <2>8
<1> QED
  BY <1>3, <1>4

\* The script of an edit is a sequence of kept, added and removed lines.
LEMMA EditedScript ==
  ASSUME NEW edit, EditType(edit)
  PROVE  /\ ScriptType(edit.script)
         /\ \A i \in DOMAIN edit.script : i \in Nat /\ 1 <= i /\ i <= Len(edit.script)
<1>1. LinesType(edit)
  BY DEF EditType
<1> QED
  BY <1>1 DEF LinesType, ScriptType

\* The lines of a declaration are lines of the new file.
LEMMA DeclaredLines ==
  ASSUME NEW edit, EditType(edit), NEW k \in DOMAIN edit.functions,
         NEW i \in {edit.functions[k].first, edit.functions[k].line, edit.functions[k].last}
  PROVE  /\ i \in DOMAIN edit.script /\ i \in Nat /\ i # 0
         /\ edit.script[i].op # "-"
         /\ edit.functions[k].first <= edit.functions[k].line
         /\ edit.functions[k].line <= edit.functions[k].last
<1>1. DeclarationType(edit, edit.functions[k])
  BY DEF EditType, FunctionsType
<1>2. i \in DOMAIN edit.script /\ edit.script[i].op # "-"
  BY <1>1 DEF DeclarationType
<1>3. i \in Nat /\ 1 <= i
  BY <1>2, EditedScript
<1> QED
  BY <1>1, <1>2, <1>3 DEF DeclarationType

\* Which numbers the lines of the new file have, against the edit script.
LEMMA NewLinesOrdered ==
  ASSUME NEW script, NEW i \in Nat, NEW j \in Nat, i # 0, j # 0
  PROVE  /\ i <= j => NewLinesUpTo(script, i - 1) <= NewLinesUpTo(script, j - 1)
         /\ script[i].op # "-" /\ i < j => NewLinesUpTo(script, i - 1) < NewLinesUpTo(script, j - 1)
         /\ script[i].op # "-" => NewLinesUpTo(script, i) = NewLinesUpTo(script, i - 1) + 1
         /\ NewLinesUpTo(script, i - 1) \in Nat
         /\ NewLinesUpTo(script, i) \in Nat
<1>1. i - 1 \in Nat /\ j - 1 \in Nat
  OBVIOUS
<1>2. /\ NewLinesUpTo(script, i - 1) \in Nat
      /\ NewLinesUpTo(script, j - 1) \in Nat
      /\ NewLinesUpTo(script, i) \in Nat
      /\ NewLinesUpTo(script, i)
            = NewLinesUpTo(script, i - 1) + (IF script[i].op # "-" THEN 1 ELSE 0)
  BY <1>1, NewLinesStep
<1>3. i <= j => NewLinesUpTo(script, i - 1) <= NewLinesUpTo(script, j - 1)
  BY <1>1, NewLinesGrow
<1>4. ASSUME i < j PROVE NewLinesUpTo(script, i) <= NewLinesUpTo(script, j - 1)
  <2>1. i <= j - 1
    BY <1>4
  <2> QED
    BY <1>1, <2>1, NewLinesGrow
<1> QED
  BY <1>2, <1>3, <1>4

\* A hunk touches a declaration if and only if a line between its ends changed, or one right
\* above it was removed.
LEMMA FunctionHasDiff ==
  ASSUME NEW edit, EditType(edit), NEW k \in DOMAIN edit.functions,
         NEW span,
         span.first = LineNumber(edit, edit.functions[k].first),
         span.last = LineNumber(edit, edit.functions[k].last),
         NEW file, file.hunks = HunksOf(edit.script, edit.context)
  PROVE  HasDiff(file, span)
            <=> TextChanged(edit, edit.functions[k]) \/ RemovedAbove(edit, edit.functions[k])
<1> DEFINE script == edit.script
           d == edit.functions[k]
           lo == d.first
           hi == d.last
           N(i) == NewLinesUpTo(script, i)
<1>2. \A i \in DOMAIN script : /\ i \in Nat /\ i # 0 /\ 1 <= i
                               /\ script[i].op \in {"=", "+", "-"}
  BY EditedScript DEF ScriptType
<1>3. /\ lo \in DOMAIN script /\ lo \in Nat /\ lo # 0 /\ script[lo].op # "-" /\ d.line \in Nat
      /\ hi \in DOMAIN script /\ hi \in Nat /\ hi # 0 /\ script[hi].op # "-"
      /\ lo <= d.line /\ d.line <= hi
  BY DeclaredLines
<1>4. lo <= hi
  <2> HIDE DEF d, lo, hi
  <2> QED
    BY <1>3
<1> DEFINE Near(m) == /\ m <= hi
                      /\ m < lo => N(lo - 1) <= N(m - 1)
<1>5. ASSUME NEW m \in DOMAIN script
      PROVE  N(m - 1) + 1 \in span.first..span.last <=> Near(m)
  <2>1. /\ m \in Nat /\ m # 0 /\ lo \in Nat /\ lo # 0 /\ hi \in Nat /\ hi # 0
    BY <1>2, <1>3
  <2>2. span.first = N(lo) /\ span.last = N(hi)
    BY DEF LineNumber
  <2> HIDE DEF lo, hi
  <2>3. /\ N(lo) = N(lo - 1) + 1 /\ N(hi) = N(hi - 1) + 1
        /\ N(lo - 1) \in Nat /\ N(hi - 1) \in Nat /\ N(m - 1) \in Nat
    BY <1>3, <2>1, NewLinesOrdered
  <2>4. /\ lo <= m => N(lo - 1) <= N(m - 1)
        /\ m <= hi => N(m - 1) <= N(hi - 1)
        /\ hi < m => N(hi - 1) < N(m - 1)
    BY <1>3, <2>1, NewLinesOrdered
  <2> DEFINE first == N(lo - 1)
             last == N(hi - 1)
             here == N(m - 1)
  <2>5. here + 1 \in (first + 1)..(last + 1) <=> first <= here /\ here <= last
    <3> HIDE DEF first, last, here
    <3>1. first \in Nat /\ last \in Nat /\ here \in Nat
      BY <2>3 DEF first, last, here
    <3> QED
      BY <3>1
  <2>6. first <= here /\ here <= last <=> Near(m)
    <3>1. first \in Nat /\ last \in Nat /\ here \in Nat
      BY <2>3
    <3> HIDE DEF first, last, here
    <3> QED
      BY <2>1, <2>4, <3>1 DEF first, last, here
  <2> QED
    BY <2>2, <2>3, <2>5, <2>6
<1>6. HasDiff(file, span) <=> \E m \in DOMAIN script : script[m].op # "=" /\ Near(m)
  <2>1. HasDiff(file, span)
           <=> \E m \in DOMAIN script : script[m].op # "=" /\ N(m - 1) + 1 \in span.first..span.last
    BY EditedScript, DiffIsChangedLine DEF EditType, LinesType
  <2> HIDE DEF Near, N, script
  <2> QED
    BY <1>5, <2>1
<1>7. TextChanged(edit, d) <=> \E m \in DOMAIN script : script[m].op # "=" /\ lo <= m /\ m <= hi
  <2>1. \A m : m \in lo..hi <=> m \in DOMAIN script /\ lo <= m /\ m <= hi
    <3>1. DOMAIN script = 1..Len(script) /\ Len(script) \in Nat
      BY EditedScript DEF ScriptType
    <3> HIDE DEF script, lo, hi
    <3> QED
      BY <1>3, <3>1
  <2> QED
    BY <2>1 DEF TextChanged
<1>8. RemovedAbove(edit, d) <=> lo > 1 /\ script[lo - 1].op = "-"
  BY DEF RemovedAbove
<1> HIDE DEF lo, hi, d
<1>9. ASSUME NEW m \in DOMAIN script, m < lo, N(lo - 1) <= N(m - 1)
      PROVE  lo > 1 /\ script[lo - 1].op = "-"
  <2>1. lo \in Nat /\ lo # 0 /\ m \in Nat /\ 1 <= m /\ m # 0
    BY <1>2, <1>3
  <2>2. lo > 1 /\ lo - 1 \in Nat /\ lo - 1 # 0 /\ m <= lo - 1 /\ lo - 1 < lo
    BY <1>9, <2>1
  <2>3. N((lo - 1) - 1) \in Nat /\ N(lo - 1) \in Nat /\ N(m - 1) \in Nat /\ N(m - 1) <= N((lo - 1) - 1)
    BY <2>1, <2>2, NewLinesOrdered
  <2>4. script[lo - 1].op # "-" => N((lo - 1) - 1) < N(lo - 1)
    BY <2>1, <2>2, NewLinesOrdered
  <2>5. script[lo - 1].op = "-"
    <3> DEFINE x == N(lo - 1)
               y == N(m - 1)
               z == N((lo - 1) - 1)
    <3>1. x \in Nat /\ y \in Nat /\ z \in Nat /\ x <= y /\ y <= z
      BY <1>9, <2>3
    <3> HIDE DEF x, y, z
    <3>2. ~(z < x)
      BY <3>1
    <3> QED
      BY <2>4, <3>2 DEF x, y, z
  <2> QED
    BY <2>2, <2>5
<1>10. ASSUME lo > 1, script[lo - 1].op = "-"
       PROVE  \E m \in DOMAIN script : script[m].op # "=" /\ Near(m)
  <2>2. lo \in Nat /\ hi \in Nat /\ lo # 0
    BY <1>3
  <2>3. lo - 1 \in Nat /\ lo - 1 # 0 /\ lo - 1 < lo /\ lo - 1 <= hi
    BY <1>4, <1>10, <2>2
  <2>4. lo - 1 \in DOMAIN script
    <3>1. DOMAIN script = 1..Len(script) /\ Len(script) \in Nat
      BY EditedScript DEF ScriptType
    <3> HIDE DEF script
    <3> QED
      BY <1>3, <2>2, <2>3, <3>1
  <2>5. N(lo - 1) = N((lo - 1) - 1) /\ N(lo - 1) \in Nat
    <3> DEFINE x == lo - 1
    <3>0. x \in Nat /\ x # 0 /\ script[x].op = "-"
      BY <1>10, <2>3
    <3> HIDE DEF x
    <3>1. x \in Nat /\ x # 0 /\ x - 1 \in Nat /\ script[x].op = "-"
      BY <3>0
    <3>2. N(x) = N(x - 1) + 0 /\ N(x - 1) \in Nat /\ N(x) \in Nat
      BY <3>1, NewLinesStep
    <3>3. N(x) = N(x - 1) /\ N(x) \in Nat
      BY <3>2
    <3> QED
      BY <3>3 DEF x
  <2>6. Near(lo - 1)
    BY <2>3, <2>5
  <2> HIDE DEF Near
  <2> QED
    BY <1>10, <2>4, <2>6
<1>11. ASSUME NEW m \in DOMAIN script, lo <= m, m <= hi
       PROVE  Near(m)
  BY <1>2, <1>3, <1>11
<1>12. ASSUME NEW m \in DOMAIN script, Near(m)
       PROVE  (lo <= m /\ m <= hi) \/ (lo > 1 /\ script[lo - 1].op = "-")
  <2>1. m < lo \/ lo <= m
    BY <1>2, <1>3
  <2> QED
    BY <1>9, <1>12, <2>1
<1> HIDE DEF Near, script
<1> QED
  BY <1>6, <1>7, <1>8, <1>10, <1>11, <1>12 DEF d

\* Every path of a batch has its place in it.
LEMMA BatchHoldsPaths ==
  ASSUME NEW paths, IsFiniteSet(paths)
  PROVE  \A x : (\E i \in DOMAIN InSomeOrder(paths) : InSomeOrder(paths)[i] = x) <=> x \in paths
<1> DEFINE N == Cardinality(paths)
           q == InSomeOrder(paths)
<1>1. \E f \in [1..N -> paths] : \A i, j \in 1..N : f[i] = f[j] => i = j
  BY EnumerationExists
<1>2. \E f \in [1..N -> paths] : \A i, j \in DOMAIN f : f[i] = f[j] => i = j
  BY <1>1
<1>3. q \in [1..N -> paths] /\ \A i, j \in DOMAIN q : q[i] = q[j] => i = j
  BY <1>2 DEF InSomeOrder
<1> HIDE DEF q
<1>4. q \in [1..N -> paths] /\ \A i, j \in 1..N : i # j => q[i] # q[j]
  BY <1>3
<1>5. \A x \in paths : \E i \in 1..N : q[i] = x
  BY <1>4, EnumerationIsOnto
<1> QED
  BY <1>4, <1>5 DEF q

\* Without a git failure the paths of a batch that HEAD has are read.
LEMMA BatchReadsPaths ==
  ASSUME NEW head, NEW paths, IsFiniteSet(paths), NEW readable \in BOOLEAN
  PROVE  BaselineKeys(head, paths, readable) = IF readable THEN HeadKeys(head, paths \cap DOMAIN head) ELSE {}
<1> DEFINE order == InSomeOrder(paths)
           responses == Responses(head, order, readable)
           read == BatchContents(order, responses)
<1>1. \A x : (\E i \in DOMAIN order : order[i] = x) <=> x \in paths
  BY BatchHoldsPaths
<1>2. BaselineKeys(head, paths, readable) = HeadKeys(head, read)
  BY DEF BaselineKeys
<1> HIDE DEF order
<1>3. \A i \in DOMAIN order : responses[i] = IF ~readable THEN "malformed"
                                            ELSE IF order[i] \in DOMAIN head THEN "blob" ELSE "missing"
  BY DEF Responses
<1> HIDE DEF responses
<1>4. read = IF readable THEN paths \cap DOMAIN head ELSE {}
  <2>1. CASE readable
    <3>1. ~ \E i \in DOMAIN order : responses[i] = "malformed"
      BY <1>3, <2>1
    <3>2. {k \in DOMAIN order : responses[k] = "blob"} = {k \in DOMAIN order : order[k] \in DOMAIN head}
      BY <1>3, <2>1
    <3>3. read = {order[i] : i \in {k \in DOMAIN order : order[k] \in DOMAIN head}}
      BY <3>1, <3>2 DEF BatchContents
    <3> HIDE DEF read
    <3> QED
      BY <1>1, <2>1, <3>3
  <2>2. CASE ~readable
    <3>1. CASE DOMAIN order = {}
      <4>1. ~ \E i \in DOMAIN order : responses[i] = "malformed"
        BY <3>1
      <4> QED
        BY <2>2, <3>1, <4>1 DEF BatchContents
    <3>2. CASE DOMAIN order # {}
      <4>1. \E i \in DOMAIN order : responses[i] = "malformed"
        BY <1>3, <2>2, <3>2
      <4> QED
        BY <2>2, <4>1 DEF BatchContents
    <3> QED
      BY <3>1, <3>2
  <2> QED
    BY <2>1, <2>2
<1> HIDE DEF read
<1>5. HeadKeys(head, {}) = {}
  BY DEF HeadKeys
<1> QED
  BY <1>2, <1>4, <1>5

\* Declarations found by one line are found by it together.
LEMMA PeersShare ==
  ASSUME NEW edit, NEW k \in DOMAIN edit.functions
  PROVE  /\ k \in Peers(edit, k)
         /\ Peers(edit, k) \subseteq DOMAIN edit.functions
         /\ \A j \in Peers(edit, k) : k \in Peers(edit, j) /\ Peers(edit, j) = Peers(edit, k)
BY DEF Peers

\* Lines of the new file have numbers of their own.
LEMMA LinesDiffer ==
  ASSUME NEW edit, EditType(edit), NEW j \in DOMAIN edit.functions, NEW k \in DOMAIN edit.functions
  PROVE  LineNumber(edit, edit.functions[j].line) = LineNumber(edit, edit.functions[k].line)
            <=> j \in Peers(edit, k)
<1> DEFINE script == edit.script
           a == edit.functions[j].line
           b == edit.functions[k].line
           N(i) == NewLinesUpTo(script, i)
<1>1. a \in Nat /\ b \in Nat /\ a # 0 /\ b # 0 /\ script[a].op # "-" /\ script[b].op # "-"
  BY DeclaredLines
<1>2. j \in Peers(edit, k) <=> a = b
  BY DEF Peers
<1>3. LineNumber(edit, a) = N(a) /\ LineNumber(edit, b) = N(b)
  BY DEF LineNumber
<1> HIDE DEF a, b, script
<1>4. /\ N(a) = N(a - 1) + 1 /\ N(b) = N(b - 1) + 1 /\ N(a - 1) \in Nat /\ N(b - 1) \in Nat
      /\ a < b => N(a - 1) < N(b - 1)
      /\ b < a => N(b - 1) < N(a - 1)
  BY <1>1, NewLinesOrdered
<1>5. a # b => N(a) # N(b)
  <2> DEFINE x == N(a - 1)
             y == N(b - 1)
  <2>1. x \in Nat /\ y \in Nat /\ (a < b => x < y) /\ (b < a => y < x) /\ N(a) = x + 1 /\ N(b) = y + 1
    BY <1>4
  <2> HIDE DEF x, y, N
  <2>2. a # b => x # y
    BY <1>1, <2>1
  <2> QED
    BY <2>1, <2>2
<1> QED
  BY <1>2, <1>3, <1>5 DEF a, b

\* What a span tells of declaration k, whatever id it was given.
SpanIs(edit, k, s) ==
    /\ s.name = edit.functions[k].name
    /\ s.path = File(edit)
    /\ s.first = LineNumber(edit, edit.functions[k].first)
    /\ s.last = LineNumber(edit, edit.functions[k].last)
    /\ s.position = k

\* A span under another id.
LEMMA SpanRenamed ==
  ASSUME NEW edit, NEW k, NEW v
  PROVE  LET r == [SpanOf(edit, k) EXCEPT !.id = v]
         IN  r.id = v /\ SpanIs(edit, k, r)
<1> DEFINE s == SpanOf(edit, k)
           r == [s EXCEPT !.id = v]
<1>1. DOMAIN s = {"id", "name", "path", "anonymous", "first", "last", "line", "position"}
  BY DEF SpanOf
<1>2. r = [x \in DOMAIN s |-> IF x = "id" THEN v ELSE s[x]]
  OBVIOUS
<1>3. /\ s.name = edit.functions[k].name
      /\ s.path = File(edit)
      /\ s.first = LineNumber(edit, edit.functions[k].first)
      /\ s.last = LineNumber(edit, edit.functions[k].last)
      /\ s.position = k
  BY DEF SpanOf
<1> HIDE DEF s
<1>4. r.id = v /\ r.name = s.name /\ r.path = s.path /\ r.first = s.first /\ r.last = s.last /\ r.position = s.position
  BY <1>1, <1>2
<1> HIDE DEF r
<1>5. r.id = v /\ SpanIs(edit, k, r)
  BY <1>3, <1>4 DEF SpanIs
<1> QED
  BY <1>5 DEF r, s

\* What the spans have in common whatever is chosen of those on a line: all go by the id of
\* one of the declarations of their line; in Go every declaration has a span, in JavaScript
\* one of each line.
Grouped(edit, spans, who) ==
    /\ \A k \in DOMAIN edit.functions : who[k] \in Peers(edit, k)
    /\ \A k \in DOMAIN edit.functions : \A j \in Peers(edit, k) : who[j] = who[k]
    /\ \A s \in spans : \E k \in DOMAIN edit.functions : s.id = who[k] /\ SpanIs(edit, k, s)
    /\ \A k \in DOMAIN edit.functions :
          \E j \in Peers(edit, k) : /\ edit.language = "go" => j = k
                                    /\ \E s \in spans : s.id = who[k] /\ SpanIs(edit, j, s)
    /\ \A s, t \in spans : s.position = t.position => s = t

\* Whatever the walk over the map leaves of a line, the spans are grouped by it.
LEMMA ChosenSpans ==
  ASSUME NEW edit, EditType(edit), NEW spans \in SpanChoices(FunctionsOf(edit))
  PROVE  \E who : Grouped(edit, spans, who)
<1> DEFINE D == DOMAIN edit.functions
           Named == FunctionsOf(edit)
           Place(s) == <<s.path, s.line>>
           Line(k) == <<File(edit), LineNumber(edit, edit.functions[k].line)>>
<1>1. \A s : s \in Named <=> \E k \in D : s = SpanOf(edit, k)
  BY DEF FunctionsOf
<1>2. \A k : SpanOf(edit, k).anonymous = FALSE /\ Place(SpanOf(edit, k)) = Line(k) /\ SpanOf(edit, k).id = k
             /\ SpanOf(edit, k).path = File(edit)
  BY DEF SpanOf
<1>3. {s \in Named : ~s.anonymous} = Named
  BY <1>1, <1>2
<1>4. PICK c : /\ \A p \in {Place(s) : s \in Named} : c[p] \in {s \in Named : Place(s) = p}
               /\ spans = {[s EXCEPT !.id = c[Place(s)].id] :
                             s \in {g \in Named : IsGo(g.path) \/ c[Place(g)] = g}}
  BY <1>3 DEF SpanChoices
<1> HIDE DEF Named
<1>5. \A j, k \in D : Line(j) = Line(k) <=> j \in Peers(edit, k)
  BY LinesDiffer
<1> DEFINE who == [k \in D |-> c[Line(k)].id]
<1>6. ASSUME NEW k \in D
      PROVE  /\ who[k] \in Peers(edit, k)
             /\ c[Line(k)] = SpanOf(edit, who[k])
  <2>1. SpanOf(edit, k) \in Named /\ Place(SpanOf(edit, k)) = Line(k)
    BY <1>1, <1>2
  <2>2. c[Line(k)] \in Named /\ Place(c[Line(k)]) = Line(k)
    BY <1>4, <2>1
  <2>3. PICK j \in D : c[Line(k)] = SpanOf(edit, j)
    BY <1>1, <2>2
  <2>4. Line(j) = Line(k)
    BY <1>2, <2>2, <2>3
  <2>5. who[k] = j
    BY <1>2, <2>3
  <2> QED
    BY <1>5, <2>3, <2>4, <2>5
<1>7. \A k \in D : \A j \in Peers(edit, k) : j \in D /\ who[j] = who[k]
  <2> SUFFICES ASSUME NEW k \in D, NEW j \in Peers(edit, k) PROVE j \in D /\ who[j] = who[k]
    OBVIOUS
  <2>1. j \in D
    BY DEF Peers
  <2>2. Line(j) = Line(k)
    BY <1>5, <2>1
  <2> QED
    BY <2>1, <2>2
<1>8. ASSUME NEW k \in D
      PROVE  LET r == [SpanOf(edit, k) EXCEPT !.id = c[Place(SpanOf(edit, k))].id]
             IN  r.id = who[k] /\ SpanIs(edit, k, r)
  <2> DEFINE v == c[Place(SpanOf(edit, k))].id
  <2>1. v = who[k]
    BY <1>2
  <2> HIDE DEF who, v
  <2>2. LET r == [SpanOf(edit, k) EXCEPT !.id = v]
        IN  r.id = v /\ SpanIs(edit, k, r)
    BY SpanRenamed
  <2>3. LET r == [SpanOf(edit, k) EXCEPT !.id = v]
        IN  r.id = who[k] /\ SpanIs(edit, k, r)
    BY <2>1, <2>2
  <2> QED
    BY <2>3 DEF v
<1>9. ASSUME NEW k \in D
      PROVE  \E j \in Peers(edit, k) : /\ edit.language = "go" => j = k
                                       /\ \E s \in spans : s.id = who[k] /\ SpanIs(edit, j, s)
  <2>1. ASSUME NEW j \in Peers(edit, k), IsGo(File(edit)) \/ c[Line(j)] = SpanOf(edit, j)
        PROVE  \E s \in spans : s.id = who[k] /\ SpanIs(edit, j, s)
    <3> DEFINE g == SpanOf(edit, j)
    <3>1. j \in D /\ who[j] = who[k]
      BY <1>7
    <3>2. g \in Named /\ g.path = File(edit) /\ Place(g) = Line(j)
      BY <1>1, <1>2, <3>1
    <3> HIDE DEF g
    <3>3. g \in {x \in Named : IsGo(x.path) \/ c[Place(x)] = x}
      BY <2>1, <3>2 DEF g
    <3>4. [g EXCEPT !.id = c[Place(g)].id] \in spans
      BY <1>4, <3>3
    <3> DEFINE r == [g EXCEPT !.id = c[Place(g)].id]
    <3>5. r.id = who[j] /\ SpanIs(edit, j, r)
      BY <1>8, <3>1 DEF g
    <3> HIDE DEF r, who
    <3> QED
      BY <3>1, <3>4, <3>5 DEF r
  <2>2. CASE edit.language = "go"
    <3>1. IsGo(File(edit))
      BY <2>2 DEF IsGo, File
    <3>2. k \in Peers(edit, k)
      BY PeersShare
    <3> HIDE DEF who
    <3> QED
      BY <2>1, <3>1, <3>2
  <2>3. CASE edit.language # "go"
    <3> DEFINE j == who[k]
    <3>1. j \in Peers(edit, k) /\ c[Line(k)] = SpanOf(edit, j)
      BY <1>6
    <3> HIDE DEF j, who
    <3>2. j \in D
      BY <3>1 DEF Peers
    <3>3. Line(j) = Line(k)
      BY <1>5, <3>1, <3>2
    <3>4. c[Line(j)] = SpanOf(edit, j)
      BY <3>1, <3>3
    <3> QED
      BY <2>1, <2>3, <3>1, <3>4
  <2> QED
    BY <2>2, <2>3
<1>10. ASSUME NEW s \in spans
       PROVE  \E k \in D : s.id = who[k] /\ SpanIs(edit, k, s) /\ s = [SpanOf(edit, k) EXCEPT !.id = who[k]]
  <2>1. PICK t \in Named : s = [t EXCEPT !.id = c[Place(t)].id]
    BY <1>4
  <2>2. PICK k \in D : t = SpanOf(edit, k)
    BY <1>1
  <2>3. c[Place(t)].id = who[k]
    BY <1>2, <2>2
  <2> HIDE DEF who
  <2> QED
    BY <1>8, <2>1, <2>2, <2>3
<1> HIDE DEF who
<1>11. ASSUME NEW s \in spans, NEW t \in spans, s.position = t.position
       PROVE  s = t
  <2>1. PICK j \in D : SpanIs(edit, j, s) /\ s = [SpanOf(edit, j) EXCEPT !.id = who[j]]
    BY <1>10
  <2>2. PICK k \in D : SpanIs(edit, k, t) /\ t = [SpanOf(edit, k) EXCEPT !.id = who[k]]
    BY <1>10
  <2>3. j = k
    BY <1>11, <2>1, <2>2 DEF SpanIs
  <2> QED
    BY <2>1, <2>2, <2>3
<1>12. \A s \in spans : \E k \in D : s.id = who[k] /\ SpanIs(edit, k, s)
  BY <1>10
<1>13. Grouped(edit, spans, who)
  BY <1>6, <1>7, <1>9, <1>11, <1>12 DEF Grouped
<1> QED
  BY <1>13

\* The files that differ from HEAD: the edited one and a deleted one.
EditedDiff(edit) ==
    [path |-> File(edit), oldPath |-> OldFile(edit), hunks |-> HunksOf(edit.script, edit.context)]

RemovedDiff(edit) ==
    [path |-> Absent, oldPath |-> Deleted(edit),
     hunks |-> IF edit.deletedIn = "" THEN {} ELSE {[newStart |-> 0, lines |-> <<"-">>]}]

Diffs(edit) == RepositoryOf(edit).patch

\* A patch has their diffs as far as they have hunks.
LEMMA DiffsOfEdit ==
  ASSUME NEW edit
  PROVE  /\ edit.state # "tracked" => Diffs(edit) = {}
         /\ edit.state = "tracked" =>
              Diffs(edit) = {file \in {EditedDiff(edit), RemovedDiff(edit)} : file.hunks # {}}
         /\ EditedDiff(edit).path = File(edit)
         /\ EditedDiff(edit).oldPath = OldFile(edit)
         /\ EditedDiff(edit).hunks = HunksOf(edit.script, edit.context)
         /\ RemovedDiff(edit).path = Absent
         /\ RemovedDiff(edit).oldPath = Deleted(edit)
         /\ RemovedDiff(edit).hunks = {} <=> edit.deletedIn = ""
<1>1. Diffs(edit) = IF edit.state = "tracked"
                    THEN {file \in {EditedDiff(edit), RemovedDiff(edit)} : file.hunks # {}} ELSE {}
  BY DEF Diffs, RepositoryOf, EditedDiff, RemovedDiff
<1>2. /\ EditedDiff(edit).path = File(edit)
      /\ EditedDiff(edit).oldPath = OldFile(edit)
      /\ EditedDiff(edit).hunks = HunksOf(edit.script, edit.context)
  BY DEF EditedDiff
<1>3. /\ RemovedDiff(edit).path = Absent
      /\ RemovedDiff(edit).oldPath = Deleted(edit)
      /\ RemovedDiff(edit).hunks = IF edit.deletedIn = "" THEN {} ELSE {[newStart |-> 0, lines |-> <<"-">>]}
  BY DEF RemovedDiff
<1>4. RemovedDiff(edit).hunks = {} <=> edit.deletedIn = ""
  BY <1>3
<1> QED
  BY <1>1, <1>2, <1>3, <1>4

\* The edited file is not the deleted one, and both are files.
LEMMA PathsDiffer ==
  ASSUME NEW edit
  PROVE  /\ File(edit) # Absent
         /\ Deleted(edit) # Absent
         /\ File(edit) # Deleted(edit)
         /\ File(edit).dir = "a" /\ Deleted(edit).dir = edit.deletedIn
         /\ File(edit).language = edit.language /\ Deleted(edit).language = edit.language
<1>1. File(edit).dir = "a" /\ Deleted(edit).dir = edit.deletedIn
  BY DEF File, Deleted
<1>2. File(edit).language = edit.language /\ Deleted(edit).language = edit.language
  BY DEF File, Deleted
<1>3. File(edit).name = "edited" /\ Deleted(edit).name = "deleted" /\ Absent.name = ""
  BY DEF File, Deleted, Absent
<1> QED
  BY <1>1, <1>2, <1>3

\* Where HEAD has the edited file.
LEMMA OldPathDiffers ==
  ASSUME NEW edit, EditType(edit)
  PROVE  /\ OldFile(edit) # Deleted(edit)
         /\ OldFile(edit) = Absent <=> edit.from = "nowhere"
         /\ OldFile(edit) = File(edit) <=> edit.from = "here"
         /\ edit.from # "nowhere" =>
               /\ OldFile(edit).dir = "a" <=> edit.from # "elsewhere"
               /\ OldFile(edit).language = edit.language
<1>1. /\ File(edit).dir = "a" /\ File(edit).name = "edited"
      /\ Deleted(edit).name = "deleted"
      /\ Absent.name = ""
  BY DEF File, Deleted, Absent
<1>2. edit.from \in {"here", "sibling", "elsewhere", "nowhere"}
  BY DEF EditType
<1>3. CASE edit.from = "nowhere"
  <2>1. OldFile(edit) = Absent
    BY <1>3 DEF OldFile
  <2> QED
    BY <1>1, <1>3, <2>1
<1>4. CASE edit.from # "nowhere"
  <2>1. /\ OldFile(edit).dir = IF edit.from = "elsewhere" THEN "c" ELSE "a"
        /\ OldFile(edit).name = IF edit.from = "sibling" THEN "renamed" ELSE "edited"
        /\ OldFile(edit).language = edit.language
    BY <1>4 DEF OldFile
  <2>2. edit.from = "here" => OldFile(edit) = File(edit)
    BY DEF OldFile, File
  <2> QED
    BY <1>1, <1>2, <1>4, <2>1, <2>2
<1> QED
  BY <1>3, <1>4

\* The spans that the patch touches are those of the declarations with a changed line or a
\* removed one right above.
LEMMA TouchedSpans ==
  ASSUME NEW edit, EditType(edit), edit.state = "tracked",
         NEW k \in DOMAIN edit.functions, NEW s, SpanIs(edit, k, s)
  PROVE  /\ (\E file \in Diffs(edit) : file.path = s.path /\ HasDiff(file, s))
               <=> TextChanged(edit, edit.functions[k]) \/ RemovedAbove(edit, edit.functions[k])
         /\ (\E file \in Diffs(edit) : file.path = s.path /\ HasDiff(file, s))
               => EditedDiff(edit) \in Diffs(edit)
<1> DEFINE d == EditedDiff(edit)
<1>1. Diffs(edit) = {file \in {d, RemovedDiff(edit)} : file.hunks # {}}
  BY DiffsOfEdit
<1>2. /\ d.path = File(edit) /\ d.hunks = HunksOf(edit.script, edit.context)
      /\ RemovedDiff(edit).path # File(edit) /\ s.path = File(edit)
  BY DiffsOfEdit, PathsDiffer DEF SpanIs
<1> HIDE DEF d
<1>3. HasDiff(d, s) <=> TextChanged(edit, edit.functions[k]) \/ RemovedAbove(edit, edit.functions[k])
  BY <1>2, FunctionHasDiff DEF SpanIs
<1>4. HasDiff(d, s) => d.hunks # {}
  BY DEF HasDiff
<1> QED
  BY <1>1, <1>2, <1>3, <1>4 DEF d

\* HEAD is asked for the edited file under its old path, unless that is in another directory
\* or, in JavaScript, another path, and in Go for what was deleted next to it.
AskedPaths(edit) ==
    (IF edit.from \in (IF edit.language = "go" THEN {"here", "sibling"} ELSE {"here"}) THEN {OldFile(edit)} ELSE {})
       \cup (IF edit.language = "go" /\ edit.deletedIn = "a" THEN {Deleted(edit)} ELSE {})

LEMMA PathsOfHead ==
  ASSUME NEW edit, EditType(edit), edit.state = "tracked", EditedDiff(edit) \in Diffs(edit),
         NEW spans, spans # {}, \A s \in spans : s.path = File(edit)
  PROVE  BaselinePaths(Diffs(edit), spans) = AskedPaths(edit)
<1> DEFINE files == Diffs(edit)
           d == EditedDiff(edit)
           r == RemovedDiff(edit)
           WithSpans == {file \in files : \E span \in spans : span.path = file.path}
           Directories == {file.path.dir : file \in WithSpans}
           Kept == {g \in files : /\ g.oldPath # Absent
                                  /\ IF IsGo(g.oldPath) THEN g.oldPath.dir \in Directories
                                     ELSE g.oldPath = g.path /\ g \in WithSpans}
<1>1. BaselinePaths(files, spans) = {file.oldPath : file \in Kept}
  BY DEF BaselinePaths
<1>2. /\ d.path = File(edit) /\ d.oldPath = OldFile(edit) /\ r.path = Absent /\ r.oldPath = Deleted(edit)
      /\ d \in files /\ files \subseteq {d, r} /\ (r \in files <=> edit.deletedIn # "")
  BY DiffsOfEdit
<1> HIDE DEF d, r, files
<1>3. WithSpans = {d}
  BY <1>2, PathsDiffer
<1>4. Directories = {"a"}
  <2>1. Directories = {file.path.dir : file \in {d}}
    BY <1>3
  <2>2. d.path.dir = "a"
    BY <1>2, PathsDiffer
  <2> HIDE DEF Directories, WithSpans
  <2> QED
    BY <2>1, <2>2
<1> HIDE DEF WithSpans, Directories
<1>5. d \in Kept <=> edit.from \in (IF edit.language = "go" THEN {"here", "sibling"} ELSE {"here"})
  <2>1. edit.from \in {"here", "sibling", "elsewhere", "nowhere"}
    BY DEF EditType
  <2>2. CASE edit.from = "nowhere"
    BY <1>2, <2>2, OldPathDiffers
  <2>3. CASE edit.from # "nowhere"
    <3>1. /\ IsGo(d.oldPath) <=> edit.language = "go"
          /\ d.oldPath.dir = "a" <=> edit.from # "elsewhere"
          /\ d.oldPath = d.path <=> edit.from = "here"
          /\ d.oldPath # Absent
      BY <1>2, <2>3, OldPathDiffers DEF IsGo
    <3>2. d \in Kept <=> IF edit.language = "go" THEN edit.from # "elsewhere" ELSE edit.from = "here"
      BY <1>2, <1>3, <1>4, <3>1
    <3> HIDE DEF Kept
    <3> QED
      BY <2>1, <2>3, <3>2
  <2> QED
    BY <2>2, <2>3
<1>6. r \in Kept <=> edit.language = "go" /\ edit.deletedIn = "a"
  <2>1. IsGo(r.oldPath) <=> edit.language = "go"
    BY <1>2, PathsDiffer DEF IsGo
  <2>2. r.oldPath.dir = edit.deletedIn /\ r.oldPath # Absent /\ r.oldPath # r.path
    BY <1>2, PathsDiffer
  <2> QED
    BY <1>2, <1>4, <2>1, <2>2
<1>7. Kept \subseteq {d, r}
  BY <1>2
<1> HIDE DEF Kept
<1>8. \A x : x \in {file.oldPath : file \in Kept} <=> (d \in Kept /\ x = d.oldPath) \/ (r \in Kept /\ x = r.oldPath)
  BY <1>7
<1>9. \A x : x \in AskedPaths(edit) <=>
               \/ /\ edit.from \in (IF edit.language = "go" THEN {"here", "sibling"} ELSE {"here"})
                  /\ x = OldFile(edit)
               \/ edit.language = "go" /\ edit.deletedIn = "a" /\ x = Deleted(edit)
  BY DEF AskedPaths
<1>10. \A x : x \in {file.oldPath : file \in Kept} <=> x \in AskedPaths(edit)
  BY <1>2, <1>5, <1>6, <1>8, <1>9
<1> QED
  BY <1>1, <1>10 DEF files

\* A span is in the baseline if a differing file of HEAD that was read had the function; a
\* JavaScript project has to be the root of its repository.
LEMMA BaselineKnows ==
  ASSUME NEW edit, EditType(edit), edit.state = "tracked", EditedDiff(edit) \in Diffs(edit),
         edit.language = "go" \/ ~edit.nested,
         NEW spans, spans # {}, \A s \in spans : s.path = File(edit),
         NEW k \in DOMAIN edit.functions, NEW s, SpanIs(edit, k, s)
  PROVE  SpanKey(s, edit.nested)
            \in BaselineKeys(RepositoryOf(edit).head, BaselinePaths(Diffs(edit), spans), edit.headReadable)
         <=> AtHead(edit, edit.functions[k])
<1> DEFINE head == RepositoryOf(edit).head
           paths == AskedPaths(edit)
           f == edit.functions[k].name
           names == {h.name : h \in edit.was}
<1>1. BaselinePaths(Diffs(edit), spans) = paths
  BY PathsOfHead
<1>2. /\ DOMAIN head \subseteq {OldFile(edit), Deleted(edit)}
      /\ OldFile(edit) \in DOMAIN head <=> "edited" \notin edit.unread
      /\ Deleted(edit) \in DOMAIN head <=> "deleted" \notin edit.unread
      /\ "edited" \notin edit.unread => head[OldFile(edit)] = names
      /\ "deleted" \notin edit.unread => head[Deleted(edit)] = {"g"}
  BY OldPathDiffers DEF RepositoryOf
<1> HIDE DEF head
<1>3. IsFiniteSet(paths)
  <2>1. IsFiniteSet({}) /\ IsFiniteSet({OldFile(edit)}) /\ IsFiniteSet({Deleted(edit)})
    BY FS_EmptySet, FS_Singleton
  <2> QED
    BY <2>1, FS_Union DEF AskedPaths
<1>4. BaselineKeys(head, paths, edit.headReadable)
         = IF edit.headReadable THEN HeadKeys(head, paths \cap DOMAIN head) ELSE {}
  <2>1. edit.headReadable \in BOOLEAN
    BY DEF EditType
  <2> HIDE DEF paths
  <2> QED
    BY <1>3, <2>1, BatchReadsPaths
<1>5. s.name = f /\ s.path = File(edit)
  BY DEF SpanIs
<1> DEFINE asked == edit.from \in (IF edit.language = "go" THEN {"here", "sibling"} ELSE {"here"})
<1>6. \A p : p \in paths \cap DOMAIN head <=>
               \/ asked /\ "edited" \notin edit.unread /\ p = OldFile(edit)
               \/ edit.language = "go" /\ edit.deletedIn = "a" /\ "deleted" \notin edit.unread /\ p = Deleted(edit)
  BY <1>2 DEF AskedPaths
<1> HIDE DEF paths
<1>7. \A key : key \in HeadKeys(head, paths \cap DOMAIN head) <=>
               \/ /\ asked /\ "edited" \notin edit.unread
                  /\ \E n \in names : key = DeclarationKey(OldFile(edit), OldFile(edit), n)
               \/ /\ edit.language = "go" /\ edit.deletedIn = "a" /\ "deleted" \notin edit.unread
                  /\ key = DeclarationKey(Deleted(edit), Deleted(edit), "g")
  <2> DEFINE read == paths \cap DOMAIN head
  <2>1. \A key : key \in HeadKeys(head, read)
                   <=> \E p \in read : \E n \in head[p] : key = DeclarationKey(p, p, n)
    BY DEF HeadKeys
  <2> HIDE DEF read, asked, names
  <2>2. \A p : p \in read <=>
               \/ asked /\ "edited" \notin edit.unread /\ p = OldFile(edit)
               \/ edit.language = "go" /\ edit.deletedIn = "a" /\ "deleted" \notin edit.unread /\ p = Deleted(edit)
    BY <1>6 DEF read
  <2>3. \A key : key \in HeadKeys(head, read) <=>
               \/ /\ asked /\ "edited" \notin edit.unread
                  /\ \E n \in names : key = DeclarationKey(OldFile(edit), OldFile(edit), n)
               \/ /\ edit.language = "go" /\ edit.deletedIn = "a" /\ "deleted" \notin edit.unread
                  /\ key = DeclarationKey(Deleted(edit), Deleted(edit), "g")
    BY <1>2, <2>1, <2>2
  <2> QED
    BY <2>3 DEF read
<1>8. f \in names <=> \E h \in edit.was : h.name = edit.functions[k].name
  OBVIOUS
<1> HIDE DEF names, asked, f
<1>9. SpanKey(s, edit.nested) \in HeadKeys(head, paths \cap DOMAIN head)
         <=> \/ asked /\ "edited" \notin edit.unread /\ f \in names
             \/ edit.language = "go" /\ edit.deletedIn = "a" /\ "deleted" \notin edit.unread /\ f = "g"
  <2>1. CASE edit.language = "go"
    <3>1. IsGo(File(edit)) /\ IsGo(Deleted(edit))
      BY <2>1, PathsDiffer DEF IsGo
    <3>2. SpanKey(s, edit.nested) = <<"go", "a", f>>
      BY <1>5, <3>1, PathsDiffer DEF SpanKey, DeclarationKey
    <3>3. asked => \A n : DeclarationKey(OldFile(edit), OldFile(edit), n) = <<"go", "a", n>>
      <4>1. asked => IsGo(OldFile(edit)) /\ OldFile(edit).dir = "a"
        BY <2>1, OldPathDiffers DEF IsGo, asked
      <4> QED
        BY <4>1 DEF DeclarationKey
    <3>4. DeclarationKey(Deleted(edit), Deleted(edit), "g") = <<"go", edit.deletedIn, "g">>
      BY <3>1, PathsDiffer DEF DeclarationKey
    <3>5. \A n, m : <<"go", "a", n>> = <<"go", "a", m>> <=> n = m
      OBVIOUS
    <3>6. asked => ((\E n \in names : SpanKey(s, edit.nested) = DeclarationKey(OldFile(edit), OldFile(edit), n))
                       <=> f \in names)
      BY <3>2, <3>3, <3>5
    <3>7. edit.deletedIn = "a" =>
             (SpanKey(s, edit.nested) = DeclarationKey(Deleted(edit), Deleted(edit), "g") <=> f = "g")
      BY <3>2, <3>4, <3>5
    <3> QED
      BY <1>7, <3>6, <3>7
  <2>2. CASE edit.language # "go"
    <3>1. ~IsGo(File(edit))
      BY <2>2, PathsDiffer DEF IsGo
    <3>2. SpanKey(s, edit.nested) = <<"javascript", File(edit), File(edit), f>>
      BY <1>5, <2>2, <3>1 DEF SpanKey, DeclarationKey
    <3>3. asked => OldFile(edit) = File(edit)
      BY <2>2, OldPathDiffers DEF asked
    <3>4. \A n : DeclarationKey(File(edit), File(edit), n) = <<"javascript", File(edit), File(edit), n>>
      BY <3>1 DEF DeclarationKey
    <3>5. \A x, n, m : <<"javascript", x, x, n>> = <<"javascript", x, x, m>> <=> n = m
      OBVIOUS
    <3>6. asked => ((\E n \in names : SpanKey(s, edit.nested) = DeclarationKey(OldFile(edit), OldFile(edit), n))
                       <=> f \in names)
      BY <3>2, <3>3, <3>4, <3>5
    <3> QED
      BY <1>7, <2>2, <3>6
  <2> QED
    BY <2>1, <2>2
<1>10. AtHead(edit, edit.functions[k])
          <=> /\ edit.headReadable
              /\ \/ asked /\ "edited" \notin edit.unread /\ f \in names
                 \/ edit.language = "go" /\ edit.deletedIn = "a" /\ "deleted" \notin edit.unread /\ f = "g"
  BY <1>8, PathsDiffer DEF AtHead, asked, f
<1> QED
  BY <1>1, <1>4, <1>9, <1>10 DEF head

Touched(edit, k) ==
    /\ edit.state # "outside"
    /\ \/ Whole(edit)
       \/ TextChanged(edit, edit.functions[k])
       \/ RemovedAbove(edit, edit.functions[k])

\* The changes that are recorded: of touched declarations, under the id of their line.
Recorded(edit, changes, who) ==
    /\ \A c \in changes : \E k \in DOMAIN edit.functions : Touched(edit, k) /\ c.id = who[k]
    /\ \A k \in DOMAIN edit.functions :
          \/ \A j \in Peers(edit, k) : Touched(edit, j)
          \/ edit.language = "go" /\ Touched(edit, k)
          => \E c \in changes : c.id = who[k]
    /\ \A b, c \in changes : b.id = c.id => b = c
    /\ edit.language = "go" \/ ~edit.nested =>
          \A c \in changes :
             Peers(edit, c.id) = {c.id} =>
                (c.kind = "updated" <=> ~Whole(edit) /\ AtHead(edit, edit.functions[c.id]))

\* All functions of a file that git does not know are new.
LEMMA NewRecorded ==
  ASSUME NEW edit, EditType(edit), Whole(edit), NEW spans, NEW who, Grouped(edit, spans, who)
  PROVE  Recorded(edit, NewKind(spans, {File(edit)}), who)
<1> DEFINE changes == NewKind(spans, {File(edit)})
<1>1. \A s \in spans : s.path = File(edit)
  BY DEF Grouped, SpanIs
<1>2. changes = {[id |-> s.id, kind |-> "new"] : s \in spans}
  BY <1>1 DEF NewKind
<1>3. \A k \in DOMAIN edit.functions : Touched(edit, k)
  BY DEF Touched, Whole
<1>4. \A c \in changes : c = [id |-> c.id, kind |-> "new"] /\ c.kind = "new" /\ \E s \in spans : c.id = s.id
  BY <1>2
<1>5. \A s \in spans : \E c \in changes : c.id = s.id
  <2> SUFFICES ASSUME NEW s \in spans PROVE \E c \in changes : c.id = s.id
    OBVIOUS
  <2>1. [id |-> s.id, kind |-> "new"] \in changes /\ [id |-> s.id, kind |-> "new"].id = s.id
    BY <1>2
  <2> HIDE DEF changes
  <2> QED
    BY <2>1
<1> HIDE DEF changes
<1>6. \A c \in changes : \E k \in DOMAIN edit.functions : Touched(edit, k) /\ c.id = who[k]
  BY <1>3, <1>4 DEF Grouped
<1>7. \A k \in DOMAIN edit.functions : \E c \in changes : c.id = who[k]
  BY <1>5 DEF Grouped
<1>8. \A b, c \in changes : b.id = c.id => b = c
  BY <1>4
<1>9. \A c \in changes : c.kind # "updated"
  BY <1>4
<1>10. Recorded(edit, changes, who)
  BY <1>6, <1>7, <1>8, <1>9 DEF Recorded
<1> QED
  BY <1>10 DEF changes

\* A patch changes the declarations it touches, new ones if no differing file of HEAD had them.
LEMMA DiffRecorded ==
  ASSUME NEW edit, EditType(edit), edit.state = "tracked", NEW spans, NEW who, Grouped(edit, spans, who)
  PROVE  Recorded(edit, DiffKind(RepositoryOf(edit), spans), who)
<1> DEFINE D == DOMAIN edit.functions
           changes == DiffKind(RepositoryOf(edit), spans)
           baseline == BaselineKeys(RepositoryOf(edit).head, BaselinePaths(Diffs(edit), spans), edit.headReadable)
           Hit == {s \in spans : \E file \in Diffs(edit) : file.path = s.path /\ HasDiff(file, s)}
           Decisive == {s \in Hit : \A t \in Hit : t.id = s.id => t.position <= s.position}
           Kind(s) == IF SpanKey(s, edit.nested) \in baseline THEN "updated" ELSE "new"
<1>1. changes = {[id |-> s.id, kind |-> Kind(s)] : s \in Decisive}
  <2>1. RepositoryOf(edit).headReadable = edit.headReadable /\ RepositoryOf(edit).nested = edit.nested
    BY DEF RepositoryOf
  <2> QED
    BY <2>1 DEF DiffKind, Diffs
<1>2. \A k \in D : Touched(edit, k)
                      <=> TextChanged(edit, edit.functions[k]) \/ RemovedAbove(edit, edit.functions[k])
  BY DEF Touched, Whole
<1>3. \A s \in spans, k \in D : SpanIs(edit, k, s) => (s \in Hit <=> Touched(edit, k))
  BY <1>2, TouchedSpans
<1>4. \A c \in changes : \E s \in Decisive : c.id = s.id /\ c.kind = Kind(s) /\ c = [id |-> s.id, kind |-> Kind(s)]
  BY <1>1
<1>5. \A s \in Decisive : \E c \in changes : c.id = s.id
  <2> SUFFICES ASSUME NEW s \in Decisive PROVE \E c \in changes : c.id = s.id
    OBVIOUS
  <2>1. [id |-> s.id, kind |-> Kind(s)] \in changes /\ [id |-> s.id, kind |-> Kind(s)].id = s.id
    BY <1>1
  <2> HIDE DEF changes, Decisive, Kind
  <2> QED
    BY <2>1
<1>6. \A s \in spans : s.path = File(edit)
  BY DEF Grouped, SpanIs
<1>7. ASSUME NEW s \in Hit, NEW k \in D, SpanIs(edit, k, s), edit.language = "go" \/ ~edit.nested
      PROVE  Kind(s) = "updated" <=> ~Whole(edit) /\ AtHead(edit, edit.functions[k])
  <2>1. ~Whole(edit)
    BY DEF Whole
  <2>2. EditedDiff(edit) \in Diffs(edit) /\ spans # {}
    BY <1>7, TouchedSpans
  <2>3. SpanKey(s, edit.nested) \in baseline <=> AtHead(edit, edit.functions[k])
    BY <1>6, <1>7, <2>2, BaselineKnows
  <2> HIDE DEF baseline
  <2> QED
    BY <2>1, <2>3
<1> HIDE DEF changes, Kind
<1>8. \A s \in Decisive : s \in spans /\ s \in Hit
  OBVIOUS
<1>9. ASSUME NEW s \in Hit PROVE \E t \in Decisive : t.id = s.id
  <2> DEFINE Places == {t.position : t \in {u \in Hit : u.id = s.id}}
             n == Len(edit.functions)
  <2>1. n \in Nat /\ D = 1..n
    BY DEF EditType, FunctionsType
  <2>2. \A t \in Hit : t.position \in D
    BY DEF Grouped, SpanIs
  <2>3. Places \in SUBSET (0..n) /\ s.position \in Places
    <3>1. \A x \in D : x \in 0..n
      BY <2>1
    <3> HIDE DEF D, Hit, n
    <3> QED
      BY <2>2, <3>1
  <2> HIDE DEF Places, n, Hit
  <2>4. PICK p \in Places : \A x \in Places : x <= p
    BY <2>1, <2>3, GreatestNatural
  <2>5. PICK t \in Hit : t.id = s.id /\ t.position = p
    BY <2>4 DEF Places
  <2>6. \A u \in Hit : u.id = t.id => u.position \in Places
    BY <2>5 DEF Places
  <2>7. \A u \in Hit : u.id = t.id => u.position <= t.position
    BY <2>4, <2>5, <2>6
  <2> QED
    BY <2>5, <2>7
<1>10. ASSUME NEW s \in Decisive, NEW t \in Decisive, s.id = t.id PROVE s = t
  <2>1. s.position <= t.position /\ t.position <= s.position
    BY <1>10
  <2>2. s.position \in D /\ t.position \in D
    BY <1>8 DEF Grouped, SpanIs
  <2>3. s.position \in Nat /\ t.position \in Nat
    <3>1. D = 1..Len(edit.functions)
      BY DEF EditType, FunctionsType
    <3> QED
      BY <2>2, <3>1
  <2>4. s.position = t.position
    BY <2>1, <2>3
  <2> QED
    BY <1>8, <2>4 DEF Grouped
<1>11. ASSUME NEW k \in D, (\A j \in Peers(edit, k) : Touched(edit, j)) \/ (edit.language = "go" /\ Touched(edit, k))
       PROVE  \E s \in Decisive : s.id = who[k]
  <2>1. PICK j \in Peers(edit, k) : /\ edit.language = "go" => j = k
                                    /\ \E s \in spans : s.id = who[k] /\ SpanIs(edit, j, s)
    BY DEF Grouped
  <2>2. PICK s \in spans : s.id = who[k] /\ SpanIs(edit, j, s)
    BY <2>1
  <2>3. Touched(edit, j) /\ j \in D
    BY <1>11, <2>1 DEF Peers
  <2>4. s \in Hit
    BY <1>3, <2>2, <2>3
  <2> QED
    BY <1>9, <2>2, <2>4
<1>12. \A c \in changes : \E k \in D : Touched(edit, k) /\ c.id = who[k]
  <2> SUFFICES ASSUME NEW c \in changes PROVE \E k \in D : Touched(edit, k) /\ c.id = who[k]
    OBVIOUS
  <2>1. PICK s \in Decisive : c.id = s.id
    BY <1>4
  <2>2. PICK k \in D : s.id = who[k] /\ SpanIs(edit, k, s)
    BY <1>8, <2>1 DEF Grouped
  <2> QED
    BY <1>3, <1>8, <2>1, <2>2
<1>13. \A b, c \in changes : b.id = c.id => b = c
  <2> HIDE DEF Decisive
  <2> QED
    BY <1>4, <1>10
<1>14. ASSUME edit.language = "go" \/ ~edit.nested, NEW c \in changes, Peers(edit, c.id) = {c.id}
       PROVE  c.kind = "updated" <=> ~Whole(edit) /\ AtHead(edit, edit.functions[c.id])
  <2>1. PICK s \in Decisive : c.id = s.id /\ c.kind = Kind(s)
    BY <1>4
  <2>2. PICK k \in D : s.id = who[k] /\ SpanIs(edit, k, s)
    BY <1>8, <2>1 DEF Grouped
  <2>3. c.id \in Peers(edit, k)
    BY <2>1, <2>2 DEF Grouped
  <2>4. k \in Peers(edit, c.id)
    BY <2>3, PeersShare
  <2>5. k = c.id
    BY <1>14, <2>4
  <2> QED
    BY <1>7, <1>8, <1>14, <2>1, <2>2, <2>5
<1>15. \A k \in D :
          \/ \A j \in Peers(edit, k) : Touched(edit, j)
          \/ edit.language = "go" /\ Touched(edit, k)
          => \E c \in changes : c.id = who[k]
  <2> HIDE DEF Decisive
  <2> QED
    BY <1>5, <1>11
<1>16. Recorded(edit, changes, who)
  BY <1>12, <1>13, <1>14, <1>15 DEF Recorded
<1> QED
  BY <1>16 DEF changes

\* Whatever the state of the repository, the changes are those of declarations that are touched.
LEMMA ChangesRecorded ==
  ASSUME NEW edit, EditType(edit), NEW changes \in CaptureGitSnapshot(RepositoryOf(edit), FunctionsOf(edit))
  PROVE  \E who : /\ \A k \in DOMAIN edit.functions : who[k] \in Peers(edit, k)
                  /\ Recorded(edit, changes, who)
<1> DEFINE repository == RepositoryOf(edit)
<1>1. PICK spans \in SpanChoices(FunctionsOf(edit)) : changes = ChangesOf(repository, spans)
  BY DEF CaptureGitSnapshot
<1>2. PICK who : Grouped(edit, spans, who)
  BY <1>1, ChosenSpans
<1>3. \A k \in DOMAIN edit.functions : who[k] \in Peers(edit, k)
  BY <1>2 DEF Grouped
<1>4. /\ repository.available <=> edit.state # "outside"
      /\ repository.unborn <=> edit.state = "unborn"
      /\ repository.listed = {File(edit)}
      /\ repository.untracked = IF edit.state = "tracked" THEN {} ELSE {File(edit)}
      /\ repository.patch = Diffs(edit)
  BY DEF RepositoryOf, Diffs
<1>5. Recorded(edit, changes, who)
  <2>1. CASE edit.state = "outside"
    <3>1. changes = {}
      BY <1>1, <1>4, <2>1 DEF ChangesOf
    <3>2. \A k \in DOMAIN edit.functions : k \in Peers(edit, k) /\ ~Touched(edit, k)
      BY <2>1, PeersShare DEF Touched
    <3> QED
      BY <3>1, <3>2 DEF Recorded
  <2>2. CASE edit.state = "unborn"
    <3>1. changes = NewKind(spans, {File(edit)})
      BY <1>1, <1>4, <2>2 DEF ChangesOf
    <3> QED
      BY <1>2, <2>2, <3>1, NewRecorded DEF Whole
  <2>3. CASE edit.state = "untracked"
    <3> DEFINE new == NewKind(spans, {File(edit)})
               diff == DiffKind(repository, spans)
    <3>1. diff = {}
      <4> DEFINE Hit == {s \in spans : \E file \in repository.patch : file.path = s.path /\ HasDiff(file, s)}
                 Decisive == {s \in Hit : \A t \in Hit : t.id = s.id => t.position <= s.position}
      <4>1. repository.patch = {}
        BY <1>4, <2>3, DiffsOfEdit
      <4> HIDE DEF repository
      <4>2. Decisive = {}
        BY <4>1
      <4>3. \A c \in diff : \E s \in Decisive : TRUE
        BY DEF DiffKind
      <4> QED
        BY <4>2, <4>3
    <3>2. changes = new \cup {c \in diff : \A u \in new : u.id # c.id}
      <4> HIDE DEF repository
      <4> QED
        BY <1>1, <1>4, <2>3 DEF ChangesOf
    <3>3. changes = new
      BY <3>1, <3>2
    <3> QED
      BY <1>2, <2>3, <3>3, NewRecorded DEF Whole
  <2>4. CASE edit.state = "tracked"
    <3> DEFINE new == NewKind(spans, {})
               diff == DiffKind(repository, spans)
    <3>1. new = {}
      BY DEF NewKind
    <3>2. changes = new \cup {c \in diff : \A u \in new : u.id # c.id}
      <4> HIDE DEF repository
      <4> QED
        BY <1>1, <1>4, <2>4 DEF ChangesOf
    <3>3. changes = diff
      <4> HIDE DEF new, diff
      <4> QED
        BY <3>1, <3>2
    <3> QED
      BY <1>2, <2>4, <3>3, DiffRecorded
  <2> QED
    BY <2>1, <2>2, <2>3, <2>4 DEF EditType
<1> QED
  BY <1>3, <1>5

\* The changes that are answered are attributed to the declarations of their line.
LEMMA AttributionFollows ==
  RequestInv => ChangesAttributed
<1> SUFFICES ASSUME RequestInv, Answered("changes") PROVE ChangesAttributed
  BY DEF ChangesAttributed
<1> DEFINE edit == request.edit
           changes == answer.value
           D == DOMAIN edit.functions
           Changed(k) == Whole(edit) \/ TextChanged(edit, edit.functions[k])
<1>1. EditType(edit) /\ changes \in CaptureGitSnapshot(RepositoryOf(edit), FunctionsOf(edit))
  BY DEF RequestInv, AnswerIsComputed, ChangesAnswers, WellFormed, Answered
<1> HIDE DEF edit, changes
<1>2. PICK who : /\ \A k \in D : who[k] \in Peers(edit, k)
                 /\ Recorded(edit, changes, who)
  BY <1>1, ChangesRecorded
<1>3. ASSUME NEW c \in changes
      PROVE  /\ c.id \in D
             /\ \E j \in Peers(edit, c.id) : Changed(j) \/ RemovedAbove(edit, edit.functions[j])
             /\ edit.state # "outside"
  <2>1. PICK k \in D : Touched(edit, k) /\ c.id = who[k]
    BY <1>2, <1>3 DEF Recorded
  <2>2. c.id \in D /\ k \in Peers(edit, c.id)
    BY <1>2, <2>1, PeersShare
  <2> QED
    BY <2>1, <2>2 DEF Touched
<1>4. edit.state = "outside" => changes = {}
  BY <1>3
<1>5. ASSUME edit.state # "outside", NEW k \in D,
             (\A j \in Peers(edit, k) : Changed(j)) \/ (edit.language = "go" /\ Changed(k))
      PROVE  \E c \in changes : c.id \in Peers(edit, k)
  <2>1. \A j : Changed(j) => Touched(edit, j)
    BY <1>5 DEF Touched
  <2> HIDE DEF Changed
  <2>2. PICK c \in changes : c.id = who[k]
    BY <1>2, <1>5, <2>1 DEF Recorded
  <2> QED
    BY <1>2, <2>2
<1>6. /\ \A b, c \in changes : b.id = c.id => b = c
      /\ edit.language = "go" \/ ~edit.nested =>
            \A c \in changes :
               Peers(edit, c.id) = {c.id} =>
                  (c.kind = "updated" <=> ~Whole(edit) /\ AtHead(edit, edit.functions[c.id]))
  BY <1>2 DEF Recorded
<1> QED
  BY <1>3, <1>4, <1>5, <1>6 DEF ChangesAttributed, edit, changes

\* For any edit, context and choice of git's hunks, and whatever state the repository is in,
\* functions with a changed line are listed, others only if they close up to removed lines,
\* and those of a line of their own are new or updated by what the differing files of HEAD
\* that could be read had, renamed or missing ones included (captureGitSnapshot,
\* hunkTouchesSpan, baselinePaths).
THEOREM ChangesAreAttributed == AnswersSpec => []ChangesAttributed
  BY RequestInvAlways, AttributionFollows, PTL

-----------------------------------------------------------------------------
(* The calls of Go functions.                                              *)

\* A site of which a callee is known leaves an edge or a fact of its package; any other
\* site, and a callee that only the call graph knows, leaves the function open.
LEMMA SitesAreReported ==
  ASSUME NEW load, NEW f, NEW s \in f.sites, GoSite(s), s.how # "builtin"
  PROVE  /\ s.callees = {} => "otherCall" \in Reported(load, f).facts
         /\ \A c \in s.callees :
               \/ /\ c \in Symbols(load)
                  /\ \E e \in Reported(load, f).edges : e.callee = c
               \/ "otherCall" \in Reported(load, f).facts
               \/ /\ s.how = "static"
                  /\ CallFact(load.packages[load.functions[c].package].importPath)
                        \in Reported(load, f).facts
<1>1. Unknown = "otherCall"
  BY DEF Unknown, CallFact
<1>2. s \in Static(f) \/ s \in Dynamic(f)
  BY DEF GoSite, Static, Dynamic
<1>3. /\ Reported(load, f).edges = StaticEdges(load, f) \cup DynamicEdges(load, f)
      /\ StaticFacts(load, f) \subseteq Reported(load, f).facts
      /\ DynamicFacts(load, f) \subseteq Reported(load, f).facts
      /\ UnresolvedFacts(f) \subseteq Reported(load, f).facts
  BY DEF Reported
<1>4. ASSUME s.callees = {} PROVE "otherCall" \in Reported(load, f).facts
  <2>1. s \in Dynamic(f)
    BY <1>2, <1>4 DEF GoSite, Static
  <2> QED
    BY <1>1, <1>3, <1>4, <2>1 DEF UnresolvedFacts
<1>5. ASSUME NEW c \in s.callees, c \in Symbols(load)
      PROVE  \E e \in Reported(load, f).edges : e.callee = c
  <2>1. CASE s \in Static(f)
    <3>1. [callee |-> c, dynamic |-> FALSE] \in StaticEdges(load, f)
      BY <1>5, <2>1 DEF StaticEdges
    <3> QED
      BY <1>3, <3>1
  <2>2. CASE s \in Dynamic(f)
    <3>1. [callee |-> c, dynamic |-> TRUE] \in DynamicEdges(load, f)
      BY <1>5, <2>2 DEF DynamicEdges
    <3> QED
      BY <1>3, <3>1
  <2> QED
    BY <1>2, <2>1, <2>2
<1>6. ASSUME NEW c \in s.callees, c \notin Symbols(load), s \in Static(f)
      PROVE  /\ s.how = "static"
             /\ CallFact(load.packages[load.functions[c].package].importPath)
                   \in Reported(load, f).facts
  BY <1>3, <1>6 DEF StaticFacts, Static
<1>7. ASSUME NEW c \in s.callees, c \notin Symbols(load), s \in Dynamic(f)
      PROVE  "otherCall" \in Reported(load, f).facts
  BY <1>1, <1>3, <1>7 DEF DynamicFacts
<1> QED
  BY <1>2, <1>4, <1>5, <1>6, <1>7

\* Every callee a site may have is an edge of the index or leaves a fact, and a site of
\* which nothing is known leaves its function open, whatever was loaded
\* (markUnresolvedDynamicCalls, collectRelationships).
THEOREM GoCallsAreAccounted == AnswersSpec => []GoCallsAccounted
<1>1. RequestInv => GoCallsAccounted
  <2> SUFFICES ASSUME RequestInv, Answered("go") PROVE GoCallsAccounted
    BY DEF GoCallsAccounted
  <2> DEFINE load == request.load
  <2>1. /\ \A f \in DOMAIN load.functions : \A s \in load.functions[f].sites : GoSite(s)
        /\ answer.value = GoAnswer(request)
    BY DEF RequestInv, WellFormed, AnswerIsComputed, Answered
  <2>2. DOMAIN answer.value = Symbols(load) /\ Symbols(load) \subseteq DOMAIN load.functions
    BY <2>1 DEF GoAnswer, Symbols
  <2>3. \A f \in Symbols(load) : answer.value[f] = Reported(load, load.functions[f])
    BY <2>1 DEF GoAnswer
  <2>4. "otherCall" \in OpenFacts
    BY DEF OpenFacts
  <2>5. ASSUME NEW f \in Symbols(load), NEW s \in load.functions[f].sites, s.how # "builtin"
        PROVE  /\ s.callees = {} => answer.value[f].facts \cap OpenFacts # {}
               /\ \A c \in s.callees :
                     \/ /\ \E e \in answer.value[f].edges : e.callee = c
                        /\ c \in DOMAIN answer.value
                     \/ answer.value[f].facts \cap OpenFacts # {}
                     \/ /\ s.how = "static"
                        /\ answer.value[f].facts
                             \cap {CallFact(load.packages[load.functions[c].package].importPath)} # {}
    <3>1. GoSite(s)
      BY <2>1, <2>2, <2>5
    <3> HIDE DEF load
    <3> QED
      BY <2>2, <2>3, <2>4, <2>5, <3>1, SitesAreReported
  <2> QED
    BY <2>2, <2>5 DEF GoCallsAccounted
<1> QED
  BY <1>1, RequestInvAlways, PTL

-----------------------------------------------------------------------------
(* The direct calls of JavaScript functions.                               *)

\* What linkImports has exported and bound when it has linked the first i files.
ListedAfter(tree, i) ==
    [j \in DOMAIN tree |-> IF j <= i THEN Over(ListedExports(tree, j), DeclaredExports(tree, j))
                           ELSE DeclaredExports(tree, j)]
BoundIn(tree, j) == Over(OwnEntities(tree, j), Imported(tree, ListedAfter(tree, j - 1), j))
LinkedUpTo(tree, i) ==
    [exports |-> ListedAfter(tree, i), bound |-> [j \in 1..i |-> BoundIn(tree, j)]]

\* A sequence of the first files continues with the next.
LEMMA AppendsNext ==
  ASSUME NEW i \in Nat, NEW f, DOMAIN f = 1..(i + 1), f = [j \in 1..(i + 1) |-> f[j]]
  PROVE  Append([j \in 1..i |-> f[j]], f[i + 1]) = f
<1> DEFINE S == {f[j] : j \in 1..(i + 1)}
           g == [j \in 1..i |-> f[j]]
<1>1. g \in [1..i -> S] /\ f[i + 1] \in S /\ f \in [1..(i + 1) -> S]
  OBVIOUS
<1>2. \A j \in 1..i : g[j] = f[j]
  OBVIOUS
<1> HIDE DEF S, g
<1>3. g \in Seq(S) /\ Len(g) = i /\ f \in Seq(S) /\ Len(f) = i + 1
  BY <1>1
<1>4. /\ Append(g, f[i + 1]) \in Seq(S)
      /\ Len(Append(g, f[i + 1])) = i + 1
      /\ \A j \in 1..i : Append(g, f[i + 1])[j] = f[j]
      /\ Append(g, f[i + 1])[i + 1] = f[i + 1]
  <2>1. \A s \in Seq(S), e \in S : /\ Append(s, e) \in Seq(S)
                                   /\ Len(Append(s, e)) = Len(s) + 1
                                   /\ \A j \in 1..Len(s) : Append(s, e)[j] = s[j]
                                   /\ Append(s, e)[Len(s) + 1] = e
    <3> SUFFICES ASSUME NEW s \in Seq(S), NEW e \in S
                 PROVE  /\ Append(s, e) \in Seq(S)
                        /\ Len(Append(s, e)) = Len(s) + 1
                        /\ \A j \in 1..Len(s) : Append(s, e)[j] = s[j]
                        /\ Append(s, e)[Len(s) + 1] = e
      OBVIOUS
    <3> QED
      BY AppendProperties
  <2>2. Len(g) = i /\ g \in Seq(S) /\ f[i + 1] \in S
    BY <1>1, <1>3
  <2> QED
    BY <1>2, <2>1, <2>2, Zenon
<1>5. \A j \in 1..(i + 1) : j \in 1..i \/ j = i + 1
  OBVIOUS
<1>6. \A j \in 1..Len(f) : Append(g, f[i + 1])[j] = f[j]
  <2>1. \A j \in 1..(i + 1) : Append(g, f[i + 1])[j] = f[j]
    BY <1>4, <1>5, Zenon
  <2> QED
    BY <1>3, <2>1
<1>7. Append(g, f[i + 1]) = f
  BY <1>3, <1>4, <1>6, SeqEqual
<1> QED
  BY <1>7 DEF g

\* One file more is linked: its listed exports are added, its names bound.
LEMMA LinkStep ==
  ASSUME NEW tree, DOMAIN tree = 1..Len(tree), Len(tree) \in Nat, NEW i \in 1..Len(tree)
  PROVE  LinkFile(tree, LinkedUpTo(tree, i - 1), i) = LinkedUpTo(tree, i)
<1> DEFINE before == ListedAfter(tree, i - 1)
           Exported(j) == Over(ListedExports(tree, j), DeclaredExports(tree, j))
           bound == [j \in 1..i |-> BoundIn(tree, j)]
<1>1. [before EXCEPT ![i] = Over(ListedExports(tree, i), @)] = ListedAfter(tree, i)
  <2>1. DOMAIN before = DOMAIN tree /\ before[i] = DeclaredExports(tree, i)
    BY DEF ListedAfter
  <2>2. \A j \in DOMAIN tree : (j <= i <=> j <= i - 1 \/ j = i) /\ (j = i => ~(j <= i - 1))
    OBVIOUS
  <2>3. [before EXCEPT ![i] = Over(ListedExports(tree, i), @)]
          = [j \in DOMAIN tree |-> IF j = i THEN Exported(i) ELSE before[j]]
    BY <2>1
  <2>4. \A j \in DOMAIN tree : (IF j = i THEN Exported(i) ELSE before[j])
                              = (IF j <= i THEN Exported(j) ELSE DeclaredExports(tree, j))
    BY <2>2 DEF ListedAfter
  <2> HIDE DEF before, Exported
  <2> QED
    BY <2>3, <2>4 DEF ListedAfter, Exported
<1>2. Append([j \in 1..(i - 1) |-> BoundIn(tree, j)], BoundIn(tree, i)) = bound
  <2>1. i - 1 \in Nat /\ (i - 1) + 1 = i
    OBVIOUS
  <2>2. DOMAIN bound = 1..i /\ bound = [j \in 1..i |-> bound[j]] /\ bound[i] = BoundIn(tree, i)
    OBVIOUS
  <2>3. [j \in 1..(i - 1) |-> bound[j]] = [j \in 1..(i - 1) |-> BoundIn(tree, j)]
    OBVIOUS
  <2> HIDE DEF bound
  <2> QED
    BY <2>1, <2>2, <2>3, AppendsNext
<1> QED
  BY <1>1, <1>2 DEF LinkFile, LinkedUpTo, BoundIn

\* What linkImports leaves when it has been through all files.
LEMMA LinkImportsUnfolds ==
  ASSUME NEW tree, DOMAIN tree = 1..Len(tree), Len(tree) \in Nat
  PROVE  LinkImports(tree) = LinkedUpTo(tree, Len(tree))
<1> DEFINE n == Len(tree)
           base == [exports |-> [j \in DOMAIN tree |-> DeclaredExports(tree, j)], bound |-> <<>>]
           L == [i \in 0..n |-> LinkedUpTo(tree, i)]
<1>1. LinkedUpTo(tree, 0) = base
  <2>1. ListedAfter(tree, 0) = [j \in DOMAIN tree |-> DeclaredExports(tree, j)]
    BY DEF ListedAfter
  <2>2. [j \in 1..0 |-> BoundIn(tree, j)] = <<>>
    OBVIOUS
  <2> QED
    BY <2>1, <2>2 DEF LinkedUpTo
<1>2. L = [i \in 0..n |-> IF i = 0 THEN base ELSE LinkFile(tree, L[i - 1], i)]
  <2>1. \A i \in 0..n : i # 0 => i \in 1..n /\ i - 1 \in 0..n
    OBVIOUS
  <2>2. \A i \in 0..n : i # 0 => L[i] = LinkFile(tree, L[i - 1], i)
    BY <2>1, LinkStep
  <2>3. \A i \in 0..n : L[i] = IF i = 0 THEN base ELSE LinkFile(tree, L[i - 1], i)
    <3>1. L[0] = base
      BY <1>1
    <3> HIDE DEF L, base
    <3> QED
      BY <2>2, <3>1
  <2>4. L = [i \in 0..n |-> L[i]]
    OBVIOUS
  <2> HIDE DEF L, base
  <2> QED
    BY <2>3, <2>4
<1> DEFINE F == CHOOSE f : f = [i \in 0..n |-> IF i = 0 THEN base ELSE LinkFile(tree, f[i - 1], i)]
<1>3. F = [i \in 0..n |-> IF i = 0 THEN base ELSE LinkFile(tree, F[i - 1], i)]
  <2> HIDE DEF L, base
  <2> QED
    BY <1>2
<1>4. LinkImports(tree) = F[n]
  BY DEF LinkImports, base
<1> HIDE DEF F, base
<1> DEFINE P == {i \in 0..n : F[i] = LinkedUpTo(tree, i)}
<1>5. 0 \in P
  <2>1. 0 \in 0..n
    OBVIOUS
  <2> QED
    BY <1>1, <1>3, <2>1
<1>6. \A i \in 1..n : i - 1 \in P => i \in P
  <2> SUFFICES ASSUME NEW i \in 1..n, i - 1 \in P PROVE i \in P
    OBVIOUS
  <2>1. i \in 0..n /\ i # 0
    OBVIOUS
  <2>2. F[i] = LinkFile(tree, F[i - 1], i)
    BY <1>3, <2>1
  <2> QED
    BY <2>1, <2>2, LinkStep
<1>7. n \in P
  <2> HIDE DEF P
  <2>1. 0..n \subseteq P
    BY <1>5, <1>6, BoundedInduction
  <2> QED
    BY <2>1
<1> QED
  BY <1>4, <1>7

\* A module that resolves does so to a file of the tree.
LEMMA ResolvesToFile ==
  ASSUME NEW tree, NEW module
  PROVE  ResolveModule(tree, module) \in DOMAIN tree \cup {NoFile}
<1> DEFINE Position(e) == SelectInSeq(moduleExtensions, LAMBDA x : x = e)
<1>1. ASSUME NEW ext PROVE Position(ext) \in Nat
  <2> DEFINE I == {i \in 1..Len(moduleExtensions) : moduleExtensions[i] = ext}
             least == CHOOSE x \in I : \A y \in I : x <= y
  <2>1. Position(ext) = IF I # {} THEN least ELSE 0
    BY DEF SelectInSeq, Min
  <2>2. I \in SUBSET Nat
    BY DEF moduleExtensions
  <2> HIDE DEF I, Position
  <2>3. I # {} => \E x \in I : \A y \in I : x <= y
    BY <2>2, LeastNatural
  <2>4. I # {} => least \in I
    BY <2>3
  <2> DEFINE p == Position(ext)
  <2> SUFFICES p \in Nat
    OBVIOUS
  <2>5. p = IF I # {} THEN least ELSE 0
    BY <2>1
  <2> HIDE DEF least, p
  <2> QED
    BY <2>2, <2>4, <2>5
<1> DEFINE Matching == {i \in DOMAIN tree :
                      /\ ~module.package
                      /\ tree[i].base = module.base
                      /\ module.ext \in {"", tree[i].ext}
                      /\ tree[i].index => module.ext = ""}
           Rank(i) == (IF tree[i].index THEN Len(moduleExtensions) ELSE 0) + Position(tree[i].ext)
<1>2. \A i : Rank(i) \in Nat
  <2> HIDE DEF Position
  <2> QED
    BY <1>1 DEF moduleExtensions
<1>3. ResolveModule(tree, module)
        = IF Matching = {} THEN NoFile
          ELSE CHOOSE i \in Matching : \A j \in Matching : Rank(i) <= Rank(j)
  BY DEF ResolveModule
<1>4. Matching \subseteq DOMAIN tree
  OBVIOUS
<1> HIDE DEF Matching, Rank
<1>5. ASSUME Matching # {} PROVE \E i \in Matching : \A j \in Matching : Rank(i) <= Rank(j)
  <2> DEFINE R == {Rank(i) : i \in Matching}
  <2>1. R \in SUBSET Nat /\ R # {}
    BY <1>2, <1>5
  <2>2. PICK m \in R : \A k \in R : m <= k
    <3> HIDE DEF R
    <3> QED
      BY <2>1, LeastNatural
  <2> QED
    BY <2>2
<1> QED
  BY <1>3, <1>4, <1>5

\* What modules export themselves is among what they may export.
LEMMA OwnMayBeExported ==
  ASSUME NEW tree, Len(tree) \in Nat
  PROVE  OwnExports(tree) \subseteq MayExport(tree)
<1> DEFINE own == OwnExports(tree)
           d == 2 * Len(tree)
           names == {x.name : x \in own}
                      \cup UNION {{r.local : r \in ToSet(tree[i].reexports)} : i \in DOMAIN tree}
           U == [file : DOMAIN tree, name : names, entity : {x.entity : x \in own}]
           S == SUBSET U
           step == [n \in 1..d |-> [X \in S |-> X \cup PassedOn(tree, X)]]
<1>1. own \in S
  <2> SUFFICES ASSUME NEW x \in own PROVE x \in U
    OBVIOUS
  <2>1. PICK i \in DOMAIN tree : x = [file |-> i, name |-> x.name, entity |-> x.entity]
    BY DEF OwnExports
  <2>2. x.name \in names /\ x.entity \in {y.entity : y \in own}
    OBVIOUS
  <2> HIDE DEF names, own
  <2> QED
    BY <2>1, <2>2
<1>2. ASSUME NEW X \in S PROVE PassedOn(tree, X) \in S
  <2> SUFFICES ASSUME NEW y \in PassedOn(tree, X) PROVE y \in U
    OBVIOUS
  <2>1. PICK i \in DOMAIN tree :
           \E r \in ToSet(tree[i].reexports), x \in X :
              y = [file |-> i, name |-> IF r.all THEN x.name ELSE r.local, entity |-> x.entity]
    BY DEF PassedOn
  <2>2. PICK r \in ToSet(tree[i].reexports), x \in X :
           y = [file |-> i, name |-> IF r.all THEN x.name ELSE r.local, entity |-> x.entity]
    BY <2>1
  <2>3. x \in U
    OBVIOUS
  <2>4. x.name \in names /\ x.entity \in {z.entity : z \in own} /\ r.local \in names
    <3>1. r.local \in names
      OBVIOUS
    <3> HIDE DEF names
    <3> QED
      BY <2>3, <3>1
  <2> HIDE DEF names, own
  <2> QED
    BY <2>2, <2>4
<1>3. d \in Nat
  OBVIOUS
<1> HIDE DEF U, d, own
<1>4. step \in [1..d -> [S -> S]]
  BY <1>2
<1>5. \A n \in 1..d : \A X \in S : step[n][X] = X \cup PassedOn(tree, X)
  OBVIOUS
<1> HIDE DEF step, S
<1>6. PICK L \in [0..d -> S] : Recursive(L, d, own, step)
  BY <1>1, <1>3, <1>4, RecursionExists
<1>7. L = [n \in 0..d |-> IF n = 0 THEN own ELSE L[n - 1] \cup PassedOn(tree, L[n - 1])]
  <2>1. \A n \in 0..d : n # 0 => n \in 1..d /\ L[n - 1] \in S
    BY <1>3, <1>6
  <2>2. \A n \in 0..d : (IF n = 0 THEN own ELSE step[n][L[n - 1]])
                         = (IF n = 0 THEN own ELSE L[n - 1] \cup PassedOn(tree, L[n - 1]))
    BY <1>5, <2>1
  <2> QED
    BY <1>6, <2>2 DEF Recursive
<1> DEFINE K == CHOOSE M : M = [n \in 0..d |-> IF n = 0 THEN own
                                              ELSE M[n - 1] \cup PassedOn(tree, M[n - 1])]
<1>8. K = [n \in 0..d |-> IF n = 0 THEN own ELSE K[n - 1] \cup PassedOn(tree, K[n - 1])]
  BY <1>7
<1>9. MayExport(tree) = K[d]
  BY DEF MayExport, own, d
<1> HIDE DEF K
<1> DEFINE P == {n \in 0..d : own \subseteq K[n]}
<1>10. 0 \in P
  <2>1. 0 \in 0..d
    BY <1>3
  <2> QED
    BY <1>8, <2>1
<1>11. \A n \in 1..d : n - 1 \in P => n \in P
  <2> SUFFICES ASSUME NEW n \in 1..d, n - 1 \in P PROVE n \in P
    OBVIOUS
  <2>1. n \in 0..d /\ n # 0
    BY <1>3
  <2>2. K[n] = K[n - 1] \cup PassedOn(tree, K[n - 1])
    BY <1>8, <2>1
  <2> QED
    BY <2>1, <2>2
<1>12. d \in P
  <2> HIDE DEF P
  <2>1. 0..d \subseteq P
    BY <1>3, <1>10, <1>11, BoundedInduction
  <2> QED
    BY <1>3, <2>1
<1> QED
  BY <1>9, <1>12 DEF own

\* What an import of file i finds when its turn comes is what its module declares or lists.
LEMMA FoundIsExported ==
  ASSUME NEW tree, NEW i, NEW j \in DOMAIN tree, NEW n,
         n \in DOMAIN ListedAfter(tree, i)[j]
  PROVE  [file |-> j, name |-> n, entity |-> ListedAfter(tree, i)[j][n]] \in OwnExports(tree)
<1> DEFINE listed == ListedExports(tree, j)
           declared == DeclaredExports(tree, j)
           e == ListedAfter(tree, i)[j][n]
<1>1. \/ n \in DOMAIN listed /\ e = listed[n]
      \/ n \in DOMAIN declared /\ e = declared[n]
  <2>1. ListedAfter(tree, i)[j] = IF j <= i THEN Over(listed, declared) ELSE declared
    BY DEF ListedAfter
  <2> HIDE DEF listed, declared
  <2> QED
    BY <2>1 DEF Over
<1> HIDE DEF listed, declared, e
<1>2. [file |-> j, name |-> n, entity |-> e]
         \in {[file |-> j, name |-> m, entity |-> declared[m]] : m \in DOMAIN declared}
               \cup {[file |-> j, name |-> m, entity |-> listed[m]] : m \in DOMAIN listed}
  BY <1>1
<1> QED
  BY <1>2 DEF OwnExports, listed, declared, e

\* What an import binds is what its name denotes in the language.
LEMMA ImportsDenoted ==
  ASSUME NEW tree, ModulesType(tree), NEW i \in DOMAIN tree, NEW name,
         name \in DOMAIN BoundIn(tree, i)
  PROVE  BoundIn(tree, i)[name] \in Denoted(tree, i, name)
<1> DEFINE own == OwnEntities(tree, i)
           exports == ListedAfter(tree, i - 1)
           imported == Imported(tree, exports, i)
           From(b) == ResolveModule(tree, b.module)
           Located == {b \in tree[i].imports : From(b) # NoFile /\ b.remote \in DOMAIN exports[From(b)]}
           Binding(n) == CHOOSE b \in Located : b.local = n
<1>1. BoundIn(tree, i) = Over(own, imported)
  BY DEF BoundIn
<1>2. CASE name \in DOMAIN own
  <2>1. BoundIn(tree, i)[name] = own[name]
    <3> HIDE DEF own, imported
    <3> QED
      BY <1>1, <1>2 DEF Over
  <2> QED
    BY <1>2, <2>1 DEF Denoted
<1>3. CASE name \notin DOMAIN own
  <2>1. name \in DOMAIN imported /\ BoundIn(tree, i)[name] = imported[name]
    <3> HIDE DEF own, imported
    <3> QED
      BY <1>1, <1>3 DEF Over
  <2>2. imported = [n \in {b.local : b \in Located} |-> exports[From(Binding(n))][Binding(n).remote]]
    BY DEF Imported
  <2> HIDE DEF imported, own
  <2>3. \E b \in Located : b.local = name
    BY <2>1, <2>2
  <2> DEFINE b == Binding(name)
             j == From(b)
  <2>4. b \in Located /\ b.local = name
    BY <2>3
  <2>5. imported[name] = exports[j][b.remote]
    <3> HIDE DEF Located, exports, From, Binding
    <3> QED
      BY <2>1, <2>2
  <2> HIDE DEF Binding, b
  <2>6. b \in tree[i].imports /\ j # NoFile /\ b.remote \in DOMAIN exports[j]
    BY <2>4
  <2>7. j \in DOMAIN tree
    BY <2>6, ResolvesToFile
  <2> DEFINE x == [file |-> j, name |-> b.remote, entity |-> exports[j][b.remote]]
  <2> HIDE DEF j
  <2>8. x \in OwnExports(tree)
    BY <2>6, <2>7, FoundIsExported
  <2>9. x \in MayExport(tree)
    BY <2>8, OwnMayBeExported DEF ModulesType
  <2>10. x.file = ResolveModule(tree, b.module) /\ x.name = b.remote /\ x.entity = exports[j][b.remote]
    BY DEF j
  <2> HIDE DEF x, exports
  <2>11. x.entity \in Denoted(tree, i, name)
    BY <2>4, <2>6, <2>9, <2>10 DEF Denoted
  <2> QED
    BY <2>1, <2>5, <2>10, <2>11
<1> QED
  BY <1>2, <1>3

\* The functions of a file are the first of its own entities.
LEMMA FunctionsAreOwn ==
  ASSUME NEW tree, NEW i, NEW n \in tree[i].functions
  PROVE  n \in DOMAIN OwnEntities(tree, i) /\ OwnEntities(tree, i)[n] = Entity("function", i, n)
  BY DEF Over, OwnEntities

\* An import of an export that is known by then binds a function.
LEMMA FollowedIsBound ==
  ASSUME NEW tree, ModulesType(tree), NEW i \in DOMAIN tree, NEW name, Followed(tree, i, name)
  PROVE  name \in DOMAIN BoundIn(tree, i) /\ IsFunction(BoundIn(tree, i)[name])
<1> DEFINE own == OwnEntities(tree, i)
           exports == ListedAfter(tree, i - 1)
           imported == Imported(tree, exports, i)
           From(b) == ResolveModule(tree, b.module)
           Located == {b \in tree[i].imports : From(b) # NoFile /\ b.remote \in DOMAIN exports[From(b)]}
           Binding(n) == CHOOSE b \in Located : b.local = n
<1>1. BoundIn(tree, i) = Over(own, imported)
  BY DEF BoundIn
<1>2. \A k, n : IsFunction(Entity("function", k, n))
  BY DEF IsFunction, Entity
<1>3. CASE name \in tree[i].functions
  <2>1. name \in DOMAIN own /\ own[name] = Entity("function", i, name)
    BY <1>3, FunctionsAreOwn
  <2> HIDE DEF own, imported
  <2> QED
    BY <1>1, <1>2, <2>1 DEF Over
<1>4. CASE name \notin tree[i].functions
  <2>1. PICK b \in tree[i].imports :
           LET j == ResolveModule(tree, b.module)
           IN  /\ b.local = name
               /\ j # NoFile
               /\ \/ b.remote \in tree[j].declared \cap tree[j].functions
                  \/ /\ j < i
                     /\ \E x \in tree[j].listed : x.name = b.remote /\ x.local \in tree[j].functions
    BY <1>4 DEF Followed
  <2> DEFINE j == From(b)
             listed == ListedExports(tree, j)
             declared == DeclaredExports(tree, j)
             theirs == OwnEntities(tree, j)
             Known == {x \in tree[j].listed : x.local \in DOMAIN theirs}
  <2>2. j \in DOMAIN tree /\ j # NoFile
    BY <2>1, ResolvesToFile
  <2>3. listed = [n \in {x.name : x \in Known} |-> theirs[(CHOOSE x \in Known : x.name = n).local]]
    BY DEF ListedExports
  <2>4. exports[j] = IF j <= i - 1 THEN Over(listed, declared) ELSE declared
    BY <2>2 DEF ListedAfter
  <2>5. b.remote \in DOMAIN exports[j] /\ IsFunction(exports[j][b.remote])
    <3>1. CASE b.remote \in tree[j].declared \cap tree[j].functions
      <4>1. b.remote \notin DOMAIN listed
        <5>1. \A x \in tree[j].listed : x.name \notin tree[j].declared
          BY <2>2 DEF ModulesType
        <5> QED
          BY <2>3, <3>1, <5>1
      <4>2. b.remote \in DOMAIN declared /\ declared[b.remote] = theirs[b.remote]
        BY <3>1 DEF Over, DeclaredExports
      <4>3. theirs[b.remote] = Entity("function", j, b.remote)
        BY <3>1, FunctionsAreOwn
      <4> HIDE DEF listed, declared, exports, theirs, j
      <4> QED
        BY <1>2, <2>4, <4>1, <4>2, <4>3 DEF Over
    <3>2. ASSUME j < i, NEW x \in tree[j].listed, x.name = b.remote, x.local \in tree[j].functions
          PROVE  b.remote \in DOMAIN exports[j] /\ IsFunction(exports[j][b.remote])
      <4>1. x.local \in DOMAIN theirs /\ theirs[x.local] = Entity("function", j, x.local)
        BY <3>2, FunctionsAreOwn
      <4>2. \A y \in Known : y.name = b.remote => y = x
        BY <2>2, <3>2 DEF ModulesType
      <4>3. x \in Known
        BY <4>1
      <4> HIDE DEF Known, theirs
      <4>4. (CHOOSE y \in Known : y.name = b.remote) = x
        BY <3>2, <4>2, <4>3
      <4>5. b.remote \in DOMAIN listed /\ listed[b.remote] = theirs[x.local]
        BY <2>3, <3>2, <4>3, <4>4
      <4>6. j <= i - 1
        <5>1. j \in Int /\ i \in Int
          BY <2>2 DEF ModulesType
        <5> QED
          BY <3>2, <5>1
      <4> HIDE DEF listed, declared, exports, j
      <4> QED
        BY <1>2, <2>4, <4>1, <4>5, <4>6 DEF Over
    <3> QED
      BY <2>1, <3>1, <3>2
  <2>6. b \in Located
    BY <2>2, <2>5
  <2>7. \A c \in Located : c.local = name => c = b
    BY <2>1 DEF ModulesType
  <2>8. Binding(name) = b
    <3> HIDE DEF Located
    <3> QED
      BY <2>1, <2>6, <2>7
  <2>9. imported = [n \in {c.local : c \in Located} |-> exports[From(Binding(n))][Binding(n).remote]]
    BY DEF Imported
  <2>10. name \in DOMAIN imported /\ imported[name] = exports[j][b.remote]
    <3> HIDE DEF Located, Binding, exports, imported
    <3> QED
      BY <2>1, <2>6, <2>8, <2>9
  <2>11. name \notin DOMAIN own
    <3>1. DOMAIN own = tree[i].functions \cup DOMAIN tree[i].classes
      BY DEF Over, OwnEntities
    <3> QED
      BY <2>1, <3>1 DEF ModulesType
  <2> HIDE DEF own, imported, exports
  <2> QED
    BY <1>1, <2>5, <2>10, <2>11 DEF Over
<1> QED
  BY <1>3, <1>4

\* A direct call becomes an edge to what its name is bound to, or leaves the caller open.
LEMMA DirectCallIsRecorded ==
  ASSUME NEW tree, NEW links, NEW caller, NEW s \in caller.sites,
         s.how = "direct", s.name \notin KnownNonCalls \cup {caller.name}
  PROVE  LET bound == Lookup(links.bound[caller.file], s.name)
             reported == Relationships(tree, links, caller)
         IN  /\ IsFunction(bound) /\ bound # Self(caller)
                  => [target |-> bound, kind |-> "call"] \in reported.edges
             /\ ~IsFunction(bound) => reported.external
<1> DEFINE bound == Lookup(links.bound[caller.file], s.name)
           Directs == {x \in caller.sites : x.how = "direct" /\ ~SkippedDirectCall(caller, x)}
           Members == {ResolveMember(tree, links, caller, x) : x \in {y \in caller.sites : y.how = "member"}}
           Calls == {[target |-> DirectTarget(links, caller, x), kind |-> "call"] : x \in Directs}
           reported == Relationships(tree, links, caller)
<1>1. s \in Directs
  BY DEF SkippedDirectCall
<1>2. DirectTarget(links, caller, s) = IF IsFunction(bound) THEN bound ELSE NoEntity
  BY DEF DirectTarget
<1>3. /\ reported.edges = {e \in Members \cup Calls : e.target \notin {NoEntity, Self(caller)}}
      /\ reported.external <=> \E x \in Directs : /\ DirectTarget(links, caller, x) = NoEntity
                                                  /\ x.name \notin KnownNonCalls
  BY DEF Relationships
<1> HIDE DEF bound, Directs, Members, reported
<1>4. ASSUME IsFunction(bound), bound # Self(caller)
      PROVE  [target |-> bound, kind |-> "call"] \in reported.edges
  <2>1. [target |-> bound, kind |-> "call"] \in Calls
    BY <1>1, <1>2, <1>4
  <2>2. bound # NoEntity
    BY <1>4 DEF IsFunction, NoEntity
  <2> HIDE DEF Calls
  <2> QED
    BY <1>3, <1>4, <2>1, <2>2
<1>5. ASSUME ~IsFunction(bound) PROVE reported.external
  BY <1>1, <1>2, <1>3, <1>5
<1> QED
  BY <1>4, <1>5 DEF bound, reported

\* The relationships of a caller account for its direct calls.
LEMMA AccountedDirectCalls == RequestInv => DirectCallsAccounted
<1> SUFFICES ASSUME RequestInv, Answered("javascript")
             PROVE  DirectCallsAccounted
  BY DEF DirectCallsAccounted
<1> DEFINE tree == request.tree
           caller == request.caller
           i == caller.file
           links == LinkModules(tree)
           Bound(name) == Lookup(answer.value.bound, name)
           reported == answer.value.relationships
<1>1. ModulesType(tree) /\ i \in DOMAIN tree
  BY DEF RequestInv, WellFormed, Answered
<1>2. answer.value = [bound |-> links.bound[i], relationships |-> Relationships(tree, links, caller)]
  BY DEF RequestInv, AnswerIsComputed, JavaScriptAnswer
<1>3. answer.value.bound = links.bound[i] /\ reported = Relationships(tree, links, caller)
  <2> HIDE DEF links
  <2> QED
    BY <1>2
<1>4. links.bound[i] = BoundIn(tree, i)
  <2>1. links.bound = LinkImports(tree).bound
    BY DEF LinkModules
  <2>2. LinkImports(tree).bound = [j \in 1..Len(tree) |-> BoundIn(tree, j)]
    <3>1. LinkImports(tree) = LinkedUpTo(tree, Len(tree))
      <4>1. DOMAIN tree = 1..Len(tree) /\ Len(tree) \in Nat
        BY <1>1 DEF ModulesType
      <4> HIDE DEF tree
      <4> QED
        BY <4>1, LinkImportsUnfolds
    <3> HIDE DEF tree
    <3> QED
      BY <3>1 DEF LinkedUpTo
  <2>3. i \in 1..Len(tree)
    BY <1>1 DEF ModulesType
  <2> DEFINE k == i
  <2>4. [j \in 1..Len(tree) |-> BoundIn(tree, j)][k] = BoundIn(tree, k)
    BY <2>3
  <2> HIDE DEF links, k, tree
  <2>5. links.bound[k] = BoundIn(tree, k)
    BY <2>1, <2>2, <2>4
  <2> QED
    BY <2>5 DEF k
<1>5. SUFFICES ASSUME NEW s \in caller.sites, s.how = "direct",
                      s.name \notin KnownNonCalls \cup {caller.name}
               PROVE  /\ IsFunction(Bound(s.name))
                           => /\ Bound(s.name) \in Denoted(tree, i, s.name)
                              /\ Bound(s.name) # Self(caller) =>
                                    [target |-> Bound(s.name), kind |-> "call"] \in reported.edges
                      /\ ~IsFunction(Bound(s.name)) => reported.external
                      /\ Followed(tree, i, s.name) => IsFunction(Bound(s.name))
  BY DEF DirectCallsAccounted
<1> DEFINE b == Bound(s.name)
<1>6. b = IF s.name \in DOMAIN BoundIn(tree, i) THEN BoundIn(tree, i)[s.name] ELSE NoEntity
  BY <1>3, <1>4 DEF Lookup
<1>7. /\ IsFunction(b) /\ b # Self(caller) => [target |-> b, kind |-> "call"] \in reported.edges
      /\ ~IsFunction(b) => reported.external
  <2> HIDE DEF links
  <2>1. b = Lookup(links.bound[caller.file], s.name)
    BY <1>3
  <2> HIDE DEF b
  <2> QED
    BY <1>3, <1>5, <2>1, DirectCallIsRecorded
<1>8. IsFunction(b) => b \in Denoted(tree, i, s.name)
  <2>1. ~IsFunction(NoEntity)
    BY DEF IsFunction, NoEntity
  <2> HIDE DEF b, tree, i
  <2> QED
    BY <1>1, <1>6, <2>1, ImportsDenoted
<1>9. Followed(tree, i, s.name) => IsFunction(b)
  <2> HIDE DEF b, tree, i
  <2> QED
    BY <1>1, <1>6, FollowedIsBound
<1> QED
  BY <1>7, <1>8, <1>9 DEF b

\* A bare call becomes an edge to a function its name denotes through imports and any chain
\* of re-exports, or leaves the caller open, and is followed when its import was linked, for
\* any tree of modules (linkModules, recordRelationships).
THEOREM DirectCallsAreAccounted == AnswersSpec => []DirectCallsAccounted
  BY RequestInvAlways, AccountedDirectCalls, PTL

-----------------------------------------------------------------------------
(* Review order.                                                           *)

\* The least set with a function and all that its members call.
WalkFrom(graph, source) ==
    {v \in graph.functions : \A T \in SUBSET graph.functions :
        source \in T /\ Called(graph, T) \subseteq T => v \in T}

\* A walk holds its source and all that its functions call.
LEMMA WalkIsClosed ==
  ASSUME NEW graph, GraphType(graph), NEW source \in graph.functions
  PROVE  /\ WalkFrom(graph, source) \in SUBSET graph.functions
         /\ source \in WalkFrom(graph, source)
         /\ Called(graph, WalkFrom(graph, source)) \subseteq WalkFrom(graph, source)
<1> DEFINE W == WalkFrom(graph, source)
<1>1. W \in SUBSET graph.functions /\ source \in W
  BY DEF WalkFrom
<1>2. ASSUME NEW v \in Called(graph, W) PROVE v \in W
  <2>1. PICK e \in graph.edges : e[1] \in W /\ v = e[2]
    BY DEF Called
  <2>2. v \in graph.functions
    BY <2>1 DEF GraphType
  <2>3. ASSUME NEW T \in SUBSET graph.functions, source \in T, Called(graph, T) \subseteq T
        PROVE  v \in T
    <3>1. e[1] \in T
      BY <2>1, <2>3 DEF WalkFrom
    <3>2. v \in Called(graph, T)
      BY <2>1, <3>1 DEF Called
    <3> QED
      BY <2>3, <3>2
  <2> QED
    BY <2>2, <2>3 DEF WalkFrom
<1> QED
  BY <1>1, <1>2

\* What a function reached reaches is reached.
LEMMA WalksContinue ==
  ASSUME NEW graph, GraphType(graph), NEW f \in graph.functions, NEW g \in WalkFrom(graph, f)
  PROVE  WalkFrom(graph, g) \subseteq WalkFrom(graph, f)
<1>1. /\ WalkFrom(graph, f) \in SUBSET graph.functions
      /\ Called(graph, WalkFrom(graph, f)) \subseteq WalkFrom(graph, f)
  BY WalkIsClosed
<1>2. \A v \in WalkFrom(graph, g) : \A T \in SUBSET graph.functions :
         g \in T /\ Called(graph, T) \subseteq T => v \in T
  BY DEF WalkFrom
<1> QED
  BY <1>1, <1>2

\* What has been visited after n rounds.
Visits(graph, source, V) ==
    /\ V \in [0..Cardinality(graph.functions) -> SUBSET graph.functions]
    /\ V[0] = {source}
    /\ \A n \in 1..Cardinality(graph.functions) : V[n] = V[n - 1] \cup Called(graph, V[n - 1])

\* As many rounds as there are functions visit all that can be: a round that adds nothing is
\* the last one, and each other one adds a function.
LEMMA VisitsEndAtWalk ==
  ASSUME NEW graph, GraphType(graph), NEW source \in graph.functions,
         NEW V, Visits(graph, source, V)
  PROVE  V[Cardinality(graph.functions)] = WalkFrom(graph, source)
<1> DEFINE N == Cardinality(graph.functions)
<1>0. N \in Nat
  BY FS_CardinalityType DEF GraphType
<1>1. /\ V \in [0..N -> SUBSET graph.functions]
      /\ V[0] = {source}
      /\ \A n \in 1..N : V[n] = V[n - 1] \cup Called(graph, V[n - 1])
  BY DEF Visits
<1>2. IsFiniteSet(graph.functions)
  BY DEF GraphType
<1> HIDE DEF N
<1>3. ASSUME NEW T \in SUBSET graph.functions, source \in T, Called(graph, T) \subseteq T
      PROVE  V[N] \subseteq T
  <2> DEFINE P == {n \in 0..N : V[n] \subseteq T}
  <2>1. 0 \in P
    BY <1>0, <1>1, <1>3
  <2>2. ASSUME NEW n \in 1..N, n - 1 \in P PROVE n \in P
    <3>1. V[n - 1] \subseteq T
      BY <2>2
    <3>2. Called(graph, V[n - 1]) \subseteq Called(graph, T)
      BY <3>1 DEF Called
    <3>3. n \in 0..N
      BY <1>0
    <3> QED
      BY <1>1, <1>3, <3>1, <3>2, <3>3
  <2>3. 0..N \subseteq P
    <3> HIDE DEF P
    <3> QED
      BY <1>0, <2>1, <2>2, BoundedInduction
  <2> QED
    BY <1>0, <2>3
<1> DEFINE Ended(n) == source \in V[n] /\ (Called(graph, V[n]) \subseteq V[n] \/ Cardinality(V[n]) >= n + 1)
           Q == {n \in 0..N : Ended(n)}
<1>4. 0 \in Q
  <2>1. Cardinality(V[0]) = 1 /\ source \in V[0]
    BY <1>1, FS_Singleton
  <2>2. Cardinality(V[0]) >= 0 + 1
    BY <2>1
  <2>3. Ended(0)
    BY <2>1, <2>2
  <2> HIDE DEF Ended
  <2> QED
    BY <1>0, <2>3
<1>5. ASSUME NEW n \in 1..N, n - 1 \in Q PROVE n \in Q
  <2> DEFINE A == V[n - 1]
             B == V[n]
  <2>0. n \in Nat /\ n - 1 \in 0..N /\ n \in 0..N
    BY <1>0
  <2>1. B = A \cup Called(graph, A) /\ A \in SUBSET graph.functions /\ B \in SUBSET graph.functions
    BY <1>1, <2>0
  <2>2. source \in A /\ (Called(graph, A) \subseteq A \/ Cardinality(A) >= (n - 1) + 1)
    BY <1>5
  <2>3. IsFiniteSet(A) /\ IsFiniteSet(B)
    BY <1>2, <2>1, FS_Subset
  <2> HIDE DEF A, B
  <2>4. CASE Called(graph, A) \subseteq A
    <3>1. B = A
      BY <2>1, <2>4
    <3> QED
      BY <2>0, <2>2, <2>4, <3>1 DEF B
  <2>5. CASE ~(Called(graph, A) \subseteq A)
    <3>1. A \subseteq B /\ A # B
      BY <2>1, <2>5
    <3>2. Cardinality(A) \in Nat /\ Cardinality(B) \in Nat
      BY <2>3, FS_CardinalityType
    <3>3. Cardinality(A) <= Cardinality(B) /\ Cardinality(A) # Cardinality(B)
      BY <2>3, <3>1, FS_Subset
    <3>4. Cardinality(B) >= n + 1
      BY <2>0, <2>2, <2>5, <3>2, <3>3
    <3>5. source \in B
      BY <2>2, <3>1
    <3>6. Ended(n)
      BY <3>4, <3>5 DEF B
    <3> HIDE DEF Ended
    <3> QED
      BY <2>0, <3>6
  <2> QED
    BY <2>4, <2>5
<1>6. Ended(N)
  <2>1. 0..N \subseteq Q
    <3> HIDE DEF Q
    <3> QED
      BY <1>0, <1>4, <1>5, BoundedInduction
  <2> QED
    BY <1>0, <2>1
<1>7. V[N] \in SUBSET graph.functions
  BY <1>0, <1>1
<1>8. Called(graph, V[N]) \subseteq V[N]
  <2>1. Cardinality(V[N]) <= N
    BY <1>2, <1>7, FS_Subset DEF N
  <2>2. Cardinality(V[N]) \in Nat
    <3>1. IsFiniteSet(V[N])
      BY <1>2, <1>7, FS_Subset
    <3> QED
      BY <3>1, FS_CardinalityType
  <2>3. ~(Cardinality(V[N]) >= N + 1)
    BY <1>0, <2>1, <2>2
  <2> QED
    BY <1>6, <2>3
<1>9. WalkFrom(graph, source) \subseteq V[N]
  <2>1. source \in V[N]
    BY <1>6
  <2> QED
    BY <1>7, <1>8, <2>1 DEF WalkFrom
<1>10. V[N] \subseteq WalkFrom(graph, source)
  BY <1>3, <1>7 DEF WalkFrom
<1> QED
  BY <1>9, <1>10 DEF N

\* The rounds of the walk are what one after the other makes of the source.
LEMMA ReachesFollowsWalk ==
  ASSUME NEW graph, GraphType(graph), NEW set, NEW source \in graph.functions
  PROVE  Reaches(graph, set, source) = (WalkFrom(graph, source) \cap set) \ {source}
<1> DEFINE N == Cardinality(graph.functions)
           S == SUBSET graph.functions
           base == {source}
           step == [n \in 1..N |-> [x \in S |-> x \cup Called(graph, x)]]
<1>0. N \in Nat
  BY FS_CardinalityType DEF GraphType
<1>1. \A x \in S : x \cup Called(graph, x) \in S
  BY DEF GraphType, Called
<1>2. base \in S /\ step \in [1..N -> [S -> S]]
  BY <1>1
<1>3. \A n \in 1..N : \A x \in S : step[n][x] = x \cup Called(graph, x)
  OBVIOUS
<1> HIDE DEF N, S, base, step
<1>4. PICK L \in [0..N -> S] : Recursive(L, N, base, step)
  BY <1>0, <1>2, RecursionExists
<1>5. L = [n \in 0..N |-> IF n = 0 THEN base ELSE L[n - 1] \cup Called(graph, L[n - 1])]
  <2>1. \A n \in 0..N : n # 0 => n \in 1..N /\ L[n - 1] \in S
    BY <1>0, <1>4
  <2>2. \A n \in 0..N : (IF n = 0 THEN base ELSE step[n][L[n - 1]])
                        = (IF n = 0 THEN base ELSE L[n - 1] \cup Called(graph, L[n - 1]))
    BY <1>3, <2>1
  <2> QED
    BY <1>4, <2>2 DEF Recursive
<1> DEFINE V == CHOOSE V : V = [n \in 0..N |-> IF n = 0 THEN base ELSE V[n - 1] \cup Called(graph, V[n - 1])]
<1>6. V = [n \in 0..N |-> IF n = 0 THEN base ELSE V[n - 1] \cup Called(graph, V[n - 1])]
  BY <1>5
<1>7. Reaches(graph, set, source) = (V[N] \cap set) \ {source}
  BY DEF Reaches, N, base
<1> HIDE DEF V
<1>8. DOMAIN V = 0..N /\ V[0] = base /\ \A n \in 1..N : V[n] = V[n - 1] \cup Called(graph, V[n - 1])
  <2>1. 0 \in 0..N /\ \A n \in 1..N : n \in 0..N /\ n # 0
    BY <1>0
  <2> QED
    BY <1>6, <2>1
<1> DEFINE P == {n \in 0..N : V[n] \in S}
<1>9. 0..N \subseteq P
  <2>1. 0 \in P
    BY <1>0, <1>2, <1>8
  <2>2. \A n \in 1..N : n - 1 \in P => n \in P
    BY <1>0, <1>1, <1>8
  <2> HIDE DEF P
  <2> QED
    BY <1>0, <2>1, <2>2, BoundedInduction
<1>10. V \in [0..N -> S]
  BY <1>6, <1>9
<1>11. Visits(graph, source, V)
  BY <1>8, <1>10 DEF Visits, N, S, base
<1> QED
  BY <1>7, <1>11, VisitsEndAtWalk DEF N

Downstream(f) == [root |-> f, direction |-> "downstream", tests |-> TRUE]

\* So are the balls of the walk along calls.
LEMMA WithinFollowsWalk ==
  ASSUME NEW graph, GraphType(graph), NEW f \in graph.functions
  PROVE  Within(graph, Downstream(f), Cardinality(graph.functions)) = WalkFrom(graph, f)
<1> DEFINE N == Cardinality(graph.functions)
           asked == Downstream(f)
<1>0. N \in Nat
  BY FS_CardinalityType DEF GraphType
<1>1. asked.root = f /\ asked.direction = "downstream" /\ asked.tests = TRUE
  BY DEF Downstream
<1> HIDE DEF N, asked
<1>2. PICK ball : Balls(graph, asked, N, ball) /\ Within(graph, asked, N) = ball[N]
  BY <1>0, <1>1, BallsUnfold
<1>3. ASSUME NEW A \in SUBSET graph.functions
      PROVE  Nearby(graph, asked, A) = A \cup Called(graph, A)
  <2>1. \A u, v : Linked(graph, asked, u, v) <=> <<u, v>> \in graph.edges
    BY <1>1 DEF Linked
  <2>0. \A e \in graph.edges : e = <<e[1], e[2]>>
    BY DEF GraphType
  <2>2. ASSUME NEW v PROVE v \in Called(graph, A) <=> \E u \in A : <<u, v>> \in graph.edges
    <3>1. ASSUME v \in Called(graph, A) PROVE \E u \in A : <<u, v>> \in graph.edges
      <4>1. PICK e \in graph.edges : e[1] \in A /\ v = e[2]
        BY <3>1 DEF Called
      <4> QED
        BY <2>0, <4>1
    <3>2. ASSUME NEW u \in A, <<u, v>> \in graph.edges PROVE v \in Called(graph, A)
      <4>1. <<u, v>>[1] = u /\ <<u, v>>[2] = v
        OBVIOUS
      <4> QED
        BY <3>2, <4>1 DEF Called
    <3> QED
      BY <3>1, <3>2
  <2>3. Called(graph, A) \subseteq graph.functions
    BY DEF Called, GraphType
  <2> QED
    BY <1>1, <2>1, <2>2, <2>3 DEF Nearby
<1>4. /\ ball \in [0..N -> SUBSET graph.functions]
      /\ ball[0] = {f}
      /\ \A n \in 1..N : ball[n] = Nearby(graph, asked, ball[n - 1])
  BY <1>1, <1>2 DEF Balls
<1>5. \A n \in 1..N : ball[n] = ball[n - 1] \cup Called(graph, ball[n - 1])
  <2> SUFFICES ASSUME NEW n \in 1..N PROVE ball[n] = ball[n - 1] \cup Called(graph, ball[n - 1])
    OBVIOUS
  <2>1. n - 1 \in 0..N
    BY <1>0
  <2>2. ball[n - 1] \in SUBSET graph.functions
    BY <1>4, <2>1
  <2> QED
    BY <1>3, <1>4, <2>2
<1>6. Visits(graph, f, ball)
  BY <1>4, <1>5 DEF Visits, N
<1> QED
  BY <1>2, <1>6, VisitsEndAtWalk DEF N, asked

\* Changed functions, and which of them each one reaches.
ReachType(set, r) ==
    /\ IsFiniteSet(set)
    /\ set \subseteq Int
    /\ DOMAIN r = set
    /\ \A f \in set : r[f] \subseteq set \ {f}
    /\ \A f, g, h \in set : g \in r[f] /\ h \in r[g] /\ h # f => h \in r[f]

\* What is reached from changed functions is such that reaching is transitive.
LEMMA ReachesIsTransitive ==
  ASSUME NEW graph, GraphType(graph), graph.functions \subseteq Int,
         NEW set \in SUBSET graph.functions
  PROVE  ReachType(set, [f \in set |-> Reaches(graph, set, f)])
<1> DEFINE r == [f \in set |-> Reaches(graph, set, f)]
<1>1. \A f \in set : r[f] = (WalkFrom(graph, f) \cap set) \ {f}
  BY ReachesFollowsWalk
<1>2. IsFiniteSet(set)
  BY FS_Subset DEF GraphType
<1>3. DOMAIN r = set
  OBVIOUS
<1> HIDE DEF r
<1>4. ASSUME NEW f \in set, NEW g \in set, NEW h \in set, g \in r[f], h \in r[g], h # f
      PROVE  h \in r[f]
  <2>1. g \in WalkFrom(graph, f) /\ h \in WalkFrom(graph, g)
    BY <1>1, <1>4
  <2>2. h \in WalkFrom(graph, f)
    BY <2>1, WalksContinue
  <2> QED
    BY <1>1, <1>4, <2>2
<1>5. ReachType(set, r)
  BY <1>1, <1>2, <1>3, <1>4 DEF ReachType
<1> QED
  BY <1>5 DEF r

\* Of functions that reach r[f]: f and g reach each other, and g is f or reached from it.
Mutual(r, f, g) == f = g \/ (g \in r[f] /\ f \in r[g])
Leads(r, f, g) == f = g \/ g \in r[f]

\* What a function reached or equal to leads to is reached or equal.
LEMMA LeadsIsTransitive ==
  ASSUME NEW set, NEW r, ReachType(set, r), NEW f \in set, NEW g \in set, NEW h \in set,
         Leads(r, f, g), Leads(r, g, h)
  PROVE  Leads(r, f, h)
<1>1. CASE f = g \/ g = h
  BY <1>1 DEF Leads
<1>2. CASE f # g /\ g # h
  <2>1. g \in r[f] /\ h \in r[g]
    BY <1>2 DEF Leads
  <2>2. h # f => h \in r[f]
    BY <2>1 DEF ReachType
  <2> QED
    BY <2>2 DEF Leads
<1> QED
  BY <1>1, <1>2

\* Two functions are mutual when each leads to the other.
LEMMA MutualIsLeading ==
  ASSUME NEW r, NEW f, NEW g
  PROVE  Mutual(r, f, g) <=> Leads(r, f, g) /\ Leads(r, g, f)
BY DEF Mutual, Leads

\* The component of a function is what is mutual with it.
LEMMA ComponentIsClass ==
  ASSUME NEW set, NEW r, ReachType(set, r), NEW f \in set
  PROVE  \A g : g \in Component(r, f) <=> g \in set /\ Mutual(r, f, g)
BY DEF Component, Mutual, ReachType

\* Two functions are in the same component when each is reached from the other.
LEMMA SameComponent ==
  ASSUME NEW set, NEW r, ReachType(set, r), NEW f \in set, NEW g \in set
  PROVE  Component(r, f) = Component(r, g) <=> Mutual(r, f, g)
<1>1. ASSUME Component(r, f) = Component(r, g) PROVE Mutual(r, f, g)
  <2>1. g \in Component(r, g)
    BY DEF Component
  <2> QED
    BY <1>1, <2>1, ComponentIsClass
<1>2. ASSUME Mutual(r, f, g) PROVE Component(r, f) = Component(r, g)
  <2>1. ASSUME NEW h \in set PROVE Mutual(r, f, h) <=> Mutual(r, g, h)
    <3>1. ASSUME Mutual(r, f, h) PROVE Mutual(r, g, h)
      BY <1>2, <3>1, MutualIsLeading, LeadsIsTransitive
    <3>2. ASSUME Mutual(r, g, h) PROVE Mutual(r, f, h)
      BY <1>2, <3>2, MutualIsLeading, LeadsIsTransitive
    <3> QED
      BY <3>1, <3>2
  <2>2. \A h : h \in Component(r, f) <=> h \in Component(r, g)
    BY <2>1, ComponentIsClass
  <2> QED
    BY <2>2
<1> QED
  BY <1>1, <1>2

\* The components are finitely many and not empty, and each changed function is in one:
\* its own.
LEMMA ComponentsOfFunctions ==
  ASSUME NEW set, NEW r, ReachType(set, r)
  PROVE  /\ IsFiniteSet(Components(r))
         /\ \A f \in set : Component(r, f) \in Components(r) /\ f \in Component(r, f)
         /\ \A c \in Components(r) : c # {} /\ c \in SUBSET set
         /\ \A c \in Components(r) : \A f \in c : c = Component(r, f)
         /\ UNION Components(r) = set
<1>1. Components(r) = {Component(r, f) : f \in set}
  BY DEF Components, ReachType
<1>3. \A f \in set : Component(r, f) \in Components(r) /\ f \in Component(r, f)
  BY <1>1 DEF Component
<1>4. \A c \in Components(r) : c # {} /\ c \in SUBSET set
  <2> SUFFICES ASSUME NEW f \in set PROVE Component(r, f) # {} /\ Component(r, f) \in SUBSET set
    BY <1>1
  <2>1. \A g \in Component(r, f) : g \in set
    BY ComponentIsClass
  <2> QED
    BY <1>3, <2>1
<1>2. IsFiniteSet(Components(r))
  <2>1. IsFiniteSet(set)
    BY DEF ReachType
  <2>2. Components(r) \in SUBSET (SUBSET set)
    BY <1>4
  <2> QED
    BY <2>1, <2>2, FS_SUBSET, FS_Subset
<1>5. ASSUME NEW c \in Components(r), NEW f \in c PROVE c = Component(r, f)
  <2>1. PICK g \in set : c = Component(r, g)
    BY <1>1
  <2>2. f \in set /\ Mutual(r, g, f)
    BY <2>1, ComponentIsClass
  <2> QED
    BY <2>1, <2>2, SameComponent
<1>6. UNION Components(r) = set
  BY <1>3, <1>4
<1> QED
  BY <1>2, <1>3, <1>4, <1>5, <1>6

\* A component leads to another one when its functions reach those of the other, and are
\* not reached from there.
LEMMA TargetsOfComponents ==
  ASSUME NEW set, NEW r, ReachType(set, r), NEW f \in set, NEW g \in set
  PROVE  Component(r, g) \in Targets(r)[Component(r, f)] <=> g \in r[f] /\ ~Mutual(r, f, g)
<1> DEFINE C == Component(r, f)
           D == Component(r, g)
<1>1. C \in Components(r) /\ D \in Components(r)
  BY ComponentsOfFunctions
<1>2. Targets(r)[C] = {d \in Components(r) \ {C} : \E x \in C : r[x] \cap d # {}}
  BY <1>1 DEF Targets
<1>3. C = D <=> Mutual(r, f, g)
  BY SameComponent
<1>4. f \in C /\ g \in D
  BY ComponentsOfFunctions
<1>5. ASSUME g \in r[f], ~Mutual(r, f, g) PROVE D \in Targets(r)[C]
  <2> HIDE DEF C, D
  <2> QED
    BY <1>1, <1>2, <1>3, <1>4, <1>5
<1>6. ASSUME D \in Targets(r)[C] PROVE g \in r[f] /\ ~Mutual(r, f, g)
  <2>1. PICK x \in C : r[x] \cap D # {}
    BY <1>2, <1>6
  <2>2. PICK y \in D : y \in r[x]
    BY <2>1
  <2>3. x \in set /\ Mutual(r, f, x) /\ y \in set /\ Mutual(r, g, y)
    BY <2>1, <2>2, ComponentIsClass
  <2>4. Leads(r, f, x) /\ Leads(r, x, y) /\ Leads(r, y, g)
    BY <2>2, <2>3 DEF Mutual, Leads
  <2>5. Leads(r, f, g)
    BY <2>3, <2>4, LeadsIsTransitive
  <2>6. C # D
    BY <1>2, <1>6
  <2> QED
    BY <1>3, <2>5, <2>6 DEF Leads, Mutual
<1> QED
  BY <1>5, <1>6

\* What the topological walk is made on: finitely many nodes, and where each one leads to,
\* directly or not.
Dag(K, T) ==
    /\ IsFiniteSet(K)
    /\ T \in [K -> SUBSET K]
    /\ \A c \in K : c \notin T[c]
    /\ \A c, d, e \in K : d \in T[c] /\ e \in T[d] => e \in T[c]

\* Its nodes share no functions.
Blocks(K) ==
    /\ \A c \in K : c # {} /\ IsFiniteSet(c) /\ c \subseteq Int
    /\ \A c, d \in K : \A x : x \in c /\ x \in d => c = d

\* No two components share a function.
LEMMA ComponentsAreBlocks ==
  ASSUME NEW set, NEW r, ReachType(set, r)
  PROVE  Blocks(Components(r))
<1>1. \A c \in Components(r) : c # {} /\ c \in SUBSET set
  BY ComponentsOfFunctions
<1>2. IsFiniteSet(set) /\ set \subseteq Int
  BY DEF ReachType
<1>3. \A c \in Components(r) : c # {} /\ IsFiniteSet(c) /\ c \subseteq Int
  BY <1>1, <1>2, FS_Subset
<1>4. \A c, d \in Components(r) : \A x : x \in c /\ x \in d => c = d
  <2>1. \A c \in Components(r) : \A f \in c : c = Component(r, f)
    BY ComponentsOfFunctions
  <2> QED
    BY <2>1
<1> QED
  BY <1>3, <1>4 DEF Blocks

\* No component leads back to itself, and one leads to all that lies below those it leads
\* to.
LEMMA ComponentsAreDag ==
  ASSUME NEW set, NEW r, ReachType(set, r)
  PROVE  Dag(Components(r), Targets(r))
<1> DEFINE K == Components(r)
           T == Targets(r)
<1>1. /\ IsFiniteSet(K)
      /\ \A c \in K : c # {} /\ c \in SUBSET set
      /\ \A c \in K : \A f \in c : c = Component(r, f)
  BY ComponentsOfFunctions
<1>2. T = [c \in K |-> {d \in K \ {c} : \E f \in c : r[f] \cap d # {}}]
  BY DEF Targets
<1> HIDE DEF K, T
<1>3. T \in [K -> SUBSET K] /\ \A c \in K : c \notin T[c]
  BY <1>2
<1>4. ASSUME NEW c \in K, NEW d \in K, NEW e \in K, d \in T[c], e \in T[d] PROVE e \in T[c]
  <2>1. PICK f \in set, g \in set, h \in set :
           c = Component(r, f) /\ d = Component(r, g) /\ e = Component(r, h)
    BY <1>1
  <2>2. g \in r[f] /\ ~Mutual(r, f, g)
    BY <1>4, <2>1, TargetsOfComponents DEF T
  <2>3. h \in r[g] /\ ~Mutual(r, g, h)
    BY <1>4, <2>1, TargetsOfComponents DEF T
  <2>4. Leads(r, f, h)
    BY <2>2, <2>3, LeadsIsTransitive DEF Leads
  <2>5. ~Leads(r, h, f)
    <3> SUFFICES ASSUME Leads(r, h, f) PROVE FALSE
      OBVIOUS
    <3>1. Leads(r, g, f)
      BY <2>3, LeadsIsTransitive DEF Leads
    <3> QED
      BY <2>2, <3>1 DEF Leads, Mutual
  <2>6. h \in r[f] /\ ~Mutual(r, f, h)
    BY <2>4, <2>5 DEF Leads, Mutual
  <2> QED
    BY <2>1, <2>6, TargetsOfComponents DEF T
<1> QED
  BY <1>1, <1>3, <1>4 DEF Dag, K, T

\* A finite set of integers that is not empty has its smallest one.
LEMMA SmallestOfSet ==
  ASSUME NEW S \in SUBSET Int, S # {}, IsFiniteSet(S)
  PROVE  Smallest(S) \in S /\ \A y \in S : Smallest(S) <= y
<1> DEFINE R == {p \in S \X S : p[1] < p[2]}
           n == Cardinality(S)
<1>0. n \in Nat /\ n # 0
  BY FS_CardinalityType, FS_EmptySet
<1>1. \A x, y \in S : <<x, y>> \in R <=> x < y
  OBVIOUS
<1> HIDE DEF R, n
<1>2. /\ \A x \in S : <<x, x>> \notin R
      /\ \A x, y, z \in S : <<x, y>> \in R /\ <<y, z>> \in R => <<x, z>> \in R
      /\ \A x, y \in S : x # y => <<x, y>> \in R \/ <<y, x>> \in R
  <2>1. \A x \in S : <<x, x>> \notin R
    BY <1>1
  <2>2. \A x, y, z \in S : <<x, y>> \in R /\ <<y, z>> \in R => <<x, z>> \in R
    BY <1>1
  <2>3. \A x, y \in S : x # y => <<x, y>> \in R \/ <<y, x>> \in R
    BY <1>1
  <2> QED
    BY <2>1, <2>2, <2>3
<1>3. PICK s \in [1..n -> S] : \A i, j \in 1..n : i < j => <<s[i], s[j]>> \in R
  BY <1>2, SortedEnumeration DEF n
<1>4. \A i, j \in 1..n : i # j => s[i] # s[j]
  <2> SUFFICES ASSUME NEW i \in 1..n, NEW j \in 1..n, i # j PROVE s[i] # s[j]
    OBVIOUS
  <2>1. i < j \/ j < i
    BY <1>0
  <2> QED
    BY <1>2, <1>3, <2>1
<1>5. \A x \in S : \E i \in 1..n : s[i] = x
  BY <1>3, <1>4, EnumerationIsOnto DEF n
<1>6. ASSUME NEW y \in S PROVE s[1] <= y
  <2>1. PICK i \in 1..n : s[i] = y
    BY <1>5
  <2>0. 1 \in 1..n
    BY <1>0
  <2>a. s[1] \in S
    BY <1>3, <2>0
  <2>2. 1 \in 1..n /\ s[1] \in S /\ s[1] \in Int /\ y \in Int
    BY <2>0, <2>a
  <2>3. CASE i = 1
    BY <2>1, <2>2, <2>3
  <2>4. CASE i # 1
    <3>1. 1 < i
      BY <1>0, <2>4
    <3>2. s[1] < y
      BY <1>1, <1>3, <2>1, <2>2, <3>1
    <3> QED
      BY <2>2, <3>2
  <2> QED
    BY <2>3, <2>4
<1>7. s[1] \in S
  BY <1>0, <1>3
<1> QED
  BY <1>6, <1>7 DEF Smallest

\* The component of a function is the one that holds it.
LEMMA ComponentOfMember ==
  ASSUME NEW F, Blocks(F), NEW c \in F, NEW x \in c
  PROVE  ComponentOf(F, x) = c
BY DEF Blocks, ComponentOf

\* The order of a frontier compares the leaf counts of two components, then their smallest
\* functions, then the functions.
LEMMA FrontierOrderIs ==
  ASSUME NEW F, Blocks(F), NEW L, NEW c \in F, NEW d \in F, NEW x \in c, NEW y \in d
  PROVE  <<x, y>> \in FrontierOrder(F, L) <=>
            \/ L[c] > L[d]
            \/ /\ L[c] = L[d]
               /\ \/ Smallest(c) < Smallest(d)
                  \/ Smallest(c) = Smallest(d) /\ x < y
<1>1. ComponentOf(F, x) = c /\ ComponentOf(F, y) = d
  BY ComponentOfMember
<1>2. <<x, y>> \in (UNION F) \X (UNION F)
  OBVIOUS
<1>3. <<x, y>>[1] = x /\ <<x, y>>[2] = y
  OBVIOUS
<1> QED
  BY <1>1, <1>2, <1>3 DEF FrontierOrder

\* Components with the same smallest function are the same.
LEMMA SmallestDecides ==
  ASSUME NEW F, Blocks(F), NEW c \in F, NEW d \in F
  PROVE  /\ Smallest(c) \in Int
         /\ Smallest(c) = Smallest(d) => c = d
<1>1. Smallest(c) \in c /\ Smallest(d) \in d /\ c \subseteq Int
  BY SmallestOfSet DEF Blocks
<1> QED
  BY <1>1 DEF Blocks

Entry == [id : Int, leaves : Nat]

\* The functions of a frontier in its order.
PlacedIn(F, L, s) ==
    /\ s \in [1..Cardinality(UNION F) -> UNION F]
    /\ \A i, j \in 1..Cardinality(UNION F) : i < j => <<s[i], s[j]>> \in FrontierOrder(F, L)

\* The order of a frontier is a strict linear one, so its functions can be placed in it.
LEMMA FrontierIsArranged ==
  ASSUME NEW F, IsFiniteSet(F), Blocks(F), NEW L, \A c \in F : L[c] \in Nat
  PROVE  /\ IsFiniteSet(UNION F)
         /\ PlacedIn(F, L, Arranged(UNION F, FrontierOrder(F, L)))
         /\ \A x \in UNION F : <<x, x>> \notin FrontierOrder(F, L)
<1> DEFINE U == UNION F
           R == FrontierOrder(F, L)
<1>1. IsFiniteSet(U)
  BY FS_UNION DEF Blocks
<1>2. \A c \in F : \A x \in c : x \in Int
  BY DEF Blocks
<1>3. ASSUME NEW x \in U PROVE <<x, x>> \notin R
  <2>1. PICK c \in F : x \in c
    OBVIOUS
  <2>2. Smallest(c) \in Int /\ L[c] \in Nat /\ x \in Int
    BY <1>2, <2>1, SmallestDecides
  <2> QED
    BY <2>1, <2>2, FrontierOrderIs
<1>4. ASSUME NEW x \in U, NEW y \in U, NEW z \in U, <<x, y>> \in R, <<y, z>> \in R
      PROVE  <<x, z>> \in R
  <2>1. PICK c \in F, d \in F, e \in F : x \in c /\ y \in d /\ z \in e
    OBVIOUS
  <2>2. /\ Smallest(c) \in Int /\ Smallest(d) \in Int /\ Smallest(e) \in Int
        /\ L[c] \in Nat /\ L[d] \in Nat /\ L[e] \in Nat
        /\ x \in Int /\ y \in Int /\ z \in Int
    BY <1>2, <2>1, SmallestDecides
  <2>3. \/ L[c] > L[d]
        \/ L[c] = L[d] /\ (Smallest(c) < Smallest(d) \/ (Smallest(c) = Smallest(d) /\ x < y))
    BY <1>4, <2>1, FrontierOrderIs
  <2>4. \/ L[d] > L[e]
        \/ L[d] = L[e] /\ (Smallest(d) < Smallest(e) \/ (Smallest(d) = Smallest(e) /\ y < z))
    BY <1>4, <2>1, FrontierOrderIs
  <2>5. \/ L[c] > L[e]
        \/ L[c] = L[e] /\ (Smallest(c) < Smallest(e) \/ (Smallest(c) = Smallest(e) /\ x < z))
    BY <2>2, <2>3, <2>4
  <2> QED
    BY <2>1, <2>5, FrontierOrderIs
<1>5. ASSUME NEW x \in U, NEW y \in U, x # y PROVE <<x, y>> \in R \/ <<y, x>> \in R
  <2>1. PICK c \in F, d \in F : x \in c /\ y \in d
    OBVIOUS
  <2>2. /\ Smallest(c) \in Int /\ Smallest(d) \in Int /\ L[c] \in Nat /\ L[d] \in Nat
        /\ x \in Int /\ y \in Int
    BY <1>2, <2>1, SmallestDecides
  <2>3. \/ \/ L[c] > L[d]
           \/ L[c] = L[d] /\ (Smallest(c) < Smallest(d) \/ (Smallest(c) = Smallest(d) /\ x < y))
        \/ \/ L[d] > L[c]
           \/ L[d] = L[c] /\ (Smallest(d) < Smallest(c) \/ (Smallest(d) = Smallest(c) /\ y < x))
    BY <1>5, <2>2
  <2>4. <<x, y>> \in R <=>
           \/ L[c] > L[d]
           \/ L[c] = L[d] /\ (Smallest(c) < Smallest(d) \/ (Smallest(c) = Smallest(d) /\ x < y))
    BY <2>1, FrontierOrderIs
  <2>5. <<y, x>> \in R <=>
           \/ L[d] > L[c]
           \/ L[d] = L[c] /\ (Smallest(d) < Smallest(c) \/ (Smallest(d) = Smallest(c) /\ y < x))
    BY <2>1, FrontierOrderIs
  <2> QED
    BY <2>3, <2>4, <2>5
<1> HIDE DEF U, R
<1>6. \E s \in [1..Cardinality(U) -> U] : \A i, j \in 1..Cardinality(U) : i < j => <<s[i], s[j]>> \in R
  BY <1>1, <1>3, <1>4, <1>5, SortedEnumeration
<1>7. /\ Arranged(U, R) \in [1..Cardinality(U) -> U]
      /\ \A i, j \in 1..Cardinality(U) : i < j => <<Arranged(U, R)[i], Arranged(U, R)[j]>> \in R
  BY <1>6 DEF Arranged
<1> QED
  BY <1>1, <1>3, <1>7 DEF PlacedIn, U, R

\* Each function of a frontier is placed once, and those of a component are next to each
\* other.
LEMMA PlacedProperties ==
  ASSUME NEW F, IsFiniteSet(F), Blocks(F), NEW L, \A c \in F : L[c] \in Nat,
         NEW s, PlacedIn(F, L, s)
  PROVE  /\ \A i, j \in 1..Cardinality(UNION F) : i # j => s[i] # s[j]
         /\ \A x \in UNION F : \E i \in 1..Cardinality(UNION F) : s[i] = x
         /\ \A i, j, k \in 1..Cardinality(UNION F) : \A c \in F :
               i < k /\ k < j /\ s[i] \in c /\ s[j] \in c => s[k] \in c
<1> DEFINE U == UNION F
           n == Cardinality(U)
<1>0. IsFiniteSet(U) /\ n \in Nat
  BY FrontierIsArranged, FS_CardinalityType
<1>1. s \in [1..n -> U] /\ \A i, j \in 1..n : i < j => <<s[i], s[j]>> \in FrontierOrder(F, L)
  BY DEF PlacedIn
<1>2. \A x \in U : <<x, x>> \notin FrontierOrder(F, L)
  BY FrontierIsArranged
<1>u. \A x \in U : \E c \in F : x \in c
  OBVIOUS
<1> HIDE DEF n, U
<1>3. ASSUME NEW i \in 1..n, NEW j \in 1..n, i # j PROVE s[i] # s[j]
  <2>1. i < j \/ j < i
    BY <1>0, <1>3
  <2> QED
    BY <1>1, <1>2, <2>1
<1>4. \A x \in U : \E i \in 1..n : s[i] = x
  BY <1>0, <1>1, <1>3, EnumerationIsOnto DEF n
<1>5. ASSUME NEW i \in 1..n, NEW j \in 1..n, NEW k \in 1..n, NEW c \in F,
             i < k, k < j, s[i] \in c, s[j] \in c
      PROVE  s[k] \in c
  <2>1. PICK d \in F : s[k] \in d
    BY <1>1, <1>u
  <2>2. Smallest(c) \in Int /\ Smallest(d) \in Int /\ L[c] \in Nat /\ L[d] \in Nat
    BY SmallestDecides
  <2>3. <<s[i], s[k]>> \in FrontierOrder(F, L) /\ <<s[k], s[j]>> \in FrontierOrder(F, L)
    BY <1>1, <1>5
  <2>4. L[c] > L[d] \/ (L[c] = L[d] /\ Smallest(c) <= Smallest(d))
    <3>1. \/ L[c] > L[d]
          \/ L[c] = L[d] /\ (Smallest(c) < Smallest(d) \/ (Smallest(c) = Smallest(d) /\ s[i] < s[k]))
      BY <1>5, <2>1, <2>3, FrontierOrderIs
    <3> QED
      BY <2>2, <3>1
  <2>5. L[d] > L[c] \/ (L[d] = L[c] /\ Smallest(d) <= Smallest(c))
    <3>1. \/ L[d] > L[c]
          \/ L[d] = L[c] /\ (Smallest(d) < Smallest(c) \/ (Smallest(d) = Smallest(c) /\ s[k] < s[j]))
      BY <1>5, <2>1, <2>3, FrontierOrderIs
    <3> QED
      BY <2>2, <3>1
  <2>6. Smallest(c) = Smallest(d)
    BY <2>2, <2>4, <2>5
  <2> QED
    BY <2>1, <2>6, SmallestDecides
<1> QED
  BY <1>3, <1>4, <1>5 DEF n, U

\* A sequence of the functions of the components P: each once, with the leaves of its
\* component, callers first and the functions of a component together.
OrderedBy(T, L, P, s) ==
    /\ s \in Seq(Entry)
    /\ \A i \in 1..Len(s) : \E c \in P : s[i].id \in c /\ s[i].leaves = L[c]
    /\ \A c \in P : \A f \in c : \E i \in 1..Len(s) : s[i].id = f
    /\ \A i, j \in 1..Len(s) : i # j => s[i].id # s[j].id
    /\ \A i, j \in 1..Len(s) : \A c, d \in P :
          i < j /\ s[i].id \in c /\ s[j].id \in d => c \notin T[d]
    /\ \A i, j, k \in 1..Len(s) : \A c \in P :
          i < k /\ k < j /\ s[i].id \in c /\ s[j].id \in c => s[k].id \in c

\* A frontier whose components do not lead to each other is placed in such an order.
LEMMA EntriesAreOrdered ==
  ASSUME NEW F, IsFiniteSet(F), Blocks(F), NEW L, \A c \in F : L[c] \in Nat,
         NEW T, \A c, d \in F : c \notin T[d]
  PROVE  OrderedBy(T, L, F, Entries(F, L))
<1> DEFINE U == UNION F
           n == Cardinality(U)
           s == Arranged(U, FrontierOrder(F, L))
           e == Entries(F, L)
<1>0. n \in Nat
  BY FrontierIsArranged, FS_CardinalityType
<1>1. PlacedIn(F, L, s)
  BY FrontierIsArranged
<1>2. s \in [1..n -> U]
  BY <1>1 DEF PlacedIn
<1>3. e = [i \in DOMAIN s |-> [id |-> s[i], leaves |-> L[ComponentOf(F, s[i])]]]
  BY DEF Entries
<1> HIDE DEF s, e
<1>4. /\ \A i, j \in 1..n : i # j => s[i] # s[j]
      /\ \A x \in U : \E i \in 1..n : s[i] = x
      /\ \A i, j, k \in 1..n : \A c \in F :
            i < k /\ k < j /\ s[i] \in c /\ s[j] \in c => s[k] \in c
  BY <1>1, PlacedProperties
<1>u. /\ \A x \in U : \E c \in F : x \in c /\ x \in Int
      /\ \A c \in F : \A x \in c : x \in U
  BY DEF Blocks
<1> HIDE DEF U, n
<1>5. \A i \in 1..n : \E c \in F : /\ s[i] \in c /\ s[i] \in Int
                                   /\ ComponentOf(F, s[i]) = c /\ L[c] \in Nat
  <2> SUFFICES ASSUME NEW i \in 1..n
               PROVE  \E c \in F : /\ s[i] \in c /\ s[i] \in Int
                                   /\ ComponentOf(F, s[i]) = c /\ L[c] \in Nat
    OBVIOUS
  <2>1. PICK c \in F : s[i] \in c /\ s[i] \in Int
    BY <1>2, <1>u
  <2> QED
    BY <2>1, ComponentOfMember
<1>6. DOMAIN e = 1..n
  BY <1>2, <1>3
<1>7. \A i \in 1..n : e[i] = [id |-> s[i], leaves |-> L[ComponentOf(F, s[i])]]
  BY <1>2, <1>3
<1>8. \A i \in 1..n : e[i] \in Entry
  <2> SUFFICES ASSUME NEW i \in 1..n PROVE e[i] \in Entry
    OBVIOUS
  <2>1. s[i] \in Int /\ L[ComponentOf(F, s[i])] \in Nat
    BY <1>5
  <2>2. e[i] = [id |-> s[i], leaves |-> L[ComponentOf(F, s[i])]]
    BY <1>7
  <2> QED
    BY <2>1, <2>2 DEF Entry
<1>9. e \in Seq(Entry) /\ Len(e) = n
  <2>1. e \in [1..n -> Entry]
    BY <1>3, <1>6, <1>8
  <2> QED
    BY <1>0, <2>1
<1>10. \A i \in 1..n : e[i].id = s[i] /\ e[i].leaves = L[ComponentOf(F, s[i])]
  <2> SUFFICES ASSUME NEW i \in 1..n
               PROVE  e[i].id = s[i] /\ e[i].leaves = L[ComponentOf(F, s[i])]
    OBVIOUS
  <2>1. e[i] = [id |-> s[i], leaves |-> L[ComponentOf(F, s[i])]]
    BY <1>7
  <2> QED
    BY <2>1
<1>11. \A i \in 1..Len(e) : \E c \in F : e[i].id \in c /\ e[i].leaves = L[c]
  BY <1>5, <1>9, <1>10
<1>12. \A c \in F : \A f \in c : \E i \in 1..Len(e) : e[i].id = f
  BY <1>4, <1>9, <1>10, <1>u
<1>13. \A i, j \in 1..Len(e) : i # j => e[i].id # e[j].id
  BY <1>4, <1>9, <1>10
<1>14. \A i, j, k \in 1..Len(e) : \A c \in F :
          i < k /\ k < j /\ e[i].id \in c /\ e[j].id \in c => e[k].id \in c
  BY <1>4, <1>9, <1>10
<1> QED
  BY <1>9, <1>11, <1>12, <1>13, <1>14 DEF OrderedBy, e

\* Where the elements of two sequences are when one follows the other.
LEMMA Concatenated ==
  ASSUME NEW S, NEW a \in Seq(S), NEW b \in Seq(S)
  PROVE  /\ a \o b \in Seq(S)
         /\ Len(a \o b) = Len(a) + Len(b)
         /\ \A i \in 1..Len(a) : i \in 1..Len(a \o b) /\ (a \o b)[i] = a[i]
         /\ \A i \in 1..Len(b) : i + Len(a) \in 1..Len(a \o b) /\ (a \o b)[i + Len(a)] = b[i]
         /\ \A i \in 1..Len(a \o b) : i \in 1..Len(a) \/ (i > Len(a) /\ i - Len(a) \in 1..Len(b)
                                                          /\ (a \o b)[i] = b[i - Len(a)])
<1> QED
  OBVIOUS

\* Of two such sequences, one after the other is such a sequence when nothing placed
\* later leads to what was placed before.
LEMMA ConcatenatedOrder ==
  ASSUME NEW K, Blocks(K), NEW T, NEW L, NEW P \in SUBSET K, NEW F \in SUBSET K, P \cap F = {},
         \A c \in P : \A d \in F : c \notin T[d],
         NEW a, OrderedBy(T, L, P, a), NEW b, OrderedBy(T, L, F, b)
  PROVE  OrderedBy(T, L, P \cup F, a \o b)
<1> DEFINE e == a \o b
           m == Len(a)
           n == Len(b)
<1>1. /\ e \in Seq(Entry)
      /\ Len(e) = m + n
      /\ \A i \in 1..m : i \in 1..Len(e) /\ e[i] = a[i]
      /\ \A i \in 1..n : i + m \in 1..Len(e) /\ e[i + m] = b[i]
      /\ \A i \in 1..Len(e) : i \in 1..m \/ (i > m /\ i - m \in 1..n /\ e[i] = b[i - m])
  BY Concatenated DEF OrderedBy
<1>2. m \in Nat /\ n \in Nat
  BY DEF OrderedBy
<1>a. /\ \A i \in 1..m : \E c \in P : a[i].id \in c /\ a[i].leaves = L[c]
      /\ \A c \in P : \A f \in c : \E i \in 1..m : a[i].id = f
      /\ \A i, j \in 1..m : i # j => a[i].id # a[j].id
      /\ \A i, j \in 1..m : \A c, d \in P : i < j /\ a[i].id \in c /\ a[j].id \in d => c \notin T[d]
      /\ \A i, j, k \in 1..m : \A c \in P :
            i < k /\ k < j /\ a[i].id \in c /\ a[j].id \in c => a[k].id \in c
  BY DEF OrderedBy
<1>b. /\ \A i \in 1..n : \E c \in F : b[i].id \in c /\ b[i].leaves = L[c]
      /\ \A c \in F : \A f \in c : \E i \in 1..n : b[i].id = f
      /\ \A i, j \in 1..n : i # j => b[i].id # b[j].id
      /\ \A i, j \in 1..n : \A c, d \in F : i < j /\ b[i].id \in c /\ b[j].id \in d => c \notin T[d]
      /\ \A i, j, k \in 1..n : \A c \in F :
            i < k /\ k < j /\ b[i].id \in c /\ b[j].id \in c => b[k].id \in c
  BY DEF OrderedBy
<1>k. \A c, d \in K : \A x : x \in c /\ x \in d => c = d
  BY DEF Blocks
<1> HIDE DEF e, m, n
<1>3. ASSUME NEW i \in 1..Len(e)
      PROVE  \E c \in P \cup F : e[i].id \in c /\ e[i].leaves = L[c]
  <2>1. CASE i \in 1..m
    BY <1>1, <1>a, <2>1
  <2>2. CASE ~(i \in 1..m)
    BY <1>1, <1>b, <2>2
  <2> QED
    BY <2>1, <2>2
<1>4. ASSUME NEW c \in P \cup F, NEW f \in c PROVE \E i \in 1..Len(e) : e[i].id = f
  <2>1. CASE c \in P
    <3>1. PICK i \in 1..m : a[i].id = f
      BY <1>a, <2>1
    <3> QED
      BY <1>1, <3>1
  <2>2. CASE c \in F
    <3>1. PICK i \in 1..n : b[i].id = f
      BY <1>b, <2>2
    <3> QED
      BY <1>1, <3>1
  <2> QED
    BY <2>1, <2>2
<1>p. \A i \in 1..m : \A c \in P \cup F : e[i].id \in c => c \in P
  <2> SUFFICES ASSUME NEW i \in 1..m, NEW c \in P \cup F, e[i].id \in c PROVE c \in P
    OBVIOUS
  <2>1. PICK d \in P : e[i].id \in d
    BY <1>1, <1>a
  <2> QED
    BY <1>k, <2>1
<1>f. \A i \in 1..n : \A c \in P \cup F : b[i].id \in c => c \in F
  <2> SUFFICES ASSUME NEW i \in 1..n, NEW c \in P \cup F, b[i].id \in c PROVE c \in F
    OBVIOUS
  <2>1. PICK d \in F : b[i].id \in d
    BY <1>b
  <2> QED
    BY <1>k, <2>1
<1>x. \A i \in 1..m : \A j \in 1..n : a[i].id # b[j].id
  <2> SUFFICES ASSUME NEW i \in 1..m, NEW j \in 1..n, a[i].id = b[j].id PROVE FALSE
    OBVIOUS
  <2>1. PICK c \in P : a[i].id \in c
    BY <1>a
  <2>2. c \in F
    BY <1>f, <2>1
  <2> QED
    BY <2>2
<1>5. ASSUME NEW i \in 1..Len(e), NEW j \in 1..Len(e), i # j PROVE e[i].id # e[j].id
  <2>1. CASE i \in 1..m /\ j \in 1..m
    BY <1>1, <1>5, <1>a, <2>1
  <2>2. CASE i \in 1..m /\ ~(j \in 1..m)
    BY <1>1, <1>x, <2>2
  <2>3. CASE ~(i \in 1..m) /\ j \in 1..m
    BY <1>1, <1>x, <2>3
  <2>4. CASE ~(i \in 1..m) /\ ~(j \in 1..m)
    <3>1. i - m \in 1..n /\ j - m \in 1..n /\ e[i] = b[i - m] /\ e[j] = b[j - m]
      BY <1>1, <2>4
    <3>2. i - m # j - m
      BY <1>1, <1>2, <1>5
    <3> QED
      BY <1>b, <3>1, <3>2
  <2> QED
    BY <2>1, <2>2, <2>3, <2>4
<1>6. ASSUME NEW i \in 1..Len(e), NEW j \in 1..Len(e), NEW c \in P \cup F, NEW d \in P \cup F,
             i < j, e[i].id \in c, e[j].id \in d
      PROVE  c \notin T[d]
  <2>1. CASE i \in 1..m /\ j \in 1..m
    <3>1. c \in P /\ d \in P
      BY <1>6, <1>p, <2>1
    <3> QED
      BY <1>1, <1>6, <1>a, <2>1, <3>1
  <2>2. CASE i \in 1..m /\ ~(j \in 1..m)
    <3>1. c \in P
      BY <1>6, <1>p, <2>2
    <3>2. d \in F
      BY <1>1, <1>6, <1>f, <2>2
    <3> QED
      BY <3>1, <3>2
  <2>3. CASE ~(i \in 1..m) /\ j \in 1..m
    BY <1>1, <1>2, <1>6, <2>3
  <2>4. CASE ~(i \in 1..m) /\ ~(j \in 1..m)
    <3>1. i - m \in 1..n /\ j - m \in 1..n /\ e[i] = b[i - m] /\ e[j] = b[j - m]
      BY <1>1, <2>4
    <3>2. i - m < j - m
      BY <1>1, <1>2, <1>6
    <3>3. c \in F /\ d \in F
      BY <1>6, <1>f, <3>1
    <3> QED
      BY <1>6, <1>b, <3>1, <3>2, <3>3
  <2> QED
    BY <2>1, <2>2, <2>3, <2>4
<1>7. ASSUME NEW i \in 1..Len(e), NEW j \in 1..Len(e), NEW k \in 1..Len(e), NEW c \in P \cup F,
             i < k, k < j, e[i].id \in c, e[j].id \in c
      PROVE  e[k].id \in c
  <2>1. CASE j \in 1..m
    <3>1. i \in 1..m /\ k \in 1..m
      BY <1>1, <1>2, <1>7, <2>1
    <3>2. c \in P
      BY <1>7, <1>p, <2>1
    <3> QED
      BY <1>1, <1>7, <1>a, <2>1, <3>1, <3>2
  <2>2. CASE ~(j \in 1..m)
    <3>1. j - m \in 1..n /\ e[j] = b[j - m]
      BY <1>1, <2>2
    <3>2. c \in F
      BY <1>7, <1>f, <3>1
    <3>3. ~(i \in 1..m)
      BY <1>7, <1>p, <3>2
    <3>4. ~(k \in 1..m)
      BY <1>1, <1>2, <1>7, <3>3
    <3>5. /\ i - m \in 1..n /\ e[i] = b[i - m]
          /\ k - m \in 1..n /\ e[k] = b[k - m]
      BY <1>1, <3>3, <3>4
    <3>6. i - m < k - m /\ k - m < j - m
      BY <1>1, <1>2, <1>7
    <3> QED
      BY <1>7, <1>b, <3>1, <3>2, <3>5, <3>6
  <2> QED
    BY <2>1, <2>2
<1> QED
  BY <1>1, <1>3, <1>4, <1>5, <1>6, <1>7 DEF OrderedBy, e

\* Of the components not placed yet, one is led to by no other of them.
LEMMA SomeComponentIsFirst ==
  ASSUME NEW K, NEW T, Dag(K, T), NEW Q \in SUBSET K, Q # {}
  PROVE  \E c \in Q : \A d \in Q : c \notin T[d]
<1> DEFINE size(c) == Cardinality(T[c])
           sizes == {size(c) : c \in Q}
           N == Cardinality(K)
<1>0. N \in Nat
  BY FS_CardinalityType DEF Dag
<1>1. \A c \in Q : IsFiniteSet(T[c]) /\ size(c) \in Nat /\ size(c) <= N
  <2> SUFFICES ASSUME NEW c \in Q PROVE IsFiniteSet(T[c]) /\ size(c) \in Nat /\ size(c) <= N
    OBVIOUS
  <2>1. T[c] \in SUBSET K /\ IsFiniteSet(K)
    BY DEF Dag
  <2>2. IsFiniteSet(T[c]) /\ size(c) <= N
    BY <2>1, FS_Subset
  <2> QED
    BY <2>2, FS_CardinalityType
<1> HIDE DEF size, N
<1>2. sizes \in SUBSET (0..N) /\ sizes # {}
  BY <1>0, <1>1
<1>3. PICK n \in sizes : \A m \in sizes : m <= n
  <2> HIDE DEF sizes
  <2> QED
    BY <1>0, <1>2, GreatestNatural
<1>4. PICK c \in Q : size(c) = n
  OBVIOUS
<1>5. ASSUME NEW d \in Q, c \in T[d] PROVE FALSE
  <2>1. T[c] \in SUBSET T[d] /\ T[c] # T[d]
    BY <1>5 DEF Dag
  <2>2. size(c) <= size(d) /\ size(c) # size(d)
    BY <1>1, <2>1, FS_Subset DEF size
  <2>3. size(d) <= size(c)
    BY <1>3, <1>4
  <2> QED
    BY <1>1, <2>2, <2>3
<1> QED
  BY <1>5

LevelType(K) == [ordered : Seq(Entry), indegree : [K -> Int], frontier : SUBSET K]

\* What holds after n levels of the walk: the components placed are closed under what leads
\* to them, the frontier is what only they lead to, an indegree counts the others that lead
\* to a component, and a level that places nothing comes after all are placed.
Placing(K, T, L, n, level) ==
    \E P \in SUBSET K :
       /\ OrderedBy(T, L, P, level.ordered)
       /\ \A c, d \in K : c \in P /\ c \in T[d] => d \in P
       /\ level.frontier = {c \in K \ P : \A d \in K : c \in T[d] => d \in P}
       /\ \A c \in K : level.indegree[c] = Cardinality({d \in K \ P : c \in T[d]})
       /\ P = K \/ Cardinality(P) >= n

\* Nothing is placed at the start, and every indegree counts all that leads to a
\* component.
LEMMA WalkStarts ==
  ASSUME NEW K, NEW T, Dag(K, T), NEW L
  PROVE  Start(T) \in LevelType(K) /\ Placing(K, T, L, 0, Start(T))
<1> DEFINE Before(c) == {d \in K : c \in T[d]}
           indegree == [c \in K |-> Cardinality(Before(c))]
           front == {c \in K : indegree[c] = 0}
<1>0. DOMAIN T = K /\ IsFiniteSet(K)
  BY DEF Dag
<1>1. Start(T) = [ordered |-> <<>>, indegree |-> indegree, frontier |-> front]
  BY <1>0 DEF Start
<1>2. \A c \in K : IsFiniteSet(Before(c)) /\ Cardinality(Before(c)) \in Nat
  <2> SUFFICES ASSUME NEW c \in K PROVE IsFiniteSet(Before(c)) /\ Cardinality(Before(c)) \in Nat
    OBVIOUS
  <2>1. Before(c) \in SUBSET K
    OBVIOUS
  <2>2. IsFiniteSet(Before(c))
    BY <1>0, <2>1, FS_Subset
  <2> QED
    BY <2>2, FS_CardinalityType
<1>3. indegree \in [K -> Int] /\ \A c \in K : indegree[c] = Cardinality(Before(c))
  <2> HIDE DEF Before
  <2> QED
    BY <1>2
<1>4. \A c \in K : c \in front <=> \A d \in K : c \notin T[d]
  <2> SUFFICES ASSUME NEW c \in K PROVE c \in front <=> Before(c) = {}
    OBVIOUS
  <2>1. Cardinality(Before(c)) = 0 <=> Before(c) = {}
    BY <1>2, FS_EmptySet
  <2> HIDE DEF Before, indegree
  <2> QED
    BY <1>3, <2>1
<1> HIDE DEF front, indegree
<1>5. front \in SUBSET K
  BY DEF front
<1>6. <<>> \in Seq(Entry) /\ OrderedBy(T, L, {}, <<>>)
  BY DEF OrderedBy
<1>7. /\ Start(T).ordered = <<>>
      /\ Start(T).indegree = indegree
      /\ Start(T).frontier = front
  BY <1>1
<1>8. Start(T) \in LevelType(K)
  BY <1>1, <1>3, <1>5, <1>6 DEF LevelType
<1>9. front = {c \in K \ {} : \A d \in K : c \in T[d] => d \in {}}
  BY <1>4, <1>5
<1>10. \A c \in K : indegree[c] = Cardinality({d \in K \ {} : c \in T[d]})
  <2> SUFFICES ASSUME NEW c \in K PROVE indegree[c] = Cardinality({d \in K \ {} : c \in T[d]})
    OBVIOUS
  <2>1. {d \in K \ {} : c \in T[d]} = Before(c)
    OBVIOUS
  <2> HIDE DEF Before
  <2> QED
    BY <1>3, <2>1
<1>11. Cardinality({}) >= 0
  BY FS_EmptySet
<1>12. \E P \in SUBSET K :
         /\ OrderedBy(T, L, P, Start(T).ordered)
         /\ \A c, d \in K : c \in P /\ c \in T[d] => d \in P
         /\ Start(T).frontier = {c \in K \ P : \A d \in K : c \in T[d] => d \in P}
         /\ \A c \in K : Start(T).indegree[c] = Cardinality({d \in K \ P : c \in T[d]})
         /\ P = K \/ Cardinality(P) >= 0
  <2>1. {} \in SUBSET K
    OBVIOUS
  <2> WITNESS {} \in SUBSET K
  <2> QED
    BY <1>6, <1>7, <1>9, <1>10, <1>11
<1> QED
  BY <1>8, <1>12 DEF Placing

\* A level keeps its type, whatever it starts from.
LEMMA LevelKeepsType ==
  ASSUME NEW K, NEW T, Dag(K, T), Blocks(K), NEW L, \A c \in K : L[c] \in Nat,
         NEW level \in LevelType(K)
  PROVE  PlaceFrontier(level, T, L) \in LevelType(K)
<1> DEFINE F == level.frontier
           Incoming(c) == Cardinality({s \in F : c \in T[s]})
           indegree == [c \in K |-> level.indegree[c] - Incoming(c)]
           front == {c \in K : Incoming(c) > 0 /\ indegree[c] = 0}
           placed == level.ordered \o Entries(F, L)
<1>0. DOMAIN T = K /\ IsFiniteSet(K)
  BY DEF Dag
<1>1. PlaceFrontier(level, T, L) = [ordered |-> placed, indegree |-> indegree, frontier |-> front]
  BY <1>0 DEF PlaceFrontier
<1>2. F \in SUBSET K /\ level.ordered \in Seq(Entry) /\ level.indegree \in [K -> Int]
  BY DEF LevelType
<1> HIDE DEF F
<1>3. IsFiniteSet(F)
  BY <1>0, <1>2, FS_Subset
<1>4. \A c \in K : Incoming(c) \in Nat
  <2> SUFFICES ASSUME NEW c \in K PROVE Incoming(c) \in Nat
    OBVIOUS
  <2>1. {s \in F : c \in T[s]} \in SUBSET F
    OBVIOUS
  <2>2. IsFiniteSet({s \in F : c \in T[s]})
    BY <1>3, <2>1, FS_Subset
  <2> QED
    BY <2>2, FS_CardinalityType
<1>5. indegree \in [K -> Int] /\ front \in SUBSET K
  <2> HIDE DEF Incoming
  <2> QED
    BY <1>2, <1>4
<1>6. Entries(F, L) \in Seq(Entry)
  <2> DEFINE none == [c \in F |-> {}]
  <2>1. Blocks(F) /\ \A c \in F : L[c] \in Nat
    BY <1>2 DEF Blocks
  <2>2. \A c, d \in F : c \notin none[d]
    OBVIOUS
  <2> HIDE DEF none
  <2>3. OrderedBy(none, L, F, Entries(F, L))
    BY <1>3, <2>1, <2>2, EntriesAreOrdered
  <2> QED
    BY <2>3 DEF OrderedBy
<1>7. placed \in Seq(Entry)
  BY <1>2, <1>6
<1> HIDE DEF indegree, front, placed
<1> QED
  BY <1>1, <1>5, <1>7 DEF LevelType

\* A level of the walk places its frontier, and with it a component more unless none is left.
LEMMA LevelPlaces ==
  ASSUME NEW K, NEW T, Dag(K, T), Blocks(K), NEW L, \A c \in K : L[c] \in Nat,
         NEW level \in LevelType(K), NEW n \in Nat, Placing(K, T, L, n, level)
  PROVE  Placing(K, T, L, n + 1, PlaceFrontier(level, T, L))
<1> DEFINE F == level.frontier
           Incoming(c) == Cardinality({s \in F : c \in T[s]})
           indegree == [c \in K |-> level.indegree[c] - Incoming(c)]
           front == {c \in K : Incoming(c) > 0 /\ indegree[c] = 0}
           placed == level.ordered \o Entries(F, L)
           next == PlaceFrontier(level, T, L)
<1>0. /\ DOMAIN T = K
      /\ IsFiniteSet(K)
      /\ \A c \in K : c \notin T[c] /\ T[c] \in SUBSET K
      /\ \A c, d, e \in K : d \in T[c] /\ e \in T[d] => e \in T[c]
  BY DEF Dag
<1>1. next.ordered = placed /\ next.indegree = indegree /\ next.frontier = front
  BY <1>0 DEF PlaceFrontier
<1> HIDE DEF next
<1>2. PICK P \in SUBSET K :
         /\ OrderedBy(T, L, P, level.ordered)
         /\ \A c, d \in K : c \in P /\ c \in T[d] => d \in P
         /\ F = {c \in K \ P : \A d \in K : c \in T[d] => d \in P}
         /\ \A c \in K : level.indegree[c] = Cardinality({d \in K \ P : c \in T[d]})
         /\ P = K \/ Cardinality(P) >= n
  BY DEF Placing
<1> HIDE DEF F
<1> DEFINE Q == P \cup F
           Unplaced(c) == {d \in K \ P : c \in T[d]}
           After(c) == {d \in K \ Q : c \in T[d]}
           From(c) == {s \in F : c \in T[s]}
<1>3. F \in SUBSET K /\ P \cap F = {} /\ Q \in SUBSET K
  BY <1>2
<1>4. IsFiniteSet(F) /\ IsFiniteSet(P)
  BY <1>0, <1>3, FS_Subset
<1>5. \A c, d \in F : c \notin T[d]
  BY <1>2, <1>3
<1>6. \A c \in P : \A d \in F : c \notin T[d]
  BY <1>2, <1>3
<1>7. OrderedBy(T, L, Q, placed)
  <2>1. Blocks(F) /\ \A c \in F : L[c] \in Nat
    BY <1>3 DEF Blocks
  <2>2. OrderedBy(T, L, F, Entries(F, L))
    BY <1>4, <1>5, <2>1, EntriesAreOrdered
  <2> QED
    BY <1>2, <1>3, <1>6, <2>2, ConcatenatedOrder
<1>8. \A c, d \in K : c \in Q /\ c \in T[d] => d \in Q
  BY <1>2
<1>9. ASSUME NEW c \in K
      PROVE  /\ IsFiniteSet(Unplaced(c)) /\ IsFiniteSet(After(c)) /\ IsFiniteSet(From(c))
             /\ Cardinality(Unplaced(c)) \in Nat /\ Cardinality(After(c)) \in Nat
             /\ Cardinality(From(c)) \in Nat
             /\ Cardinality(Unplaced(c)) = Cardinality(After(c)) + Cardinality(From(c))
  <2>1. Unplaced(c) \in SUBSET K /\ After(c) \in SUBSET K /\ From(c) \in SUBSET K
    BY <1>3
  <2>2. Unplaced(c) = After(c) \cup From(c) /\ After(c) \cap From(c) = {}
    BY <1>3
  <2> HIDE DEF Unplaced, After, From
  <2>3. IsFiniteSet(Unplaced(c)) /\ IsFiniteSet(After(c)) /\ IsFiniteSet(From(c))
    BY <1>0, <2>1, FS_Subset
  <2>4. /\ Cardinality(Unplaced(c)) \in Nat /\ Cardinality(After(c)) \in Nat
        /\ Cardinality(From(c)) \in Nat
    BY <2>3, FS_CardinalityType
  <2>5. Cardinality(Unplaced(c)) = Cardinality(After(c)) + Cardinality(From(c)) - Cardinality({})
    BY <2>2, <2>3, FS_Union
  <2>6. Cardinality({}) = 0
    BY FS_EmptySet
  <2> QED
    BY <2>3, <2>4, <2>5, <2>6
<1>10. \A c \in K : indegree[c] = Cardinality(After(c))
  <2> SUFFICES ASSUME NEW c \in K PROVE indegree[c] = Cardinality(After(c))
    OBVIOUS
  <2>1. indegree[c] = Cardinality(Unplaced(c)) - Cardinality(From(c))
    BY <1>2
  <2> HIDE DEF indegree, Unplaced, After, From
  <2> QED
    BY <1>9, <2>1
<1>11. ASSUME NEW c \in K
       PROVE  c \in front <=> c \notin Q /\ \A d \in K : c \in T[d] => d \in Q
  <2>1. c \in front <=> Cardinality(From(c)) > 0 /\ indegree[c] = 0
    OBVIOUS
  <2> HIDE DEF front, indegree
  <2>2. Cardinality(From(c)) > 0 <=> From(c) # {}
    <3> HIDE DEF From, Unplaced, After
    <3>1. IsFiniteSet(From(c)) /\ Cardinality(From(c)) \in Nat
      BY <1>9
    <3>2. Cardinality(From(c)) = 0 <=> From(c) = {}
      BY <3>1, FS_EmptySet
    <3> QED
      BY <3>1, <3>2
  <2>3. indegree[c] = 0 <=> After(c) = {}
    <3> HIDE DEF From, Unplaced, After
    <3> QED
      BY <1>9, <1>10, FS_EmptySet
  <2>4. After(c) = {} <=> \A d \in K : c \in T[d] => d \in Q
    OBVIOUS
  <2>5. From(c) # {} <=> \E s \in F : c \in T[s]
    OBVIOUS
  <2>6. ASSUME \E s \in F : c \in T[s] PROVE c \notin Q
    BY <1>2, <1>5, <1>6, <2>6
  <2>7. ASSUME c \notin Q, \A d \in K : c \in T[d] => d \in Q PROVE \E s \in F : c \in T[s]
    <3>1. PICK d \in K : c \in T[d] /\ d \notin P
      BY <1>2, <2>7
    <3> QED
      BY <2>7, <3>1
  <2> HIDE DEF From, After, Unplaced, Q
  <2> QED
    BY <2>1, <2>2, <2>3, <2>4, <2>5, <2>6, <2>7
<1>12. front = {c \in K \ Q : \A d \in K : c \in T[d] => d \in Q}
  <2>1. front \in SUBSET K
    OBVIOUS
  <2> HIDE DEF front, Q
  <2> QED
    BY <1>11, <2>1
<1>13. Q = K \/ Cardinality(Q) >= n + 1
  <2>1. CASE P = K
    BY <1>3, <2>1
  <2>2. CASE P # K
    <3>1. PICK c \in K \ P : \A d \in K \ P : c \notin T[d]
      <4>1. K \ P \in SUBSET K /\ K \ P # {}
        BY <2>2
      <4> QED
        BY <4>1, SomeComponentIsFirst
    <3>2. c \in F
      BY <1>2, <3>1
    <3>3. IsFiniteSet(Q)
      BY <1>0, <1>3, FS_Subset
    <3>4. P \in SUBSET Q /\ P # Q
      BY <3>1, <3>2
    <3> HIDE DEF Q
    <3>5. Cardinality(P) <= Cardinality(Q) /\ Cardinality(P) # Cardinality(Q)
      BY <3>3, <3>4, FS_Subset
    <3>6. Cardinality(P) \in Nat /\ Cardinality(Q) \in Nat
      BY <1>4, <3>3, FS_CardinalityType
    <3> QED
      BY <1>2, <2>2, <3>5, <3>6
  <2> QED
    BY <2>1, <2>2
<1>14. \A c \in K : next.indegree[c] = Cardinality({d \in K \ Q : c \in T[d]})
  <2> HIDE DEF indegree, Q
  <2> QED
    BY <1>1, <1>10
<1> HIDE DEF Q, front, placed
<1>15. \E R \in SUBSET K :
         /\ OrderedBy(T, L, R, next.ordered)
         /\ \A c, d \in K : c \in R /\ c \in T[d] => d \in R
         /\ next.frontier = {c \in K \ R : \A d \in K : c \in T[d] => d \in R}
         /\ \A c \in K : next.indegree[c] = Cardinality({d \in K \ R : c \in T[d]})
         /\ R = K \/ Cardinality(R) >= n + 1
  BY <1>1, <1>3, <1>7, <1>8, <1>12, <1>13, <1>14
<1> QED
  BY <1>15 DEF Placing, next

\* The levels of the walk are what one after the other makes of the start.
LEMMA LevelsOfWalk ==
  ASSUME NEW K, NEW T, Dag(K, T), Blocks(K), NEW L, \A c \in K : L[c] \in Nat
  PROVE  \E M \in [0..Cardinality(K) -> LevelType(K)] :
            M = [n \in 0..Cardinality(K) |->
                   IF n = 0 THEN Start(T) ELSE PlaceFrontier(M[n - 1], T, L)]
<1> DEFINE N == Cardinality(K)
           S == LevelType(K)
           base == Start(T)
           step == [n \in 1..N |-> [x \in S |-> PlaceFrontier(x, T, L)]]
<1>0. N \in Nat
  BY FS_CardinalityType DEF Dag
<1>1. base \in S
  BY WalkStarts
<1>2. \A x \in S : PlaceFrontier(x, T, L) \in S
  BY LevelKeepsType
<1> HIDE DEF N, S, base
<1>3. step \in [1..N -> [S -> S]]
  BY <1>2
<1>4. \A n \in 1..N : \A x \in S : step[n][x] = PlaceFrontier(x, T, L)
  OBVIOUS
<1> HIDE DEF step
<1>5. PICK M \in [0..N -> S] : Recursive(M, N, base, step)
  BY <1>0, <1>1, <1>3, RecursionExists
<1>6. M = [n \in 0..N |-> IF n = 0 THEN base ELSE PlaceFrontier(M[n - 1], T, L)]
  <2>1. \A n \in 0..N : n # 0 => n \in 1..N /\ M[n - 1] \in S
    BY <1>0, <1>5
  <2>2. \A n \in 0..N : (IF n = 0 THEN base ELSE step[n][M[n - 1]])
                        = (IF n = 0 THEN base ELSE PlaceFrontier(M[n - 1], T, L))
    BY <1>4, <2>1
  <2> QED
    BY <1>5, <2>2 DEF Recursive
<1> QED
  BY <1>6 DEF N, S, base

\* After as many levels as there are components, all are placed.
LEMMA WalkPlacesAll ==
  ASSUME NEW K, NEW T, Dag(K, T), Blocks(K), NEW L, \A c \in K : L[c] \in Nat,
         NEW M,
         M = [n \in 0..Cardinality(K) |-> IF n = 0 THEN Start(T) ELSE PlaceFrontier(M[n - 1], T, L)]
  PROVE  OrderedBy(T, L, K, M[Cardinality(K)].ordered)
<1> DEFINE N == Cardinality(K)
           Good(n) == M[n] \in LevelType(K) /\ Placing(K, T, L, n, M[n])
           S == {n \in 0..N : Good(n)}
<1>0. N \in Nat /\ IsFiniteSet(K)
  BY FS_CardinalityType DEF Dag
<1>1. M[0] = Start(T) /\ \A n \in 1..N : M[n] = PlaceFrontier(M[n - 1], T, L)
  <2>1. 0 \in 0..N /\ \A n \in 1..N : n \in 0..N /\ n # 0
    BY <1>0
  <2> QED
    BY <2>1
<1> HIDE DEF N
<1>2. 0 \in S
  <2>1. Good(0)
    BY <1>1, WalkStarts
  <2> HIDE DEF Good
  <2> QED
    BY <1>0, <2>1
<1>3. ASSUME NEW n \in 1..N, n - 1 \in S PROVE n \in S
  <2>1. Good(n - 1)
    BY <1>3
  <2>2. n - 1 \in Nat /\ (n - 1) + 1 = n /\ n \in 0..N
    BY <1>0
  <2>3. M[n] = PlaceFrontier(M[n - 1], T, L)
    BY <1>1
  <2>4. Placing(K, T, L, (n - 1) + 1, PlaceFrontier(M[n - 1], T, L))
    BY <2>1, <2>2, LevelPlaces
  <2>5. M[n] \in LevelType(K)
    BY <2>1, <2>3, LevelKeepsType
  <2>6. Good(n)
    BY <2>2, <2>3, <2>4, <2>5
  <2> HIDE DEF Good
  <2> QED
    BY <2>2, <2>6
<1>4. N \in S
  <2>1. 0..N \subseteq S
    <3> HIDE DEF S
    <3> QED
      BY <1>0, <1>2, <1>3, BoundedInduction
  <2> HIDE DEF S
  <2> QED
    BY <1>0, <2>1
<1>5. PICK P \in SUBSET K : /\ OrderedBy(T, L, P, M[N].ordered)
                            /\ P = K \/ Cardinality(P) >= N
  BY <1>4 DEF Placing
<1>6. P = K
  <2>1. Cardinality(P) <= N /\ IsFiniteSet(P)
    BY <1>0, FS_Subset DEF N
  <2>2. Cardinality(P) \in Nat
    BY <2>1, FS_CardinalityType
  <2>3. ASSUME Cardinality(P) >= N PROVE P = K
    <3>1. Cardinality(K) = Cardinality(P)
      BY <1>0, <2>1, <2>2, <2>3 DEF N
    <3> QED
      BY <1>0, <3>1, FS_Subset
  <2> QED
    BY <1>5, <2>3
<1> QED
  BY <1>5, <1>6 DEF N

LeavesOf(T, c) == UNION {d \in T[c] : T[d] = {}}

\* A component is counted with the functions of the last components below it.
LEMMA LeafCountsOf ==
  ASSUME NEW K, NEW T, Dag(K, T), Blocks(K)
  PROVE  \A c \in K : /\ LeafCounts(T)[c] = Cardinality(LeavesOf(T, c))
                      /\ LeafCounts(T)[c] \in Nat
<1> SUFFICES ASSUME NEW c \in K
             PROVE  /\ LeafCounts(T)[c] = Cardinality(LeavesOf(T, c))
                    /\ LeafCounts(T)[c] \in Nat
  OBVIOUS
<1>1. DOMAIN T = K /\ T[c] \in SUBSET K /\ IsFiniteSet(K)
  BY DEF Dag
<1>2. LeafCounts(T)[c] = Cardinality(LeavesOf(T, c))
  BY <1>1 DEF LeafCounts, LeavesOf
<1>3. {d \in T[c] : T[d] = {}} \in SUBSET K
  BY <1>1
<1>4. IsFiniteSet({d \in T[c] : T[d] = {}})
  BY <1>1, <1>3, FS_Subset
<1>5. \A d \in {d \in T[c] : T[d] = {}} : IsFiniteSet(d)
  BY <1>3 DEF Blocks
<1>6. IsFiniteSet(LeavesOf(T, c))
  BY <1>4, <1>5, FS_UNION DEF LeavesOf
<1> QED
  BY <1>2, <1>6, FS_CardinalityType

\* The review order is an order of all components.
LEMMA ReviewOrderIsOrdered ==
  ASSUME NEW graph, NEW set, NEW r, r = [f \in set |-> Reaches(graph, set, f)], ReachType(set, r)
  PROVE  OrderedBy(Targets(r), LeafCounts(Targets(r)), Components(r), ReviewOrder(graph, set))
<1> DEFINE K == Components(r)
           T == Targets(r)
           L == LeafCounts(T)
<1>1. Dag(K, T) /\ Blocks(K)
  BY ComponentsAreDag, ComponentsAreBlocks
<1>2. DOMAIN T = K
  BY <1>1 DEF Dag
<1> DEFINE M == CHOOSE M : M = [n \in 0..Cardinality(DOMAIN T) |->
                                  IF n = 0 THEN Start(T) ELSE PlaceFrontier(M[n - 1], T, L)]
<1>3. ReviewOrder(graph, set) = M[Cardinality(DOMAIN T)].ordered
  BY DEF ReviewOrder
<1> HIDE DEF K, T
<1>4. \A c \in K : L[c] \in Nat
  BY <1>1, LeafCountsOf
<1> HIDE DEF L
<1>5. \E M_1 : M_1 = [n \in 0..Cardinality(DOMAIN T) |->
                        IF n = 0 THEN Start(T) ELSE PlaceFrontier(M_1[n - 1], T, L)]
  BY <1>1, <1>2, <1>4, LevelsOfWalk
<1>6. M = [n \in 0..Cardinality(K) |-> IF n = 0 THEN Start(T) ELSE PlaceFrontier(M[n - 1], T, L)]
  BY <1>2, <1>5
<1> HIDE DEF M
<1>7. OrderedBy(T, L, K, M[Cardinality(K)].ordered)
  BY <1>1, <1>4, <1>6, WalkPlacesAll
<1> QED
  BY <1>2, <1>3, <1>7 DEF K, T, L

\* What the review order says of a request, with what each changed function reaches given.
Place(order, f) == CHOOSE i \in DOMAIN order : order[i].id = f

ReviewedRight(set, r, order) ==
    /\ Len(order) = Cardinality(set)
    /\ {order[i].id : i \in DOMAIN order} = set
    /\ \A f, g \in set :
         /\ g \in r[f] /\ ~Mutual(r, f, g) => Place(order, f) < Place(order, g)
         /\ Mutual(r, f, g) =>
              /\ order[Place(order, f)].leaves = order[Place(order, g)].leaves
              /\ \A i \in Place(order, f)..Place(order, g) : Mutual(r, f, order[i].id)
    /\ \A f \in set :
         order[Place(order, f)].leaves =
            Cardinality({g \in r[f] : (\A h \in r[g] : Mutual(r, g, h)) /\ ~Mutual(r, f, g)})

\* The functions of the last components below are what a function reaches, is not reached
\* from, and that reaches nothing that does not reach it back.
LEMMA LeavesAreLastBelow ==
  ASSUME NEW set, NEW r, ReachType(set, r), NEW f \in set
  PROVE  LeavesOf(Targets(r), Component(r, f))
            = {g \in r[f] : (\A h \in r[g] : Mutual(r, g, h)) /\ ~Mutual(r, f, g)}
<1> DEFINE K == Components(r)
           T == Targets(r)
           Below == {g \in r[f] : (\A h \in r[g] : Mutual(r, g, h)) /\ ~Mutual(r, f, g)}
<1>1. /\ \A c \in K : c # {} /\ c \in SUBSET set
      /\ \A c \in K : \A g \in c : c = Component(r, g)
      /\ \A g \in set : Component(r, g) \in K /\ g \in Component(r, g)
  BY ComponentsOfFunctions
<1>2. \A c \in K : T[c] \in SUBSET K
  BY ComponentsAreDag DEF Dag
<1>3. \A g, h \in set : Component(r, h) \in T[Component(r, g)] <=> h \in r[g] /\ ~Mutual(r, g, h)
  BY TargetsOfComponents
<1>4. \A g \in set : r[g] \subseteq set
  BY DEF ReachType
<1> HIDE DEF K, T
<1>5. ASSUME NEW g \in set
      PROVE  T[Component(r, g)] = {} <=> \A h \in r[g] : Mutual(r, g, h)
  <2>1. ASSUME NEW d \in T[Component(r, g)] PROVE \E h \in r[g] : ~Mutual(r, g, h)
    <3>1. d \in K
      BY <1>1, <1>2
    <3>2. PICK h \in set : d = Component(r, h)
      BY <1>1, <3>1
    <3> QED
      BY <1>3, <3>2
  <2>2. ASSUME NEW h \in r[g], ~Mutual(r, g, h) PROVE T[Component(r, g)] # {}
    BY <1>3, <1>4, <2>2
  <2> QED
    BY <2>1, <2>2
<1>6. ASSUME NEW g \in LeavesOf(T, Component(r, f)) PROVE g \in Below
  <2>1. PICK d \in T[Component(r, f)] : T[d] = {} /\ g \in d
    BY DEF LeavesOf
  <2>2. d \in K /\ d = Component(r, g) /\ g \in set
    BY <1>1, <1>2, <2>1
  <2>3. g \in r[f] /\ ~Mutual(r, f, g)
    BY <1>3, <2>2
  <2>4. \A h \in r[g] : Mutual(r, g, h)
    BY <1>5, <2>1, <2>2
  <2> QED
    BY <2>3, <2>4
<1>7. ASSUME NEW g \in Below PROVE g \in LeavesOf(T, Component(r, f))
  <2>1. g \in set /\ g \in r[f] /\ ~Mutual(r, f, g) /\ \A h \in r[g] : Mutual(r, g, h)
    BY <1>4, <1>7
  <2>2. Component(r, g) \in T[Component(r, f)] /\ T[Component(r, g)] = {}
    BY <1>3, <1>5, <2>1
  <2>3. g \in Component(r, g)
    BY <1>1, <2>1
  <2> QED
    BY <2>2, <2>3 DEF LeavesOf
<1> QED
  BY <1>6, <1>7 DEF T

\* What an order of all components says of the functions.
LEMMA OrderedIsReviewed ==
  ASSUME NEW set, NEW r, ReachType(set, r), NEW order,
         OrderedBy(Targets(r), LeafCounts(Targets(r)), Components(r), order)
  PROVE  ReviewedRight(set, r, order)
<1> DEFINE K == Components(r)
           T == Targets(r)
           L == LeafCounts(T)
           n == Len(order)
           Position(f) == Place(order, f)
<1>1. /\ \A c \in K : c # {} /\ c \in SUBSET set
      /\ \A c \in K : \A g \in c : c = Component(r, g)
      /\ \A g \in set : Component(r, g) \in K /\ g \in Component(r, g)
  BY ComponentsOfFunctions
<1>2. /\ order \in Seq(Entry)
      /\ \A i \in 1..n : \E c \in K : order[i].id \in c /\ order[i].leaves = L[c]
      /\ \A c \in K : \A f \in c : \E i \in 1..n : order[i].id = f
      /\ \A i, j \in 1..n : i # j => order[i].id # order[j].id
      /\ \A i, j \in 1..n : \A c, d \in K :
            i < j /\ order[i].id \in c /\ order[j].id \in d => c \notin T[d]
      /\ \A i, j, k \in 1..n : \A c \in K :
            i < k /\ k < j /\ order[i].id \in c /\ order[j].id \in c => order[k].id \in c
  BY DEF OrderedBy
<1>3. n \in Nat /\ DOMAIN order = 1..n
  BY <1>2
<1>4. Dag(K, T) /\ Blocks(K)
  BY ComponentsAreDag, ComponentsAreBlocks
<1>5. \A c \in K : L[c] = Cardinality(LeavesOf(T, c))
  BY <1>4, LeafCountsOf
<1>6. \A f, g \in set : Component(r, g) \in T[Component(r, f)] <=> g \in r[f] /\ ~Mutual(r, f, g)
  BY TargetsOfComponents
<1>7. \A f, g \in set : g \in Component(r, f) <=> Mutual(r, f, g)
  BY ComponentIsClass
<1> HIDE DEF K, T, L, n
<1>8. ASSUME NEW i \in 1..n
      PROVE  order[i].id \in set /\ order[i].leaves = L[Component(r, order[i].id)]
  <2>1. PICK c \in K : order[i].id \in c /\ order[i].leaves = L[c]
    BY <1>2
  <2> QED
    BY <1>1, <2>1
<1>9. \A f \in set : Position(f) \in 1..n /\ order[Position(f)].id = f
  <2> SUFFICES ASSUME NEW f \in set PROVE Position(f) \in 1..n /\ order[Position(f)].id = f
    OBVIOUS
  <2>1. \E i \in 1..n : order[i].id = f
    BY <1>1, <1>2
  <2> QED
    BY <1>3, <2>1 DEF Place
<1> HIDE DEF Position
<1>10. n = Cardinality(set)
  <2> DEFINE id == [i \in 1..n |-> order[i].id]
  <2>1. id \in [1..n -> set]
    BY <1>8
  <2>2. \A i, j \in 1..n : id[i] = id[j] => i = j
    BY <1>2
  <2>3. \A f \in set : \E i \in 1..n : id[i] = f
    BY <1>9
  <2> HIDE DEF id
  <2> QED
    BY <1>3, <2>1, <2>2, <2>3, EnumerationCounts
<1>11. {order[i].id : i \in DOMAIN order} = set
  BY <1>3, <1>8, <1>9
<1>12. ASSUME NEW f \in set, NEW g \in set, g \in r[f], ~Mutual(r, f, g)
       PROVE  Position(f) < Position(g)
  <2>1. Component(r, g) \in T[Component(r, f)]
    BY <1>6, <1>12
  <2>2. f \in Component(r, f) /\ g \in Component(r, g) /\ Component(r, f) \in K /\ Component(r, g) \in K
    BY <1>1
  <2>3. ~(Position(g) < Position(f))
    BY <1>2, <1>9, <2>1, <2>2
  <2>4. Position(g) # Position(f)
    BY <1>9, <1>12 DEF Mutual
  <2> QED
    BY <1>3, <1>9, <2>3, <2>4
<1>13. ASSUME NEW f \in set, NEW g \in set, Mutual(r, f, g)
       PROVE  /\ order[Position(f)].leaves = order[Position(g)].leaves
              /\ \A i \in Position(f)..Position(g) : Mutual(r, f, order[i].id)
  <2>1. Component(r, f) = Component(r, g)
    BY <1>13, SameComponent
  <2>2. order[Position(f)].leaves = order[Position(g)].leaves
    BY <1>8, <1>9, <2>1
  <2>3. ASSUME NEW i \in Position(f)..Position(g) PROVE Mutual(r, f, order[i].id)
    <3>1. i \in 1..n /\ Position(f) \in 1..n /\ Position(g) \in 1..n
      BY <1>3, <1>9
    <3>2. f \in Component(r, f) /\ g \in Component(r, f) /\ Component(r, f) \in K
      BY <1>1, <2>1
    <3>3. order[i].id \in Component(r, f)
      <4>1. CASE i = Position(f)
        BY <1>9, <3>2, <4>1
      <4>2. CASE i = Position(g)
        BY <1>9, <3>2, <4>2
      <4>3. CASE i # Position(f) /\ i # Position(g)
        <5>1. Position(f) < i /\ i < Position(g)
          BY <1>3, <3>1, <4>3
        <5> QED
          BY <1>2, <1>9, <3>1, <3>2, <5>1
      <4> QED
        BY <4>1, <4>2, <4>3
    <3> QED
      BY <1>7, <1>8, <3>1, <3>3
  <2> QED
    BY <2>2, <2>3
<1>14. ASSUME NEW f \in set
       PROVE  order[Position(f)].leaves =
                 Cardinality({g \in r[f] : (\A h \in r[g] : Mutual(r, g, h)) /\ ~Mutual(r, f, g)})
  <2>1. order[Position(f)].leaves = L[Component(r, f)] /\ Component(r, f) \in K
    BY <1>1, <1>8, <1>9
  <2>2. LeavesOf(T, Component(r, f))
            = {g \in r[f] : (\A h \in r[g] : Mutual(r, g, h)) /\ ~Mutual(r, f, g)}
    BY LeavesAreLastBelow DEF T
  <2> QED
    BY <1>5, <2>1, <2>2
<1>15. \A f, g \in set :
          /\ g \in r[f] /\ ~Mutual(r, f, g) => Position(f) < Position(g)
          /\ Mutual(r, f, g) =>
               /\ order[Position(f)].leaves = order[Position(g)].leaves
               /\ \A i \in Position(f)..Position(g) : Mutual(r, f, order[i].id)
  BY <1>12, <1>13
<1> QED
  BY <1>10, <1>11, <1>14, <1>15 DEF ReviewedRight, Position, n

\* The review order that is answered is right for what the functions reach.
LEMMA CallersAreFirst ==
  ASSUME RequestInv, Answered("review")
  PROVE  ReviewedRight(request.changed, [f \in request.changed |-> Reaches(request.graph, request.changed, f)],
                       answer.value)
<1> DEFINE set == request.changed
           r == [f \in set |-> Reaches(request.graph, set, f)]
<1>1. /\ GraphType(request.graph) /\ request.graph.functions \subseteq Int
      /\ set \in SUBSET request.graph.functions
      /\ answer.value = ReviewOrder(request.graph, set)
  BY DEF RequestInv, WellFormed, AnswerIsComputed, Answered, ReviewAnswer
<1> HIDE DEF set
<1>2. ReachType(set, r)
  BY <1>1, ReachesIsTransitive
<1>3. OrderedBy(Targets(r), LeafCounts(Targets(r)), Components(r), answer.value)
  BY <1>1, <1>2, ReviewOrderIsOrdered
<1> HIDE DEF r
<1> QED
  BY <1>2, <1>3, OrderedIsReviewed DEF set, r

\* For any graph and any changed functions, callers come before what they call, functions
\* that call each other are together, and every one is counted with the last functions
\* below it (orderChangedFunctions).
THEOREM CallersComeFirst == AnswersSpec => []CallersReviewedFirst
<1>1. ASSUME RequestInv, Answered("review") PROVE CallersReviewedFirst
  <2> DEFINE set == request.changed
             order == answer.value
             r == [f \in set |-> Reaches(request.graph, set, f)]
             Position(f) == CHOOSE i \in DOMAIN order : order[i].id = f
             All(f) == [root |-> f, direction |-> "downstream", tests |-> TRUE]
             Reached == [f \in set |->
                           (set \ {f}) \cap Within(request.graph, All(f), Cardinality(request.graph.functions))]
             Both(f, g) == f = g \/ (g \in Reached[f] /\ f \in Reached[g])
             Bottom(f) == \A g \in Reached[f] : Both(f, g)
             LastBelow(f) == {g \in Reached[f] : Bottom(g) /\ ~Both(f, g)}
  <2>1. GraphType(request.graph) /\ set \in SUBSET request.graph.functions
    BY <1>1 DEF RequestInv, WellFormed, Answered
  <2>2. ReviewedRight(set, r, order)
    BY <1>1, CallersAreFirst
  <2>3. Reached = r
    <3> SUFFICES ASSUME NEW f \in set
                 PROVE  (set \ {f}) \cap Within(request.graph, All(f), Cardinality(request.graph.functions))
                           = Reaches(request.graph, set, f)
      OBVIOUS
    <3>1. f \in request.graph.functions
      BY <2>1
    <3>2. All(f) = Downstream(f)
      BY DEF Downstream
    <3>3. Within(request.graph, Downstream(f), Cardinality(request.graph.functions))
             = WalkFrom(request.graph, f)
      BY <2>1, <3>1, WithinFollowsWalk
    <3>4. Reaches(request.graph, set, f) = (WalkFrom(request.graph, f) \cap set) \ {f}
      BY <2>1, <3>1, ReachesFollowsWalk
    <3> QED
      BY <3>2, <3>3, <3>4
  <2> HIDE DEF Reached, r
  <2>4. \A f, g : Both(f, g) <=> Mutual(r, f, g)
    BY <2>3 DEF Mutual
  <2>5. \A f : Position(f) = Place(order, f)
    BY DEF Place
  <2>6. /\ Len(order) = Cardinality(set)
        /\ {order[i].id : i \in DOMAIN order} = set
        /\ \A f, g \in set :
             /\ g \in Reached[f] /\ ~Both(f, g) => Position(f) < Position(g)
             /\ Both(f, g) =>
                  /\ order[Position(f)].leaves = order[Position(g)].leaves
                  /\ \A i \in Position(f)..Position(g) : Both(f, order[i].id)
    <3> HIDE DEF Both, Position, set, order
    <3> QED
      BY <2>2, <2>3, <2>4, <2>5 DEF ReviewedRight
  <2>7. \A f \in set : order[Position(f)].leaves = Cardinality(LastBelow(f))
    <3> SUFFICES ASSUME NEW f \in set PROVE order[Position(f)].leaves = Cardinality(LastBelow(f))
      OBVIOUS
    <3>1. LastBelow(f) = {g \in r[f] : (\A h \in r[g] : Mutual(r, g, h)) /\ ~Mutual(r, f, g)}
      <4> HIDE DEF Both
      <4> QED
        BY <2>3, <2>4
    <3> HIDE DEF LastBelow, Position, set, order
    <3> QED
      BY <2>2, <2>5, <3>1 DEF ReviewedRight
  <2> QED
    BY <2>6, <2>7 DEF CallersReviewedFirst, Reached
<1>2. ASSUME ~Answered("review") PROVE CallersReviewedFirst
  BY <1>2 DEF CallersReviewedFirst
<1>3. RequestInv => CallersReviewedFirst
  BY <1>1, <1>2
<1> QED
  BY <1>3, RequestInvAlways, PTL
=============================================================================
