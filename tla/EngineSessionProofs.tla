------------------------ MODULE EngineSessionProofs ------------------------
(***************************************************************************)
(* Theorems about EngineSession, for any workspaces, views, analyses and   *)
(* request slots: who owns what, what follows the close of a session, that *)
(* an acknowledged cancel is final, and that a view retains exactly its    *)
(* last two publications.                                                  *)
(***************************************************************************)
EXTENDS EngineSessionInvariant, SequenceTheorems, TLAPS

-----------------------------------------------------------------------------
(* Type correctness.                                                       *)

\* Retaining the last snapshots of a sequence gives a sequence of the same elements.
LEMMA RetainProperties ==
    ASSUME NEW S, NEW s \in Seq(S)
    PROVE  /\ Retain(s) \in Seq(S)
           /\ Len(Retain(s)) = IF Len(s) > 2 THEN 2 ELSE Len(s)
           /\ \A i \in 1..Len(Retain(s)) : Retain(s)[i] = s[Len(s) - Len(Retain(s)) + i]
<1> DEFINE n == Len(s)
<1>1. n \in Nat /\ \A i \in 1..n : s[i] \in S
  BY LenProperties, ElementOfSeq
<1>2. CASE n > 2
  <2>1. Retain(s) = SubSeq(s, n - 1, n)
    BY <1>1, <1>2 DEF Retain, RetainedSnapshotsPerView
  <2>2. \A i \in (n - 1)..n : s[i] \in S
    BY <1>1, <1>2
  <2>3. /\ SubSeq(s, n - 1, n) \in Seq(S)
        /\ Len(SubSeq(s, n - 1, n)) = 2
        /\ \A i \in 1..2 : SubSeq(s, n - 1, n)[i] = s[n - 1 + i - 1]
    <3>1. n - 1 \in Int /\ n \in Int /\ n - 1 <= n /\ n - (n - 1) + 1 = 2
      BY <1>1
    <3> HIDE DEF n
    <3>2. QED
      BY <3>1, <2>2, SubSeqProperties
  <2>4. QED
    BY <1>1, <1>2, <2>1, <2>3
<1>3. CASE ~(n > 2)
  <2>1. Retain(s) = s
    BY <1>3 DEF Retain, RetainedSnapshotsPerView
  <2>2. QED
    BY <1>1, <1>3, <2>1
<1>4. QED
  BY <1>2, <1>3

\* An idle request slot is well typed.
LEMMA NoRequestTyped == NoRequest \in HandlerStates
BY DEF NoRequest, HandlerStates, Replies

\* The initial state is well typed.
LEMMA InitTypeInv == Init => TypeInv
<1> SUFFICES ASSUME Init PROVE TypeInv
  OBVIOUS
<1>1. TypeOK
  <2>1. <<>> \in Seq(Analyses) /\ <<>> \in Seq(WireEntries)
    BY EmptySeq
  <2>2. QED
    BY <2>1, NoRequestTyped DEF Init, TypeOK, Stages
<1>2. RequestsWellFormed
  BY DEF Init, RequestsWellFormed, NoRequest
<1>3. QED
  BY <1>1, <1>2 DEF TypeInv

\* Answering a request keeps the handlers well formed; a start is accepted otherwise.
LEMMA AnswerWellFormed ==
    ASSUME TypeInv, NEW r \in Requests, NEW reply \in Replies \ {"started"},
           reply = "cancelRequested" => request[r].op = "cancel",
           Answer(r, reply)
    PROVE  request' \in [Requests -> HandlerStates] /\ RequestsWellFormed'
<1>1. request \in [Requests -> HandlerStates] /\ RequestsWellFormed
  BY DEF TypeInv, TypeOK
<1>2. request' = [request EXCEPT ![r] = [request[r] EXCEPT !.stage = "answered", !.reply = reply]]
  BY <1>1 DEF Answer, HandlerStates
<1>3. [request[r] EXCEPT !.stage = "answered", !.reply = reply] \in HandlerStates
  BY <1>1 DEF HandlerStates
<1>4. request' \in [Requests -> HandlerStates]
  BY <1>1, <1>2, <1>3
<1>5. RequestsWellFormed'
  BY <1>1, <1>2 DEF RequestsWellFormed, HandlerStates
<1>6. QED
  BY <1>4, <1>5

\* Writing a message about an issued analysis keeps the wire well typed.
LEMMA WriteTyped ==
    ASSUME TypeInv, NEW a \in Analyses, NEW kind \in {"started", "progress"} \cup Decisions,
           Write(a, kind)
    PROVE  wire' \in [Views -> Seq(WireEntries)]
<1>1. wire \in [Views -> Seq(WireEntries)]
  BY DEF TypeInv, TypeOK
<1>2. Entry(a, kind) \in WireEntries
  BY DEF Entry, WireEntries
<1>3. CASE viewOf[a] \in Views
  <2>1. Append(wire[viewOf[a]], Entry(a, kind)) \in Seq(WireEntries)
    BY <1>1, <1>2, <1>3, AppendProperties
  <2>2. QED
    BY <1>1, <1>3, <2>1 DEF Write
<1>4. CASE viewOf[a] \notin Views
  BY <1>1, <1>4 DEF Write
<1>5. QED
  BY <1>3, <1>4

\* Closing workspaces keeps the registry well typed.
LEMMA CloseTyped ==
    ASSUME TypeInv, NEW W \in SUBSET Workspaces, CloseWorkspacesLocked(W)
    PROVE  /\ workspace' \in [Workspaces -> {"unopened", "open", "closed"}]
           /\ cancelled' \in [Analyses -> BOOLEAN]
           /\ snapshots' \in [Views -> Seq(Analyses)]
<1>1. /\ workspace \in [Workspaces -> {"unopened", "open", "closed"}]
      /\ cancelled \in [Analyses -> BOOLEAN]
      /\ snapshots \in [Views -> Seq(Analyses)]
  BY DEF TypeInv, TypeOK
<1>2. <<>> \in Seq(Analyses)
  BY EmptySeq
<1>3. QED
  BY <1>1, <1>2 DEF CloseWorkspacesLocked

\* The read loop: every step of Serve itself keeps TypeInv.
LEMMA LoopTypeInv ==
    ASSUME TypeInv,
           \/ Initialize \/ BeginShutdown \/ FinishShutdown \/ CancelContext
           \/ Exit \/ FramingError \/ ContextDone \/ Stop
           \/ \E r \in Requests : \E q \in ClientRequests : Dispatch(r, q)
    PROVE  TypeInv'
<1> USE DEF TypeInv
<1>1. CASE Initialize
  BY <1>1 DEF Initialize, TypeOK, RequestsWellFormed,
              viewVars, analysisVars, outputVars
<1>2. CASE BeginShutdown
  <2>1. TypeOK'
    BY <1>2 DEF BeginShutdown, TypeOK, Live, Issued, Terminal, viewVars, outputVars
  <2>2. QED
    BY <1>2, <2>1 DEF BeginShutdown, RequestsWellFormed
<1>3. CASE FinishShutdown
  <2>1. TypeOK'
    <3>1. {w \in Workspaces : workspace[w] = "open"} \in SUBSET Workspaces
      OBVIOUS
    <3>2. QED
      BY <1>3, <3>1, CloseTyped DEF FinishShutdown, TypeOK, outputVars
  <2>2. QED
    BY <1>3, <2>1 DEF FinishShutdown, RequestsWellFormed
<1>4. CASE CancelContext
  BY <1>4 DEF CancelContext, TypeOK, RequestsWellFormed,
              viewVars, analysisVars, outputVars
<1>5. CASE Exit \/ FramingError \/ ContextDone
  BY <1>5 DEF Exit, FramingError, ContextDone, LeaveLoop, TypeOK, RequestsWellFormed,
              viewVars, analysisVars, outputVars
<1>6. CASE Stop
  BY <1>6 DEF Stop, TypeOK, RequestsWellFormed,
              viewVars, analysisVars, outputVars
<1>7. ASSUME NEW r \in Requests, NEW q \in ClientRequests, Dispatch(r, q)
      PROVE  TypeInv'
  <2>1. /\ q \in HandlerStates
        /\ q.stage = "accepted" /\ q.reply = "none"
        /\ q.op = "close" => q.on \in Workspaces
        /\ q.op \in {"start", "query", "summary"} => q.on \in Views
        /\ q.op \in {"cancel", "query", "summary"} => q.analysis \in Analyses
    BY DEF ClientRequests, Message, HandlerStates, OperationKinds, Replies
  <2>2. request' = [request EXCEPT ![r] = q]
    BY <1>7 DEF Dispatch
  <2>3. TypeOK'
    BY <1>7, <2>1, <2>2 DEF Dispatch, TypeOK, serveVars, viewVars, analysisVars, outputVars
  <2>4. RequestsWellFormed'
    BY <2>1, <2>2 DEF RequestsWellFormed, TypeOK
  <2>5. QED
    BY <2>3, <2>4
<1>8. QED
  BY <1>1, <1>2, <1>3, <1>4, <1>5, <1>6, <1>7

\* The request handlers keep TypeInv.
LEMMA HandlerTypeInv ==
    ASSUME TypeInv, NEW r \in Requests, Handler(r) \/ SummarizerReturns(r)
    PROVE  TypeInv'
<1> USE DEF TypeInv
<1>0. /\ request[r] \in HandlerStates
      /\ "started" \in Replies
  BY DEF TypeOK, Replies
<1>1. CASE OpenWorkspace(r)
  <2>1. \E reply \in {"invalidParams", "opened"} : Answer(r, reply)
    BY <1>1 DEF OpenWorkspace
  <2>2. request' \in [Requests -> HandlerStates] /\ RequestsWellFormed'
    BY <2>1, AnswerWellFormed DEF Replies
  <2>3. workspace' \in [Workspaces -> {"unopened", "open", "closed"}]
    BY <1>1 DEF OpenWorkspace, TypeOK
  <2>4. QED
    BY <1>1, <2>2, <2>3 DEF OpenWorkspace, TypeOK,
                            serveVars, viewVars, analysisVars, outputVars
<1>2. CASE CloseWorkspace(r)
  <2>1. \E reply \in {"workspaceNotFound", "closed"} : Answer(r, reply)
    BY <1>2 DEF CloseWorkspace
  <2>2. request' \in [Requests -> HandlerStates] /\ RequestsWellFormed'
    BY <2>1, AnswerWellFormed DEF Replies
  <2>3. {request[r].on} \in SUBSET Workspaces
    BY <1>2 DEF CloseWorkspace, Handling, RequestsWellFormed
  <2>4. /\ workspace' \in [Workspaces -> {"unopened", "open", "closed"}]
        /\ cancelled' \in [Analyses -> BOOLEAN]
        /\ snapshots' \in [Views -> Seq(Analyses)]
    BY <1>2, <2>3, CloseTyped DEF CloseWorkspace, TypeOK
  <2>5. QED
    BY <1>2, <2>2, <2>4 DEF CloseWorkspace, TypeOK, serveVars, outputVars
<1>3. CASE StartAnalysis(r)
  <2> DEFINE v == request[r].on
  <2>1. v \in Views
    BY <1>3 DEF StartAnalysis, Handling, RequestsWellFormed
  <2>2. ASSUME NEW reply \in Replies, RejectStart(r, v, reply)
        PROVE  TypeInv'
    <3>1. reply # "started" /\ reply # "cancelRequested" /\ Answer(r, reply)
      BY <2>2 DEF RejectStart
    <3>2. request' \in [Requests -> HandlerStates] /\ RequestsWellFormed'
      BY <3>1, AnswerWellFormed
    <3>3. QED
      BY <1>3, <2>2, <3>2 DEF StartAnalysis, RejectStart, TypeOK,
                              serveVars, outputVars
  <2>3. ASSUME NEW a \in Analyses, AcceptStart(r, v, a)
        PROVE  TypeInv'
    <3>1. TypeOK'
      <4>1. request' \in [Requests -> HandlerStates]
        BY <2>3, <1>0 DEF AcceptStart, TypeOK, HandlerStates
      <4>2. /\ active' \in [Views -> Analyses \cup {None}]
            /\ stage' \in [Analyses -> Stages]
            /\ viewOf' \in [Analyses -> Views \cup {None}]
        BY <2>1, <2>3 DEF AcceptStart, TypeOK, Stages
      <4>3. QED
        BY <1>3, <4>1, <4>2 DEF StartAnalysis, TypeOK, serveVars, outputVars
    <3>2. RequestsWellFormed'
      BY <2>3 DEF AcceptStart, RequestsWellFormed, TypeOK, HandlerStates
    <3>3. QED
      BY <3>1, <3>2
  <2>4. QED
    BY <1>3, <2>2, <2>3 DEF StartAnalysis
<1>4. CASE CancelAnalysis(r)
  <2>1. \E reply \in {"analysisNotFound", "alreadyTerminal", "cancelRequested"} : Answer(r, reply)
    BY <1>4 DEF CancelAnalysis
  <2>2. request' \in [Requests -> HandlerStates] /\ RequestsWellFormed'
    BY <1>4, <2>1, AnswerWellFormed DEF Replies, CancelAnalysis, Handling
  <2>3. cancelled' \in [Analyses -> BOOLEAN]
    BY <1>4 DEF CancelAnalysis, TypeOK
  <2>4. QED
    BY <1>4, <2>2, <2>3 DEF CancelAnalysis, TypeOK,
                            serveVars, viewVars, outputVars
<1>5. CASE Query(r)
  <2>1. Answer(r, Resolve(request[r].on, request[r].analysis))
    BY <1>5 DEF Query
  <2>2. request' \in [Requests -> HandlerStates] /\ RequestsWellFormed'
    BY <2>1, AnswerWellFormed DEF Replies, Resolve
  <2>3. QED
    BY <1>5, <2>2 DEF Query, TypeOK,
                      serveVars, viewVars, analysisVars, outputVars
<1>6. CASE Summary(r)
  <2> DEFINE reply == Resolve(request[r].on, request[r].analysis)
  <2>1. request' \in [Requests -> HandlerStates] /\ RequestsWellFormed'
    <3>1. CASE Answer(r, reply)
      BY <3>1, AnswerWellFormed DEF Replies, Resolve
    <3>2. CASE request' = [request EXCEPT ![r].stage = "summarizing"]
      <4>1. request' = [request EXCEPT ![r] = [request[r] EXCEPT !.stage = "summarizing"]]
        BY <3>2, <1>0 DEF TypeOK, HandlerStates
      <4>2. [request[r] EXCEPT !.stage = "summarizing"] \in HandlerStates
        BY <1>0 DEF HandlerStates
      <4>3. request' \in [Requests -> HandlerStates]
        BY <4>1, <4>2 DEF TypeOK
      <4>4. /\ request'[r].op = request[r].op /\ request'[r].on = request[r].on
            /\ request'[r].analysis = request[r].analysis /\ request'[r].reply = request[r].reply
            /\ request'[r].stage = "summarizing"
            /\ \A q \in Requests : q # r => request'[q] = request[q]
        BY <4>1, <1>0 DEF TypeOK, HandlerStates
      <4>5. RequestsWellFormed'
        BY <4>4 DEF RequestsWellFormed
      <4>6. QED
        BY <4>3, <4>5
    <3>3. QED
      BY <1>6, <3>1, <3>2 DEF Summary
  <2>2. QED
    BY <1>6, <2>1 DEF Summary, TypeOK,
                      serveVars, viewVars, analysisVars, outputVars
<1>7. CASE SummarizerReturns(r)
  <2>1. \E reply \in {"served", "internalError"} : Answer(r, reply)
    BY <1>7 DEF SummarizerReturns
  <2>2. request' \in [Requests -> HandlerStates] /\ RequestsWellFormed'
    BY <2>1, AnswerWellFormed DEF Replies
  <2>3. QED
    BY <1>7, <2>2 DEF SummarizerReturns, TypeOK,
                      serveVars, viewVars, analysisVars, outputVars
<1>8. CASE Respond(r)
  <2> DEFINE a == request[r].analysis
  <2>1. request[r].reply \in {"started", "cancelRequested"} => a \in Analyses
    BY DEF RequestsWellFormed
  <2>2. request' \in [Requests -> HandlerStates] /\ RequestsWellFormed'
    <3>1. CASE request[r].reply = "started"
      <4>1. request' = [request EXCEPT ![r] = [request[r] EXCEPT !.stage = "launching"]]
        BY <1>8, <3>1, <1>0 DEF Respond, TypeOK, HandlerStates
      <4>2. [request[r] EXCEPT !.stage = "launching"] \in HandlerStates
        BY <1>0 DEF HandlerStates
      <4>3. request' \in [Requests -> HandlerStates]
        BY <4>1, <4>2 DEF TypeOK
      <4>4. /\ request'[r].stage = "launching" /\ request'[r].reply = request[r].reply
            /\ request'[r].op = request[r].op /\ request'[r].on = request[r].on
            /\ request'[r].analysis = request[r].analysis
            /\ \A q \in Requests \ {r} : request'[q] = request[q]
        BY <4>1, <1>0 DEF TypeOK, HandlerStates
      <4>5. RequestsWellFormed'
        BY <1>0, <2>1, <3>1, <4>4 DEF RequestsWellFormed
      <4>6. QED
        BY <4>3, <4>5
    <3>2. CASE request[r].reply # "started"
      <4>1. request' = [request EXCEPT ![r] = NoRequest]
        BY <1>8, <3>2 DEF Respond
      <4>2. QED
        BY <4>1, NoRequestTyped DEF TypeOK, RequestsWellFormed, NoRequest
    <3>3. QED
      BY <3>1, <3>2
  <2>3. wire' \in [Views -> Seq(WireEntries)]
    BY <1>8, <2>1, WriteTyped DEF Respond, TypeOK
  <2>4. acked' \subseteq Analyses
    BY <1>8, <2>1 DEF Respond, TypeOK
  <2>5. QED
    BY <1>8, <2>2, <2>3, <2>4 DEF Respond, TypeOK,
                                  serveVars, viewVars, analysisVars
<1>9. CASE Launch(r)
  <2> DEFINE a == request[r].analysis
  <2>1. a \in Analyses
    BY <1>9 DEF Launch, RequestsWellFormed
  <2>2. request' \in [Requests -> HandlerStates] /\ RequestsWellFormed'
    <3>1. request' = [request EXCEPT ![r] = NoRequest]
      BY <1>9 DEF Launch
    <3>2. QED
      BY <3>1, NoRequestTyped DEF TypeOK, RequestsWellFormed, NoRequest
  <2>3. stage' \in [Analyses -> Stages]
    BY <1>9 DEF Launch, TypeOK, Stages
  <2>4. TypeOK'
    BY <1>9, <2>2, <2>3 DEF Launch, TypeOK, serveVars, viewVars, outputVars
  <2>5. QED
    BY <1>9, <2>2, <2>4 DEF Launch, TypeOK
<1>10. QED
  BY <1>1, <1>2, <1>3, <1>4, <1>5, <1>6, <1>7, <1>8, <1>9 DEF Handler

\* What Decision returns, and Write needs, is a decision.
LEMMA DecisionIsDecision == \A a \in Analyses : Decision(a) \in Decisions
BY DEF Decision, Decisions

\* The analyses keep TypeInv.  Only an issued one has a view to write about.
LEMMA AnalysisTypeInv ==
    ASSUME TypeInv, IssuedHaveViews, CommitDecides, NEW a \in Analyses, Analysis(a)
    PROVE  TypeInv'
<1> USE DEF TypeInv
<1>0. TypeOK /\ RequestsWellFormed
  OBVIOUS
<1>1. CASE Announce(a)
  <2>1. stage' \in [Analyses -> Stages] /\ emit' \in [Views -> Analyses \cup {None}]
    <3>1. stage \in [Analyses -> Stages] /\ emit \in [Views -> Analyses \cup {None}]
      BY <1>0 DEF TypeOK
    <3>2. "analyzing" \in Stages /\ "announcing" \in Stages
      BY DEF Stages
    <3>3. CASE closed
      BY <1>1, <3>1, <3>2, <3>3 DEF Announce
    <3>4. CASE ~closed
      <4>1. /\ stage' = [stage EXCEPT ![a] = "announcing"]
            /\ emit' = [emit EXCEPT ![viewOf[a]] = a]
        BY <1>1, <3>4 DEF Announce
      <4>2. QED
        BY <3>1, <3>2, <4>1
    <3>5. QED
      BY <3>3, <3>4
  <2>2. TypeOK'
    BY <1>0, <1>1, <2>1 DEF Announce, TypeOK, serveVars, viewVars, outputVars
  <2>3. RequestsWellFormed'
    BY <1>0, <1>1 DEF Announce, RequestsWellFormed
  <2>4. QED
    BY <2>2, <2>3
<1>2. CASE WriteProgress(a)
  <2>1. wire' \in [Views -> Seq(WireEntries)]
    BY <1>2, WriteTyped DEF WriteProgress
  <2>2. stage' \in [Analyses -> Stages] /\ emit' \in [Views -> Analyses \cup {None}]
    <3>1. stage' \in [Analyses -> Stages]
      BY <1>0, <1>2 DEF WriteProgress, TypeOK, Stages
    <3>2. emit' \in [Views -> Analyses \cup {None}]
      BY <1>0, <1>2 DEF WriteProgress, TypeOK
    <3>3. QED
      BY <3>1, <3>2
  <2>3. TypeOK'
    BY <1>0, <1>2, <2>1, <2>2 DEF WriteProgress, TypeOK, serveVars, viewVars
  <2>4. RequestsWellFormed'
    BY <1>0, <1>2 DEF WriteProgress, RequestsWellFormed
  <2>5. QED
    BY <2>3, <2>4
<1>3. CASE AnalyzeReturns(a)
  <2>1. TypeOK'
    BY <1>0, <1>3 DEF AnalyzeReturns, TypeOK, Stages, serveVars, viewVars, outputVars
  <2>2. RequestsWellFormed'
    BY <1>0, <1>3 DEF AnalyzeReturns, RequestsWellFormed
  <2>3. QED
    BY <2>1, <2>2
<1>4. CASE Commit(a)
  <2> DEFINE v == viewOf[a]
             decision == Decision(a)
  <2>1. decision \in Decisions
    BY DecisionIsDecision
  <2>2. /\ emit' \in [Views -> Analyses \cup {None}]
        /\ stage' \in [Analyses -> Stages]
        /\ active' \in [Views -> Analyses \cup {None}]
        /\ outcome' \in [Analyses -> {"none", "index", "loadError", "internalError"} \cup Decisions]
    BY <1>4, <2>1 DEF Commit, TypeOK, Stages
  <2>3. /\ failure' \in [Views -> {"none", "loadFailed", "internal"}]
        /\ revision' \in [Views -> Nat]
        /\ revisionOf' \in [Analyses -> Nat]
        /\ snapshots' \in [Views -> Seq(Analyses)]
    <3>1. CASE Publish(v, a)
      <4>1. v \in Views
        BY <1>4 DEF Commit, IssuedHaveViews, Issued
      <4>2. Retain(Append(snapshots[v], a)) \in Seq(Analyses)
        <5>1. snapshots[v] \in Seq(Analyses)
          BY <1>0, <4>1 DEF TypeOK
        <5> HIDE DEF v
        <5>2. Append(snapshots[v], a) \in Seq(Analyses)
          BY <5>1, AppendProperties
        <5>3. QED
          BY <5>2, RetainProperties
      <4>3. snapshots' \in [Views -> Seq(Analyses)]
        <5> DEFINE kept == Retain(Append(snapshots[v], a))
        <5>1. snapshots' = [snapshots EXCEPT ![v] = kept]
          BY <3>1 DEF Publish
        <5>2. snapshots \in [Views -> Seq(Analyses)] /\ kept \in Seq(Analyses)
          BY <1>0, <4>2 DEF TypeOK
        <5> HIDE DEF kept
        <5>3. QED
          BY <4>1, <5>1, <5>2
      <4>4. /\ failure' \in [Views -> {"none", "loadFailed", "internal"}]
            /\ revision' \in [Views -> Nat] /\ revisionOf' \in [Analyses -> Nat]
        <5>1. failure' \in [Views -> {"none", "loadFailed", "internal"}]
          BY <3>1, <4>1 DEF Publish, TypeOK
        <5>2. revision[v] + 1 \in Nat
          BY <4>1 DEF TypeOK
        <5>3. revision' \in [Views -> Nat]
          BY <3>1, <4>1, <5>2 DEF Publish, TypeOK
        <5>4. revisionOf' \in [Analyses -> Nat]
          BY <3>1, <5>2 DEF Publish, TypeOK
        <5>5. QED
          BY <5>1, <5>3, <5>4
      <4>5. QED
        BY <4>3, <4>4
    <3>2. CASE RecordFailure(v, decision) /\ decision # "published"
      BY <3>2, <2>1 DEF RecordFailure, TypeOK, Decisions
    <3>3. QED
      BY <1>4, <3>1, <3>2 DEF Commit
  <2>4. TypeOK'
    BY <1>0, <1>4, <2>2, <2>3 DEF Commit, TypeOK, serveVars, outputVars
  <2>5. RequestsWellFormed'
    BY <1>0, <1>4 DEF Commit, RequestsWellFormed
  <2>6. QED
    BY <2>4, <2>5
<1>5. CASE Report(a)
  <2>1. /\ stage' \in [Analyses -> Stages] /\ emit' \in [Views -> Analyses \cup {None}]
        /\ cancelled' \in [Analyses -> BOOLEAN]
    BY <1>0, <1>5 DEF Report, Finish, TypeOK, Stages
  <2>2. TypeOK'
    BY <1>0, <1>5, <2>1 DEF Report, Finish, TypeOK, serveVars, viewVars, outputVars
  <2>3. RequestsWellFormed'
    BY <1>0, <1>5 DEF Report, Finish, RequestsWellFormed
  <2>4. QED
    BY <2>2, <2>3
<1>6. CASE WriteOutcome(a)
  <2>1. outcome[a] \in Decisions
    BY <1>6 DEF WriteOutcome, CommitDecides, Terminal
  <2>2. wire' \in [Views -> Seq(WireEntries)]
    BY <1>6, <2>1, WriteTyped DEF WriteOutcome
  <2>3. /\ stage' \in [Analyses -> Stages] /\ emit' \in [Views -> Analyses \cup {None}]
        /\ cancelled' \in [Analyses -> BOOLEAN]
    BY <1>0, <1>6 DEF WriteOutcome, Finish, TypeOK, Stages
  <2>4. TypeOK'
    BY <1>0, <1>6, <2>2, <2>3 DEF WriteOutcome, Finish, TypeOK, serveVars, viewVars
  <2>5. RequestsWellFormed'
    BY <1>0, <1>6 DEF WriteOutcome, Finish, RequestsWellFormed
  <2>6. QED
    BY <2>4, <2>5
<1>7. QED
  BY <1>1, <1>2, <1>3, <1>4, <1>5, <1>6 DEF Analysis

-----------------------------------------------------------------------------
(* Ownership of views, of the emit order and of pending launches.          *)

\* A new session satisfies Ownership: nothing was issued.
LEMMA InitOwnership == Init => Ownership
<1> SUFFICES ASSUME Init PROVE Ownership
  OBVIOUS
<1>1. None \notin Views /\ None \notin Analyses
  BY SessionAssumption
<1>2. \A a \in Analyses : ~Issued(a) /\ ~Terminal(a) /\ ~Live(a)
  BY DEF Init, Issued, Terminal, Live
<1>3. IssuedHaveViews /\ CommitDecides /\ ActiveIsLive /\ OneAnalysisPerView
  BY <1>1, <1>2 DEF Init, IssuedHaveViews, CommitDecides, ActiveIsLive,
                    OneAnalysisPerView, Decisions
<1>4. StartsPending
  BY DEF Init, StartsPending, NoRequest
<1>5. QED
  BY <1>3, <1>4 DEF Ownership

\* A step that touches none of the analyses, and accepts no start, keeps Ownership.
LEMMA OwnershipFrame ==
    ASSUME Ownership, UNCHANGED <<active, stage, viewOf, outcome>>,
           \A r \in Requests : request'[r].reply = "started" =>
               request[r].reply = "started" /\ request'[r].analysis = request[r].analysis
    PROVE  Ownership'
<1>1. /\ IssuedHaveViews' /\ CommitDecides' /\ ActiveIsLive' /\ OneAnalysisPerView'
  BY DEF Ownership, IssuedHaveViews, CommitDecides, ActiveIsLive, OneAnalysisPerView,
         Issued, Live, Terminal
<1>2. StartsPending'
  BY DEF Ownership, StartsPending
<1>3. QED
  BY <1>1, <1>2 DEF Ownership

\* What a request that was answered, idle or dispatched says about starts.
LEMMA AnswersStartNothing ==
    ASSUME TypeInv, NEW r \in Requests,
           \/ \E reply \in Replies \ {"started"} : Answer(r, reply)
           \/ request' = [request EXCEPT ![r] = NoRequest]
           \/ \E q \in ClientRequests : request' = [request EXCEPT ![r] = q]
           \/ request' = [request EXCEPT ![r].stage = "summarizing"]
           \/ request' = [request EXCEPT ![r].stage = "launching"]
    PROVE  \A s \in Requests : request'[s].reply = "started" =>
               request[s].reply = "started" /\ request'[s].analysis = request[s].analysis
<1>1. request \in [Requests -> HandlerStates]
  BY DEF TypeInv, TypeOK
<1>2. \A q \in ClientRequests : q.reply = "none"
  BY DEF ClientRequests, Message
<1>3. NoRequest.reply = "none"
  BY DEF NoRequest
<1>4. QED
  BY <1>1, <1>2, <1>3 DEF Answer, HandlerStates

\* The read loop keeps Ownership.
LEMMA LoopOwnership ==
    ASSUME TypeInv, Ownership,
           \/ Initialize \/ BeginShutdown \/ FinishShutdown \/ CancelContext
           \/ Exit \/ FramingError \/ ContextDone \/ Stop
           \/ \E r \in Requests : \E q \in ClientRequests : Dispatch(r, q)
    PROVE  Ownership'
<1>1. UNCHANGED <<active, stage, viewOf, outcome>>
  BY DEF Initialize, BeginShutdown, FinishShutdown, CancelContext, Exit, FramingError,
         ContextDone, LeaveLoop, Stop, Dispatch, viewVars, analysisVars
<1>2. \A s \in Requests : request'[s].reply = "started" =>
          request[s].reply = "started" /\ request'[s].analysis = request[s].analysis
  <2>1. ASSUME NEW r \in Requests, NEW q \in ClientRequests, Dispatch(r, q)
        PROVE  request' = [request EXCEPT ![r] = q]
    BY <2>1 DEF Dispatch
  <2>2. \/ request' = request
        \/ \E r \in Requests : \E q \in ClientRequests : request' = [request EXCEPT ![r] = q]
    BY <2>1 DEF Initialize, BeginShutdown, FinishShutdown, CancelContext, Exit, FramingError,
         ContextDone, LeaveLoop, Stop
  <2>3. QED
    BY <2>2, AnswersStartNothing
<1>3. QED
  BY <1>1, <1>2, OwnershipFrame

\* The request handlers keep Ownership; only start and the launch touch it.
LEMMA HandlerOwnership ==
    ASSUME TypeInv, Ownership, NEW r \in Requests, Handler(r) \/ SummarizerReturns(r)
    PROVE  Ownership'
<1> DEFINE Quiet == \A s \in Requests : request'[s].reply = "started" =>
                        request[s].reply = "started" /\ request'[s].analysis = request[s].analysis
<1>0. request \in [Requests -> HandlerStates]
  BY DEF TypeInv, TypeOK
<1>1. CASE OpenWorkspace(r) \/ CloseWorkspace(r) \/ CancelAnalysis(r) \/ SummarizerReturns(r)
  <2>1. \E reply \in Replies \ {"started"} : Answer(r, reply)
    BY <1>1 DEF OpenWorkspace, CloseWorkspace, CancelAnalysis, SummarizerReturns, Replies
  <2>2. UNCHANGED <<active, stage, viewOf, outcome>>
    BY <1>1 DEF OpenWorkspace, CloseWorkspace, CancelAnalysis, SummarizerReturns,
                viewVars, analysisVars
  <2>3. QED
    BY <2>1, <2>2, AnswersStartNothing, OwnershipFrame
<1>2. CASE Query(r) \/ Summary(r)
  <2>1. Resolve(request[r].on, request[r].analysis) \in Replies \ {"started"}
    BY DEF Resolve, Replies
  <2>2. \/ \E reply \in Replies \ {"started"} : Answer(r, reply)
        \/ request' = [request EXCEPT ![r].stage = "summarizing"]
    BY <1>2, <2>1 DEF Query, Summary
  <2>3. UNCHANGED <<active, stage, viewOf, outcome>>
    BY <1>2 DEF Query, Summary, viewVars, analysisVars
  <2>4. QED
    BY <2>2, <2>3, AnswersStartNothing, OwnershipFrame
<1>3. CASE StartAnalysis(r)
  <2> DEFINE v == request[r].on
  <2>0. v \in Views /\ outcome' = outcome
    BY <1>3 DEF StartAnalysis, Handling, TypeInv, RequestsWellFormed
  <2>1. CASE \E reply \in Replies : RejectStart(r, v, reply)
    <3>1. /\ \E reply \in Replies \ {"started"} : Answer(r, reply)
          /\ UNCHANGED <<active, stage, viewOf>>
      BY <2>1 DEF RejectStart
    <3>2. QED
      BY <2>0, <3>1, AnswersStartNothing, OwnershipFrame
  <2>2. ASSUME NEW a \in Analyses, AcceptStart(r, v, a)
        PROVE  Ownership'
    <3>0. /\ active \in [Views -> Analyses \cup {None}] /\ stage \in [Analyses -> Stages]
          /\ viewOf \in [Analyses -> Views \cup {None}]
          /\ active' = [active EXCEPT ![v] = a]
          /\ stage' = [stage EXCEPT ![a] = "registered"]
          /\ viewOf' = [viewOf EXCEPT ![a] = v]
          /\ stage[a] = "unissued" /\ active[v] = None
          /\ a # None
      BY <2>2, SessionAssumption DEF AcceptStart, TypeInv, TypeOK, Issued
    <3>1. \A s \in Requests : request[s].reply = "started" =>
              stage[request[s].analysis] = "registered" /\ request[s].analysis # a
      BY <3>0 DEF Ownership, StartsPending
    <3>2. \A s \in Requests :
              /\ s # r => request'[s] = request[s]
              /\ s = r => request'[s].reply = "started" /\ request'[s].analysis = a
      BY <1>0, <2>2 DEF AcceptStart, HandlerStates
    <3>3. IssuedHaveViews' /\ CommitDecides'
      BY <2>0, <3>0 DEF Ownership, IssuedHaveViews, CommitDecides, Issued, Terminal
    <3>4. ActiveIsLive'
      BY <2>0, <3>0 DEF Ownership, ActiveIsLive, Live, Issued, Terminal
    <3>5. OneAnalysisPerView'
      <4>1. \A b \in Analyses : b # a /\ Live(b) => viewOf[b] \in Views /\ viewOf[b] # v
        BY <2>0, <3>0, SessionAssumption
           DEF Ownership, OneAnalysisPerView, IssuedHaveViews, Live
      <4>2. QED
        BY <2>0, <3>0, <4>1 DEF Ownership, OneAnalysisPerView, Live, Issued, Terminal
    <3>6. StartsPending'
      <4>1. \A s \in Requests : request[s].reply = "started" => request[s].analysis \in Analyses
        BY DEF TypeInv, RequestsWellFormed
      <4>2. QED
        BY <3>0, <3>1, <3>2, <4>1 DEF Ownership, StartsPending
    <3>7. QED
      BY <3>3, <3>4, <3>5, <3>6 DEF Ownership
  <2>3. QED
    BY <1>3, <2>1, <2>2 DEF StartAnalysis
<1>4. CASE Respond(r)
  <2>1. \/ request' = [request EXCEPT ![r].stage = "launching"]
        \/ request' = [request EXCEPT ![r] = NoRequest]
    BY <1>4 DEF Respond
  <2>2. UNCHANGED <<active, stage, viewOf, outcome>>
    BY <1>4 DEF Respond, viewVars, analysisVars
  <2>3. QED
    BY <2>1, <2>2, AnswersStartNothing, OwnershipFrame
<1>5. CASE Launch(r)
  <2> DEFINE a == request[r].analysis
  <2>1. /\ a \in Analyses
        /\ request[r].reply = "started"
        /\ stage \in [Analyses -> Stages]
        /\ stage' = [stage EXCEPT ![a] = "launched"]
        /\ request' = [request EXCEPT ![r] = NoRequest]
        /\ UNCHANGED <<active, viewOf, outcome>>
    BY <1>5 DEF Launch, TypeInv, TypeOK, RequestsWellFormed, viewVars
  <2>2. stage[a] = "registered"
    BY <2>1 DEF Ownership, StartsPending
  <2>3. \A b \in Analyses : /\ Issued(b)' = Issued(b)
                            /\ Terminal(b)' = Terminal(b)
                            /\ Live(b)' = Live(b)
    BY <2>1, <2>2 DEF Issued, Terminal, Live
  <2>4. IssuedHaveViews' /\ CommitDecides' /\ OneAnalysisPerView'
    BY <2>1, <2>3 DEF Ownership, IssuedHaveViews, CommitDecides, OneAnalysisPerView
  <2>5. ActiveIsLive'
    BY <2>1, <2>3 DEF Ownership, ActiveIsLive, TypeInv, TypeOK
  <2>6. StartsPending'
    <3>1. \A s \in Requests : request[s].reply = "started" => request[s].analysis \in Analyses
      BY DEF TypeInv, RequestsWellFormed
    <3>2. \A s \in Requests : request'[s].reply = "started" =>
              s # r /\ request'[s] = request[s]
      BY <1>0, <2>1 DEF NoRequest
    <3>3. QED
      BY <2>1, <3>1, <3>2 DEF Ownership, StartsPending
  <2>7. QED
    BY <2>4, <2>5, <2>6 DEF Ownership
<1>6. QED
  BY <1>1, <1>2, <1>3, <1>4, <1>5 DEF Handler

\* The analyses keep Ownership: only commit ends one, and frees its view.
LEMMA AnalysisOwnership ==
    ASSUME TypeInv, Ownership, NEW a \in Analyses, Analysis(a)
    PROVE  Ownership'
<1>0. /\ stage \in [Analyses -> Stages]
      /\ active \in [Views -> Analyses \cup {None}]
      /\ outcome \in [Analyses -> {"none", "index", "loadError", "internalError"} \cup Decisions]
  BY DEF TypeInv, TypeOK
<1>p. \A s \in Requests : request[s].reply = "started" =>
          request[s].analysis \in Analyses /\ stage[request[s].analysis] = "registered"
  BY DEF TypeInv, RequestsWellFormed, Ownership, StartsPending
\* Every step of an analysis starts after its launch and leaves the handlers alone.
<1>q. ASSUME stage[a] # "registered", request' = request,
             \A b \in Analyses : b # a => stage'[b] = stage[b]
      PROVE  StartsPending'
  BY <1>p, <1>q DEF Ownership, StartsPending
<1>1. CASE Announce(a) \/ WriteProgress(a) \/ Report(a) \/ WriteOutcome(a) \/ AnalyzeReturns(a)
  <2>1. /\ UNCHANGED <<active, viewOf, request>>
        /\ stage[a] # "registered"
        /\ \A b \in Analyses : b # a => stage'[b] = stage[b] /\ outcome'[b] = outcome[b]
        /\ Issued(a) /\ Issued(a)'
        /\ Terminal(a)' = Terminal(a)
    BY <1>1, <1>0 DEF Announce, WriteProgress, Report, WriteOutcome, AnalyzeReturns, Finish,
                      Issued, Terminal, viewVars
  <2>2. Terminal(a) = (outcome'[a] \in Decisions)
    BY <1>1, <1>0 DEF Announce, WriteProgress, Report, WriteOutcome, AnalyzeReturns, Terminal,
                      Decisions, Ownership, CommitDecides
  <2>3. \A b \in Analyses : /\ Issued(b)' = Issued(b)
                            /\ Terminal(b)' = Terminal(b)
                            /\ Live(b)' = Live(b)
    BY <2>1 DEF Issued, Terminal, Live
  <2>4. IssuedHaveViews' /\ OneAnalysisPerView'
    BY <2>1, <2>3 DEF Ownership, IssuedHaveViews, OneAnalysisPerView
  <2>5. CommitDecides'
    BY <2>1, <2>2, <2>3 DEF Ownership, CommitDecides
  <2>6. ActiveIsLive'
    BY <2>1, <2>3, <1>0 DEF Ownership, ActiveIsLive
  <2>7. QED
    BY <1>q, <2>1, <2>4, <2>5, <2>6 DEF Ownership
<1>2. CASE Commit(a)
  <2> DEFINE v == viewOf[a]
  <2>1. /\ stage[a] = "analyzed"
        /\ stage' = [stage EXCEPT ![a] = "committed"]
        /\ active' = [active EXCEPT ![v] = None]
        /\ outcome' = [outcome EXCEPT ![a] = Decision(a)]
        /\ UNCHANGED <<viewOf, request>>
    BY <1>2 DEF Commit
  <2>2. /\ Live(a) /\ Issued(a)' /\ Terminal(a)' /\ ~Live(a)'
        /\ \A b \in Analyses : b # a => /\ Issued(b)' = Issued(b)
                                        /\ Terminal(b)' = Terminal(b)
                                        /\ Live(b)' = Live(b)
    BY <2>1, <1>0 DEF Issued, Terminal, Live
  <2>3. active[v] = a /\ v \in Views
    BY <2>2 DEF Ownership, OneAnalysisPerView, IssuedHaveViews, Live
  <2>4. IssuedHaveViews'
    BY <2>1, <2>2 DEF Ownership, IssuedHaveViews, Live
  <2>5. CommitDecides'
    BY <2>1, <2>2, <1>0, DecisionIsDecision DEF Ownership, CommitDecides
  <2>6. ActiveIsLive'
    BY <2>1, <2>2, <2>3, <1>0 DEF Ownership, ActiveIsLive
  <2>7. OneAnalysisPerView'
    <3>1. ASSUME NEW b \in Analyses, Live(b)' PROVE active'[viewOf'[b]] = b
      <4>1. b # a /\ Live(b)
        BY <2>2, <3>1
      <4>2. active[viewOf[b]] = b /\ viewOf[b] \in Views
        BY <4>1 DEF Ownership, OneAnalysisPerView, IssuedHaveViews, Live
      <4>3. viewOf[b] # v
        BY <4>1, <4>2, <2>3
      <4>4. QED
        BY <2>1, <4>2, <4>3, <1>0
    <3>2. QED
      BY <3>1 DEF OneAnalysisPerView
  <2>8. StartsPending'
    BY <1>q, <2>1, <1>0
  <2>9. QED
    BY <2>4, <2>5, <2>6, <2>7, <2>8 DEF Ownership
<1>3. QED
  BY <1>1, <1>2 DEF Analysis

-----------------------------------------------------------------------------
(* The first theorems: the invariant so far holds in every state.          *)

\* What Next is made of, as the lemmas above split it.
LoopStep ==
    \/ Initialize \/ BeginShutdown \/ FinishShutdown \/ CancelContext
    \/ Exit \/ FramingError \/ ContextDone \/ Stop
    \/ \E r \in Requests : \E q \in ClientRequests : Dispatch(r, q)

\* Every step is one of the loop, of a handler or of an analysis, or changes nothing.
LEMMA StepKinds ==
    ASSUME [Next]_vars
    PROVE  \/ LoopStep
           \/ \E r \in Requests : Handler(r) \/ SummarizerReturns(r)
           \/ \E a \in Analyses : Analysis(a)
           \/ UNCHANGED vars
BY DEF Next, LoopStep, Terminated

\* TypeInv and Ownership read no more than vars.
LEMMA StutterKeepsOwnership ==
    ASSUME TypeInv, Ownership, UNCHANGED vars
    PROVE  TypeInv' /\ Ownership'
<1> USE DEF vars, serveVars, viewVars, analysisVars, outputVars
<1>1. TypeInv'
  BY DEF TypeInv, TypeOK, RequestsWellFormed
<1>2. Ownership'
  BY OwnershipFrame
<1>3. QED
  BY <1>1, <1>2

\* Every state of a session is well typed and every analysis has its owner.
THEOREM OwnershipAlways == Spec => [](TypeInv /\ Ownership)
<1>1. Init => TypeInv /\ Ownership
  BY InitTypeInv, InitOwnership
<1>2. TypeInv /\ Ownership /\ [Next]_vars => (TypeInv /\ Ownership)'
  <2> SUFFICES ASSUME TypeInv, Ownership, [Next]_vars PROVE TypeInv' /\ Ownership'
    OBVIOUS
  <2>1. CASE LoopStep
    BY <2>1, LoopTypeInv, LoopOwnership DEF LoopStep
  <2>2. ASSUME NEW r \in Requests, Handler(r) \/ SummarizerReturns(r)
        PROVE  TypeInv' /\ Ownership'
    BY <2>2, HandlerTypeInv, HandlerOwnership
  <2>3. ASSUME NEW a \in Analyses, Analysis(a)
        PROVE  TypeInv' /\ Ownership'
    BY <2>3, AnalysisTypeInv, AnalysisOwnership DEF Ownership
  <2>4. CASE UNCHANGED vars
    BY <2>4, StutterKeepsOwnership
  <2>5. QED
    BY <2>1, <2>2, <2>3, <2>4, StepKinds
<1>3. QED
  BY <1>1, <1>2, PTL DEF Spec

\* Type correctness of the session.
THEOREM TypeCorrect == Spec => []TypeOK
<1>1. TypeInv /\ Ownership => TypeOK
  BY DEF TypeInv
<1>2. QED
  BY <1>1, OwnershipAlways, PTL

\* A language view has at most one analysis in progress (engine.go startAnalysis, commit).
THEOREM AtMostOneAnalysis == Spec => []OneAnalysisPerView
<1>1. TypeInv /\ Ownership => OneAnalysisPerView
  BY DEF Ownership
<1>2. QED
  BY <1>1, OwnershipAlways, PTL

-----------------------------------------------------------------------------
(* Closing: what still runs in a closed workspace has been cancelled.      *)

\* Workspaces stay as they are, nothing is issued and no cancellation is undone.
NothingOpened ==
    /\ workspace' = workspace
    /\ \A a \in Analyses :
          /\ Issued(a)' => Issued(a) /\ viewOf'[a] = viewOf[a]
          /\ Live(a)' => Live(a)
          /\ cancelled[a] => cancelled'[a]

\* Such a step keeps ClosedIsCancelled.
LEMMA ClosedFrame ==
    ASSUME ClosedIsCancelled, NothingOpened PROVE ClosedIsCancelled'
BY DEF ClosedIsCancelled, NothingOpened, ViewClosed, Live

\* So does closing a set of workspaces: the active analyses are the live ones.
LEMMA CloseKeepsClosed ==
    ASSUME TypeInv, Ownership, ClosedIsCancelled, NEW W \in SUBSET Workspaces,
           CloseWorkspacesLocked(W), UNCHANGED <<stage, viewOf>>
    PROVE  ClosedIsCancelled'
<1>1. ASSUME NEW a \in Analyses, Issued(a)
      PROVE  workspace'[WorkspaceOf[viewOf[a]]] # "unopened"
  <2>1. viewOf[a] \in Views /\ WorkspaceOf[viewOf[a]] \in Workspaces
    BY <1>1, SessionAssumption DEF Ownership, IssuedHaveViews
  <2>2. QED
    BY <1>1, <2>1 DEF CloseWorkspacesLocked, ClosedIsCancelled
<1>2. ASSUME NEW a \in Analyses, Live(a), workspace'[WorkspaceOf[viewOf[a]]] = "closed"
      PROVE  cancelled'[a]
  <2>1. viewOf[a] \in Views /\ WorkspaceOf[viewOf[a]] \in Workspaces /\ active[viewOf[a]] = a
    BY <1>2, SessionAssumption DEF Ownership, IssuedHaveViews, OneAnalysisPerView, Live
  <2>2. CASE WorkspaceOf[viewOf[a]] \in W
    BY <2>1, <2>2 DEF CloseWorkspacesLocked
  <2>3. CASE WorkspaceOf[viewOf[a]] \notin W
    BY <1>2, <2>1, <2>3 DEF CloseWorkspacesLocked, ClosedIsCancelled, ViewClosed
  <2>4. QED
    BY <2>2, <2>3
<1>3. QED
  BY <1>1, <1>2 DEF ClosedIsCancelled, ViewClosed, Issued, Live, Terminal

\* A new session satisfies it: nothing was issued.
LEMMA InitClosed == Init => ClosedIsCancelled
BY DEF Init, ClosedIsCancelled, Issued, Live

\* The read loop leaves no running analysis uncancelled in a closed workspace.
LEMMA LoopClosed ==
    ASSUME TypeInv, Ownership, ClosedIsCancelled, LoopStep
    PROVE  ClosedIsCancelled'
<1>1. CASE FinishShutdown
  <2>1. {w \in Workspaces : workspace[w] = "open"} \in SUBSET Workspaces
    OBVIOUS
  <2>2. QED
    BY <1>1, <2>1, CloseKeepsClosed DEF FinishShutdown
<1>2. CASE ~FinishShutdown
  <2>1. UNCHANGED <<workspace, stage, viewOf>>
    BY <1>2 DEF LoopStep, Initialize, BeginShutdown, CancelContext, Exit, FramingError,
                ContextDone, LeaveLoop, Stop, Dispatch, analysisVars
  <2>2. \A a \in Analyses : cancelled[a] => cancelled'[a]
    BY <1>2 DEF LoopStep, Initialize, BeginShutdown, CancelContext, Exit, FramingError,
                ContextDone, LeaveLoop, Stop, Dispatch, analysisVars
  <2>3. QED
    BY <2>1, <2>2, ClosedFrame DEF NothingOpened, Issued, Live, Terminal
<1>3. QED
  BY <1>1, <1>2

\* Handlers register analyses in open workspaces and cancel those they close.
LEMMA HandlerClosed ==
    ASSUME TypeInv, Ownership, ClosedIsCancelled, NEW r \in Requests,
           Handler(r) \/ SummarizerReturns(r)
    PROVE  ClosedIsCancelled'
<1>0. /\ stage \in [Analyses -> Stages]
      /\ viewOf \in [Analyses -> Views \cup {None}]
      /\ workspace \in [Workspaces -> {"unopened", "open", "closed"}]
      /\ cancelled \in [Analyses -> BOOLEAN]
  BY DEF TypeInv, TypeOK
<1>1. CASE OpenWorkspace(r)
  <2>1. UNCHANGED <<stage, viewOf, cancelled>>
    BY <1>1 DEF OpenWorkspace, analysisVars
  <2>2. \A w \in Workspaces : workspace'[w] # workspace[w] =>
            workspace[w] = "unopened" /\ workspace'[w] = "open"
    BY <1>1, <1>0 DEF OpenWorkspace
  <2>3. \A a \in Analyses : Issued(a) => WorkspaceOf[viewOf[a]] \in Workspaces
    BY SessionAssumption DEF Ownership, IssuedHaveViews
  <2>4. QED
    BY <2>1, <2>2, <2>3 DEF ClosedIsCancelled, ViewClosed, Issued, Live, Terminal
<1>2. CASE CloseWorkspace(r)
  <2>1. {request[r].on} \in SUBSET Workspaces
    BY <1>2 DEF CloseWorkspace, Handling, TypeInv, RequestsWellFormed
  <2>2. CASE CloseWorkspacesLocked({request[r].on})
    BY <1>2, <2>1, <2>2, CloseKeepsClosed DEF CloseWorkspace
  <2>3. CASE UNCHANGED <<workspace, cancelled>>
    BY <1>2, <2>3, ClosedFrame DEF CloseWorkspace, NothingOpened, Issued, Live, Terminal
  <2>4. QED
    BY <1>2, <2>2, <2>3 DEF CloseWorkspace
<1>3. CASE StartAnalysis(r)
  <2> DEFINE v == request[r].on
  <2>1. v \in Views /\ UNCHANGED <<workspace, cancelled>>
    BY <1>3 DEF StartAnalysis, Handling, TypeInv, RequestsWellFormed
  <2>2. CASE \E reply \in Replies : RejectStart(r, v, reply)
    BY <2>1, <2>2, ClosedFrame DEF RejectStart, NothingOpened, Issued, Live, Terminal
  <2>3. ASSUME NEW a \in Analyses, AcceptStart(r, v, a)
        PROVE  ClosedIsCancelled'
    <3>1. /\ workspace[WorkspaceOf[v]] = "open"
          /\ stage' = [stage EXCEPT ![a] = "registered"]
          /\ viewOf' = [viewOf EXCEPT ![a] = v]
      BY <2>3 DEF AcceptStart, Registered
    <3>2. QED
      BY <1>0, <2>1, <3>1 DEF ClosedIsCancelled, ViewClosed, Issued, Live, Terminal
  <2>4. QED
    BY <1>3, <2>2, <2>3 DEF StartAnalysis
<1>4. CASE CancelAnalysis(r)
  <2>1. UNCHANGED <<workspace, stage, viewOf>> /\ \A a \in Analyses : cancelled[a] => cancelled'[a]
    BY <1>4, <1>0 DEF CancelAnalysis
  <2>2. QED
    BY <2>1, ClosedFrame DEF NothingOpened, Issued, Live, Terminal
<1>5. CASE Query(r) \/ Summary(r) \/ SummarizerReturns(r) \/ Respond(r)
  <2>1. UNCHANGED <<workspace, stage, viewOf, cancelled>>
    BY <1>5 DEF Query, Summary, SummarizerReturns, Respond, analysisVars
  <2>2. QED
    BY <2>1, ClosedFrame DEF NothingOpened, Issued, Live, Terminal
<1>6. CASE Launch(r)
  <2> DEFINE a == request[r].analysis
  <2>1. /\ a \in Analyses /\ stage[a] = "registered"
        /\ stage' = [stage EXCEPT ![a] = "launched"]
        /\ UNCHANGED <<workspace, viewOf, cancelled>>
    BY <1>6 DEF Launch, TypeInv, RequestsWellFormed, Ownership, StartsPending
  <2>2. QED
    BY <1>0, <2>1, ClosedFrame DEF NothingOpened, Issued, Live, Terminal
<1>7. QED
  BY <1>1, <1>2, <1>3, <1>4, <1>5, <1>6 DEF Handler

\* An analysis that goes on stays as cancelled as it was.
LEMMA AnalysisClosed ==
    ASSUME TypeInv, Ownership, ClosedIsCancelled, NEW a \in Analyses, Analysis(a)
    PROVE  ClosedIsCancelled'
<1>0. stage \in [Analyses -> Stages] /\ cancelled \in [Analyses -> BOOLEAN]
  BY DEF TypeInv, TypeOK
<1>1. /\ UNCHANGED <<workspace, viewOf>>
      /\ Issued(a)
      /\ Live(a)' => Live(a)
      /\ \A b \in Analyses : b # a => stage'[b] = stage[b] /\ cancelled'[b] = cancelled[b]
      /\ cancelled[a] => cancelled'[a]
  BY <1>0 DEF Analysis, Announce, WriteProgress, AnalyzeReturns, Commit, Report, WriteOutcome,
              Finish, Issued, Live, Terminal
<1>2. QED
  BY <1>1, ClosedFrame DEF NothingOpened, Issued, Live, Terminal

-----------------------------------------------------------------------------
(* Shutdown: a session that was shut down is quiet.                        *)

LEMMA InitLoop == Init => LoopMatchesSession
BY DEF Init, LoopMatchesSession

\* The read loop keeps its state and that of the session in step.
LEMMA LoopLoop ==
    ASSUME TypeInv, LoopMatchesSession, LoopStep
    PROVE  LoopMatchesSession'
<1>1. CASE FinishShutdown
  <2>1. UNCHANGED <<request, exit>> /\ NoHandlers /\ session' = "shutdown" /\ loop' = "reading"
    BY <1>1 DEF FinishShutdown
  <2>2. \A w \in Workspaces : workspace'[w] # "open"
    BY <1>1 DEF FinishShutdown, CloseWorkspacesLocked
  <2>3. QED
    BY <2>1, <2>2 DEF LoopMatchesSession, NoHandlers
<1>2. CASE Exit \/ FramingError \/ ContextDone
  BY <1>2 DEF Exit, FramingError, ContextDone, LeaveLoop, LoopMatchesSession, NoHandlers
<1>3. CASE Initialize \/ BeginShutdown \/ CancelContext \/ Stop
  BY <1>3 DEF Initialize, BeginShutdown, CancelContext, Stop, LoopMatchesSession, NoHandlers,
              serveVars
<1>4. CASE \E r \in Requests : \E q \in ClientRequests : Dispatch(r, q)
  BY <1>4 DEF Dispatch, LoopMatchesSession, serveVars
<1>5. QED
  BY <1>1, <1>2, <1>3, <1>4 DEF LoopStep

\* A handler in flight means the session was not shut down.
LEMMA HandlerLoop ==
    ASSUME TypeInv, LoopMatchesSession, NEW r \in Requests, Handler(r) \/ SummarizerReturns(r)
    PROVE  LoopMatchesSession'
<1>1. UNCHANGED serveVars
  BY DEF Handler, OpenWorkspace, CloseWorkspace, StartAnalysis, CancelAnalysis, Query, Summary,
         SummarizerReturns, Respond, Launch
<1>2. request[r] # NoRequest
  BY DEF Handler, OpenWorkspace, CloseWorkspace, StartAnalysis, CancelAnalysis, Query, Summary,
         SummarizerReturns, Respond, Launch, Handling, NoRequest
<1>3. session # "shutdown"
  BY <1>2 DEF LoopMatchesSession, NoHandlers
<1>4. QED
  BY <1>1, <1>3 DEF LoopMatchesSession, serveVars

\* Analyses do not touch the session state or the handlers.
LEMMA AnalysisLoop ==
    ASSUME LoopMatchesSession, NEW a \in Analyses, Analysis(a)
    PROVE  LoopMatchesSession'
<1>1. UNCHANGED <<serveVars, workspace, request>>
  BY DEF Analysis, Announce, WriteProgress, AnalyzeReturns, Commit, Report, WriteOutcome
<1>2. QED
  BY <1>1 DEF LoopMatchesSession, NoHandlers, serveVars

\* Closed workspaces and the state of the loop, in every state.
THEOREM ClosedAlways == Spec => [](ClosedIsCancelled /\ LoopMatchesSession)
<1> DEFINE Core == TypeInv /\ Ownership
           I == ClosedIsCancelled /\ LoopMatchesSession
<1>1. Init => I
  BY InitClosed, InitLoop
<1>2. Core /\ I /\ [Next]_vars => I'
  <2> SUFFICES ASSUME Core, I, [Next]_vars PROVE I'
    OBVIOUS
  <2>1. CASE LoopStep
    BY <2>1, LoopClosed, LoopLoop
  <2>2. ASSUME NEW r \in Requests, Handler(r) \/ SummarizerReturns(r)
        PROVE  I'
    BY <2>2, HandlerClosed, HandlerLoop
  <2>3. ASSUME NEW a \in Analyses, Analysis(a)
        PROVE  I'
    BY <2>3, AnalysisClosed, AnalysisLoop
  <2>4. CASE UNCHANGED vars
    BY <2>4 DEF vars, serveVars, analysisVars, ClosedIsCancelled, LoopMatchesSession,
                ViewClosed, Issued, Live, Terminal, NoHandlers
  <2>5. QED
    BY <2>1, <2>2, <2>3, <2>4, StepKinds
<1>3. Spec => []Core
  BY OwnershipAlways
<1> HIDE DEF Core, I
<1>4. Spec => []I
  BY <1>1, <1>2, <1>3, PTL DEF Spec
<1>5. QED
  BY <1>4 DEF I

\* Shutdown leaves no handler, no open workspace and no analysis that was not asked
\* to stop, whatever was in flight when it began (engine.go beginShutdown,
\* finishShutdown; serve.go handleShutdown, exitStatus).
THEOREM ShutdownIsQuiet == Spec => []QuietAfterShutdown
<1>1. TypeInv /\ Ownership /\ ClosedIsCancelled /\ LoopMatchesSession => QuietAfterShutdown
  <2> SUFFICES ASSUME TypeInv, Ownership, ClosedIsCancelled, LoopMatchesSession,
                      session = "shutdown" \/ exit = "clean"
               PROVE  /\ NoHandlers
                      /\ \A w \in Workspaces : workspace[w] # "open"
                      /\ \A a \in Analyses : Live(a) => CtxDone(a)
    BY DEF QuietAfterShutdown
  <2>1. NoHandlers /\ \A w \in Workspaces : workspace[w] # "open"
    BY DEF LoopMatchesSession
  <2>2. ASSUME NEW a \in Analyses, Live(a) PROVE CtxDone(a)
    <3>1. viewOf[a] \in Views /\ WorkspaceOf[viewOf[a]] \in Workspaces
      BY <2>2, SessionAssumption DEF Ownership, IssuedHaveViews, Live
    <3>2. workspace[WorkspaceOf[viewOf[a]]] = "closed"
      BY <2>1, <2>2, <3>1 DEF ClosedIsCancelled, Live, TypeInv, TypeOK
    <3>3. QED
      BY <2>2, <3>2 DEF ClosedIsCancelled, ViewClosed, CtxDone
  <2>3. QED
    BY <2>1, <2>2
<1>2. QED
  BY <1>1, OwnershipAlways, ClosedAlways, PTL

-----------------------------------------------------------------------------
(* What no step undoes.                                                    *)

\* An issued analysis keeps its view, a cancelled one stays cancelled and is not
\* published, and a committed one keeps its outcome and its revision.
NothingUndone ==
    \A a \in Analyses :
        /\ Issued(a) => Issued(a)' /\ viewOf'[a] = viewOf[a]
        /\ cancelled[a] => cancelled'[a]
        /\ Terminal(a) => /\ Terminal(a)'
                          /\ outcome'[a] = outcome[a]
                          /\ revisionOf'[a] = revisionOf[a]
        /\ Live(a) /\ cancelled[a] => outcome'[a] # "published"

\* The read loop withdraws no cancellation.
LEMMA LoopUndoesNothing ==
    ASSUME TypeInv, Ownership, LoopStep
    PROVE  NothingUndone
<1>1. UNCHANGED <<stage, viewOf, outcome, revisionOf>>
  BY DEF LoopStep, Initialize, BeginShutdown, FinishShutdown, CancelContext, Exit, FramingError,
         ContextDone, LeaveLoop, Stop, Dispatch, analysisVars
<1>2. \A a \in Analyses : cancelled[a] => cancelled'[a]
  BY DEF LoopStep, Initialize, BeginShutdown, FinishShutdown, CancelContext, Exit, FramingError,
         ContextDone, LeaveLoop, Stop, Dispatch, analysisVars, CloseWorkspacesLocked
<1>3. QED
  BY <1>1, <1>2 DEF NothingUndone, Issued, Terminal, Live, Ownership, CommitDecides, Decisions

\* Handlers withdraw no cancellation.
LEMMA HandlerUndoesNothing ==
    ASSUME TypeInv, Ownership, NEW r \in Requests, Handler(r) \/ SummarizerReturns(r)
    PROVE  NothingUndone
<1>0. /\ stage \in [Analyses -> Stages]
      /\ viewOf \in [Analyses -> Views \cup {None}]
      /\ cancelled \in [Analyses -> BOOLEAN]
  BY DEF TypeInv, TypeOK
<1>1. UNCHANGED <<outcome, revisionOf>>
  BY DEF Handler, OpenWorkspace, CloseWorkspace, StartAnalysis, CancelAnalysis, Query, Summary,
         SummarizerReturns, Respond, Launch, analysisVars
<1>2. \A a \in Analyses : cancelled[a] => cancelled'[a]
  BY <1>0 DEF Handler, OpenWorkspace, CloseWorkspace, StartAnalysis, CancelAnalysis, Query,
         Summary, SummarizerReturns, Respond, Launch, analysisVars, CloseWorkspacesLocked
<1>3. \A a \in Analyses : Issued(a) => Issued(a)' /\ viewOf'[a] = viewOf[a]
  BY <1>0 DEF Handler, OpenWorkspace, CloseWorkspace, StartAnalysis, RejectStart, AcceptStart,
         CancelAnalysis, Query, Summary, SummarizerReturns, Respond, Launch, analysisVars, Issued
<1>4. \A a \in Analyses : Terminal(a) => Terminal(a)'
  <2>1. CASE Launch(r)
    <3>1. /\ stage[request[r].analysis] = "registered"
          /\ stage' = [stage EXCEPT ![request[r].analysis] = "launched"]
      BY <2>1 DEF Launch, TypeInv, RequestsWellFormed, Ownership, StartsPending
    <3>2. QED
      BY <1>0, <3>1 DEF Terminal
  <2>2. CASE StartAnalysis(r)
    BY <1>0, <2>2 DEF StartAnalysis, RejectStart, AcceptStart, Issued, Terminal
  <2>3. CASE ~Launch(r) /\ ~StartAnalysis(r)
    BY <2>3 DEF Handler, OpenWorkspace, CloseWorkspace, CancelAnalysis, Query, Summary,
                SummarizerReturns, Respond, analysisVars, Terminal
  <2>4. QED
    BY <2>1, <2>2, <2>3
<1>5. \A a \in Analyses : Live(a) => outcome[a] # "published"
  BY DEF Live, Ownership, CommitDecides, Decisions
<1>6. QED
  BY <1>1, <1>2, <1>3, <1>4, <1>5 DEF NothingUndone

\* No analysis withdraws a cancellation or publishes a cancelled one.
LEMMA AnalysisUndoesNothing ==
    ASSUME TypeInv, Ownership, NEW a \in Analyses, Analysis(a)
    PROVE  NothingUndone
<1>0. /\ stage \in [Analyses -> Stages]
      /\ outcome \in [Analyses -> {"none", "index", "loadError", "internalError"} \cup Decisions]
      /\ cancelled \in [Analyses -> BOOLEAN]
      /\ revisionOf \in [Analyses -> Nat]
  BY DEF TypeInv, TypeOK
<1>1. \A b \in Analyses : Live(b) => outcome[b] # "published"
  BY DEF Live, Ownership, CommitDecides, Decisions
<1>2. CASE Commit(a)
  <2>1. /\ stage[a] = "analyzed"
        /\ stage' = [stage EXCEPT ![a] = "committed"]
        /\ outcome' = [outcome EXCEPT ![a] = Decision(a)]
        /\ UNCHANGED <<viewOf, cancelled>>
    BY <1>2 DEF Commit
  <2>2. \A b \in Analyses : b # a => revisionOf'[b] = revisionOf[b]
    BY <1>2, <1>0 DEF Commit, Publish, RecordFailure
  <2>3. cancelled[a] => Decision(a) = "cancelled"
    BY DEF Decision, CtxDone
  <2>4. QED
    BY <1>0, <1>1, <2>1, <2>2, <2>3 DEF NothingUndone, Issued, Terminal, Live
<1>3. CASE AnalyzeReturns(a)
  <2>1. /\ stage[a] = "analyzing"
        /\ stage' = [stage EXCEPT ![a] = "analyzed"]
        /\ \E result \in {"index", "loadError", "internalError"} :
               outcome' = [outcome EXCEPT ![a] = result]
        /\ UNCHANGED <<viewOf, cancelled, revisionOf>>
    BY <1>3 DEF AnalyzeReturns
  <2>2. QED
    BY <1>0, <1>1, <2>1 DEF NothingUndone, Issued, Terminal, Live
<1>4. CASE Announce(a) \/ WriteProgress(a) \/ Report(a) \/ WriteOutcome(a)
  <2>1. /\ UNCHANGED <<viewOf, outcome, revisionOf>>
        /\ \A b \in Analyses : cancelled[b] => cancelled'[b]
    BY <1>4, <1>0 DEF Announce, WriteProgress, Report, WriteOutcome, Finish
  <2>2. \A b \in Analyses : (Issued(b) => Issued(b)') /\ (Terminal(b) => Terminal(b)')
    BY <1>4, <1>0 DEF Announce, WriteProgress, Report, WriteOutcome, Finish, Issued, Terminal
  <2>3. QED
    BY <1>1, <2>1, <2>2 DEF NothingUndone
<1>5. QED
  BY <1>2, <1>3, <1>4 DEF Analysis

\* No step of the session undoes any of it.
LEMMA StepUndoesNothing ==
    ASSUME TypeInv, Ownership, [Next]_vars
    PROVE  NothingUndone
<1>1. CASE UNCHANGED vars
  <2>1. UNCHANGED <<stage, viewOf, cancelled, outcome, revisionOf>>
    BY <1>1 DEF vars, analysisVars
  <2>2. QED
    BY <2>1 DEF NothingUndone, Issued, Terminal, Live, Ownership, CommitDecides, Decisions
<1>2. QED
  BY <1>1, StepKinds, LoopUndoesNothing, HandlerUndoesNothing, AnalysisUndoesNothing

-----------------------------------------------------------------------------
(* Cancellation: what a client was told stays true.                        *)

\* A step that starts no acknowledgement keeps CancellationHolds.
LEMMA CancellationFrame ==
    ASSUME TypeInv, CancellationHolds, NothingUndone,
           \A r \in Requests : request'[r].reply = "cancelRequested" =>
               \/ /\ request[r].reply = "cancelRequested"
                  /\ request'[r].analysis = request[r].analysis
               \/ request'[r].analysis \in CancelsHeld',
           acked' \subseteq acked \cup CancelsHeld
    PROVE  CancellationHolds'
<1>1. CancelsHeld \subseteq CancelsHeld'
  BY DEF NothingUndone, CancelsHeld, Issued, Live, Terminal
<1>2. QED
  BY <1>1 DEF CancellationHolds

\* Handlers: cancelAnalysis acknowledges a live analysis in the step that cancels it.
LEMMA HandlerCancellation ==
    ASSUME TypeInv, Ownership, CancellationHolds, NothingUndone, NEW r \in Requests,
           Handler(r) \/ SummarizerReturns(r)
    PROVE  CancellationHolds'
<1>0. /\ request \in [Requests -> HandlerStates]
      /\ stage \in [Analyses -> Stages]
      /\ cancelled \in [Analyses -> BOOLEAN]
  BY DEF TypeInv, TypeOK
<1>1. CASE CancelAnalysis(r)
  <2> DEFINE a == request[r].analysis
  <2>1. a \in Analyses /\ acked' = acked
    BY <1>1 DEF CancelAnalysis, Handling, TypeInv, RequestsWellFormed, outputVars
  <2>2. CASE \E reply \in {"analysisNotFound", "alreadyTerminal"} : Answer(r, reply)
    BY <1>0, <2>1, <2>2, CancellationFrame DEF Answer, HandlerStates
  <2>3. CASE /\ Live(a) /\ Answer(r, "cancelRequested")
             /\ cancelled' = [cancelled EXCEPT ![a] = TRUE]
    <3>1. a \in CancelsHeld'
      <4>1. UNCHANGED <<stage, outcome>>
        BY <1>1 DEF CancelAnalysis
      <4>2. outcome[a] # "published"
        BY <2>1, <2>3 DEF Live, Ownership, CommitDecides, Decisions
      <4>3. QED
        BY <1>0, <2>1, <2>3, <4>1, <4>2 DEF CancelsHeld, Live, Issued
    <3>2. \A s \in Requests : s # r => request'[s] = request[s]
      BY <1>0, <2>3 DEF Answer
    <3>3. request'[r].analysis = a
      BY <1>0, <2>3 DEF Answer, HandlerStates
    <3>4. QED
      BY <2>1, <3>1, <3>2, <3>3, CancellationFrame
  <2>4. QED
    BY <1>1, <2>2, <2>3 DEF CancelAnalysis
<1>2. CASE Respond(r)
  <2>1. \A s \in Requests : request'[s].reply = "cancelRequested" =>
            request[s].reply = "cancelRequested" /\ request'[s].analysis = request[s].analysis
    <3>1. CASE request' = [request EXCEPT ![r] = NoRequest]
      BY <1>0, <3>1 DEF NoRequest
    <3>2. CASE request' = [request EXCEPT ![r].stage = "launching"]
      BY <1>0, <3>2 DEF HandlerStates
    <3>3. QED
      BY <1>2, <3>1, <3>2 DEF Respond
  <2>2. acked' \subseteq acked \cup CancelsHeld
    BY <1>2 DEF Respond, CancellationHolds
  <2>3. QED
    BY <2>1, <2>2, CancellationFrame
<1>3. CASE StartAnalysis(r)
  <2>1. acked' = acked
    BY <1>3 DEF StartAnalysis, outputVars
  <2>2. \/ \E reply \in Replies \ {"cancelRequested"} : Answer(r, reply)
        \/ \E a \in Analyses : request' = [request EXCEPT ![r].stage = "answered",
                                                          ![r].reply = "started",
                                                          ![r].analysis = a]
    BY <1>3 DEF StartAnalysis, RejectStart, AcceptStart
  <2>3. \A s \in Requests : request'[s].reply = "cancelRequested" =>
            request[s].reply = "cancelRequested" /\ request'[s].analysis = request[s].analysis
    BY <1>0, <2>2 DEF Answer, HandlerStates
  <2>4. QED
    BY <2>1, <2>3, CancellationFrame
<1>4. CASE \/ OpenWorkspace(r) \/ CloseWorkspace(r) \/ Query(r) \/ Summary(r)
           \/ SummarizerReturns(r) \/ Launch(r)
  <2>1. acked' = acked
    BY <1>4 DEF OpenWorkspace, CloseWorkspace, Query, Summary, SummarizerReturns, Launch, outputVars
  <2>2. Resolve(request[r].on, request[r].analysis) \in Replies \ {"cancelRequested"}
    BY DEF Resolve, Replies
  <2>3. \/ \E reply \in Replies \ {"cancelRequested"} : Answer(r, reply)
        \/ request' = [request EXCEPT ![r].stage = "summarizing"]
        \/ request' = [request EXCEPT ![r] = NoRequest]
    BY <1>4, <2>2 DEF OpenWorkspace, CloseWorkspace, Query, Summary, SummarizerReturns, Launch,
                      Replies
  <2>4. \A s \in Requests : request'[s].reply = "cancelRequested" =>
            request[s].reply = "cancelRequested" /\ request'[s].analysis = request[s].analysis
    BY <1>0, <2>3 DEF Answer, HandlerStates, NoRequest
  <2>5. QED
    BY <2>1, <2>4, CancellationFrame
<1>5. QED
  BY <1>1, <1>2, <1>3, <1>4 DEF Handler

\* The loop and the analyses acknowledge nothing.
LEMMA OthersCancellation ==
    ASSUME TypeInv, CancellationHolds, NothingUndone,
           LoopStep \/ (\E a \in Analyses : Analysis(a)) \/ UNCHANGED vars
    PROVE  CancellationHolds'
<1>0. request \in [Requests -> HandlerStates]
  BY DEF TypeInv, TypeOK
<1>1. acked' = acked
  BY DEF LoopStep, Initialize, BeginShutdown, FinishShutdown, CancelContext, Exit, FramingError,
         ContextDone, LeaveLoop, Stop, Dispatch, Analysis, Announce, WriteProgress,
         AnalyzeReturns, Commit, Report, WriteOutcome, vars, outputVars
<1>2. \/ request' = request
      \/ \E r \in Requests : \E q \in ClientRequests : request' = [request EXCEPT ![r] = q]
  BY DEF LoopStep, Initialize, BeginShutdown, FinishShutdown, CancelContext, Exit, FramingError,
         ContextDone, LeaveLoop, Stop, Dispatch, Analysis, Announce, WriteProgress,
         AnalyzeReturns, Commit, Report, WriteOutcome, vars
<1>3. \A q \in ClientRequests : q.reply = "none"
  BY DEF ClientRequests, Message
<1>4. QED
  BY <1>0, <1>1, <1>2, <1>3, CancellationFrame

-----------------------------------------------------------------------------
(* The wire tells the truth.                                               *)

\* A step that writes at most one true entry about an issued analysis keeps it.
LEMMA WireFrame ==
    ASSUME TypeInv, Ownership, WireIsTrue, NothingUndone,
           \/ wire' = wire
           \/ \E a \in Analyses : \E kind \in {"started", "progress"} \cup Decisions :
                 /\ Write(a, kind)
                 /\ Issued(a)
                 /\ kind \in Decisions => Terminal(a) /\ outcome[a] = kind
    PROVE  WireIsTrue'
<1>0. wire \in [Views -> Seq(WireEntries)]
  BY DEF TypeInv, TypeOK
<1>1. ASSUME NEW v \in Views, NEW i \in DOMAIN wire[v]
      PROVE  /\ viewOf'[wire[v][i].about] = v
             /\ wire[v][i].kind \in Decisions => outcome'[wire[v][i].about] = wire[v][i].kind
  <2>1. wire[v][i] \in WireEntries
    BY <1>0, <1>1, ElementOfSeq
  <2>2. wire[v][i].about \in Analyses
    BY <2>1 DEF WireEntries
  <2>3. Issued(wire[v][i].about)
    BY <1>1, <2>2 DEF WireIsTrue, Ownership, IssuedHaveViews
  <2>4. wire[v][i].kind \in Decisions => Terminal(wire[v][i].about)
    BY <1>1, <2>2 DEF WireIsTrue, Ownership, CommitDecides
  <2>5. QED
    BY <1>1, <2>2, <2>3, <2>4 DEF NothingUndone, WireIsTrue
<1>2. CASE wire' = wire
  BY <1>1, <1>2 DEF WireIsTrue
<1>3. ASSUME NEW a \in Analyses, NEW kind \in {"started", "progress"} \cup Decisions,
             Write(a, kind), Issued(a), kind \in Decisions => Terminal(a) /\ outcome[a] = kind
      PROVE  WireIsTrue'
  <2> DEFINE u == viewOf[a]
  <2>1. u \in Views
    BY <1>3 DEF Ownership, IssuedHaveViews
  <2>2. /\ wire'[u] = Append(wire[u], Entry(a, kind))
        /\ \A v \in Views : v # u => wire'[v] = wire[v]
    BY <1>0, <1>3, <2>1 DEF Write
  <2>3. \A v \in Views : \A i \in DOMAIN wire'[v] :
            \/ i \in DOMAIN wire[v] /\ wire'[v][i] = wire[v][i]
            \/ v = u /\ wire'[v][i] = Entry(a, kind)
    <3>1. wire[u] \in Seq(WireEntries)
      BY <1>0, <2>1
    <3> DEFINE entry == Entry(a, kind)
    <3> HIDE DEF entry
    <3>2. \A i \in DOMAIN Append(wire[u], entry) :
              \/ i \in DOMAIN wire[u] /\ Append(wire[u], entry)[i] = wire[u][i]
              \/ Append(wire[u], entry)[i] = entry
      BY <3>1
    <3>3. wire'[u] = Append(wire[u], entry) /\ entry = Entry(a, kind)
      BY <2>2 DEF entry
    <3>4. QED
      BY <2>2, <3>2, <3>3
  <2>4. /\ viewOf'[a] = u
        /\ kind \in Decisions => outcome'[a] = kind
    BY <1>3 DEF NothingUndone
  <2>5. QED
    BY <1>1, <2>3, <2>4 DEF WireIsTrue, Entry
<1>4. QED
  BY <1>2, <1>3

\* Every step writes only outcomes that commit decided.
LEMMA StepWireIsTrue ==
    ASSUME TypeInv, Ownership, WireIsTrue, NothingUndone, [Next]_vars
    PROVE  WireIsTrue'
<1>1. CASE LoopStep \/ UNCHANGED vars
  <2>1. wire' = wire
    BY <1>1 DEF LoopStep, Initialize, BeginShutdown, FinishShutdown, CancelContext, Exit,
                FramingError, ContextDone, LeaveLoop, Stop, Dispatch, vars, outputVars
  <2>2. QED
    BY <2>1, WireFrame
<1>2. ASSUME NEW r \in Requests, Handler(r) \/ SummarizerReturns(r)
      PROVE  WireIsTrue'
  <2>1. CASE Respond(r) /\ request[r].reply = "started"
    <3>1. /\ request[r].analysis \in Analyses
          /\ Write(request[r].analysis, "started")
          /\ Issued(request[r].analysis)
      BY <2>1 DEF Respond, TypeInv, RequestsWellFormed, Ownership, StartsPending, Issued
    <3>2. QED
      BY <3>1, WireFrame DEF Decisions
  <2>2. CASE ~(Respond(r) /\ request[r].reply = "started")
    <3>1. wire' = wire
      BY <1>2, <2>2 DEF Handler, OpenWorkspace, CloseWorkspace, StartAnalysis, CancelAnalysis,
                        Query, Summary, SummarizerReturns, Respond, Launch, outputVars
    <3>2. QED
      BY <3>1, WireFrame
  <2>3. QED
    BY <2>1, <2>2
<1>3. ASSUME NEW a \in Analyses, Analysis(a)
      PROVE  WireIsTrue'
  <2>1. CASE WriteProgress(a)
    BY <2>1, WireFrame DEF WriteProgress, Issued, Decisions
  <2>2. CASE WriteOutcome(a)
    <3>1. Terminal(a) /\ Issued(a) /\ Write(a, outcome[a])
      BY <2>2 DEF WriteOutcome, Terminal, Issued
    <3>2. outcome[a] \in Decisions
      BY <3>1 DEF Ownership, CommitDecides
    <3>3. QED
      BY <3>1, <3>2, WireFrame
  <2>3. CASE ~WriteProgress(a) /\ ~WriteOutcome(a)
    <3>1. wire' = wire
      BY <1>3, <2>3 DEF Analysis, Announce, AnalyzeReturns, Commit, Report, outputVars
    <3>2. QED
      BY <3>1, WireFrame
  <2>4. QED
    BY <2>1, <2>2, <2>3
<1>4. QED
  BY <1>1, <1>2, <1>3, StepKinds

\* Acknowledged cancellations and the wire, in every state.
THEOREM CancellationAlways == Spec => [](CancellationHolds /\ WireIsTrue)
<1> DEFINE Core == TypeInv /\ Ownership
           I == CancellationHolds /\ WireIsTrue
<1>1. Init => I
  BY DEF Init, CancellationHolds, WireIsTrue, NoRequest
<1>2. Core /\ I /\ [Next]_vars => I'
  <2> SUFFICES ASSUME Core, I, [Next]_vars PROVE I'
    OBVIOUS
  <2>1. NothingUndone
    BY StepUndoesNothing
  <2>2. CancellationHolds'
    BY <2>1, StepKinds, HandlerCancellation, OthersCancellation
  <2>3. WireIsTrue'
    BY <2>1, StepWireIsTrue
  <2>4. QED
    BY <2>2, <2>3
<1>3. Spec => []Core
  BY OwnershipAlways
<1> HIDE DEF Core, I
<1>4. Spec => []I
  BY <1>1, <1>2, <1>3, PTL DEF Spec
<1>5. QED
  BY <1>4 DEF I

\* A client that was told cancelRequested: true never sees that analysis published
\* (engine.go cancelAnalysis, commit; serve.go notify).
THEOREM CancelIsFinal == Spec => []AcknowledgedCancelNeverPublishes
<1>1. TypeInv /\ Ownership /\ CancellationHolds /\ WireIsTrue => AcknowledgedCancelNeverPublishes
  <2> SUFFICES ASSUME TypeInv, Ownership, CancellationHolds, WireIsTrue, NEW a \in acked
               PROVE  /\ outcome[a] # "published"
                      /\ \A i \in DOMAIN wire[viewOf[a]] :
                            wire[viewOf[a]][i] # Entry(a, "published")
    BY DEF AcknowledgedCancelNeverPublishes
  <2>1. a \in Analyses /\ Issued(a) /\ outcome[a] # "published"
    BY DEF CancellationHolds, CancelsHeld
  <2>2. viewOf[a] \in Views
    BY <2>1 DEF Ownership, IssuedHaveViews
  <2>3. ASSUME NEW i \in DOMAIN wire[viewOf[a]], wire[viewOf[a]][i] = Entry(a, "published")
        PROVE  FALSE
    BY <2>1, <2>2, <2>3 DEF WireIsTrue, Entry, Decisions
  <2>4. QED
    BY <2>1, <2>3
<1>2. QED
  BY <1>1, OwnershipAlways, CancellationAlways, PTL

-----------------------------------------------------------------------------
(* Retention: the snapshots of a view are its last publications.           *)

Retention == SnapshotsPublished /\ RetentionWindow

\* A retained snapshot keeps its outcome, its view and its revision.
LEMMA RetainedStay ==
    ASSUME TypeInv, Ownership, Retention, NothingUndone, NEW v \in Views, NEW i \in DOMAIN snapshots[v]
    PROVE  /\ snapshots[v][i] \in Analyses
           /\ viewOf'[snapshots[v][i]] = viewOf[snapshots[v][i]]
           /\ revisionOf'[snapshots[v][i]] = revisionOf[snapshots[v][i]]
           /\ outcome'[snapshots[v][i]] = "published"
<1>1. snapshots[v][i] \in Analyses
  BY ElementOfSeq DEF TypeInv, TypeOK
<1>2. outcome[snapshots[v][i]] = "published"
  BY DEF Retention, SnapshotsPublished
<1>3. Terminal(snapshots[v][i]) /\ Issued(snapshots[v][i])
  BY <1>1, <1>2 DEF Ownership, CommitDecides, Decisions, Terminal, Issued
<1>4. QED
  BY <1>1, <1>2, <1>3 DEF NothingUndone

\* A step that leaves every view's snapshots and revision alone, or empties the
\* snapshots of a view as it closes it, keeps Retention.
LEMMA RetentionFrame ==
    ASSUME TypeInv, Ownership, Retention, NothingUndone, revision' = revision,
           \A v \in Views :
               \/ snapshots'[v] = snapshots[v] /\ (ViewClosed(v)' <=> ViewClosed(v))
               \/ snapshots'[v] = <<>> /\ ViewClosed(v)'
    PROVE  Retention'
<1>1. SnapshotsPublished'
  BY RetainedStay DEF SnapshotsPublished
<1>2. ASSUME NEW v \in Views
      PROVE  LET kept == Len(snapshots'[v])
             IN  /\ kept = IF ViewClosed(v)' THEN 0
                           ELSE IF revision'[v] < RetainedSnapshotsPerView THEN revision'[v]
                           ELSE RetainedSnapshotsPerView
                 /\ \A i \in 1..kept : /\ viewOf'[snapshots'[v][i]] = v
                                       /\ revisionOf'[snapshots'[v][i]] = revision'[v] - kept + i
  <2>1. CASE snapshots'[v] = snapshots[v] /\ (ViewClosed(v)' <=> ViewClosed(v))
    <3>1. snapshots[v] \in Seq(Analyses) /\ DOMAIN snapshots[v] = 1..Len(snapshots[v])
      BY DEF TypeInv, TypeOK
    <3>2. QED
      BY <2>1, <3>1, RetainedStay DEF Retention, RetentionWindow
  <2>2. CASE snapshots'[v] = <<>> /\ ViewClosed(v)'
    BY <2>2
  <2>3. QED
    BY <2>1, <2>2
<1>3. RetentionWindow'
  BY <1>2 DEF RetentionWindow, RetainedSnapshotsPerView, ViewClosed
<1>4. QED
  BY <1>1, <1>3 DEF Retention

\* Closing workspaces empties the snapshots of exactly the views it closes.
LEMMA CloseKeepsRetention ==
    ASSUME TypeInv, Ownership, Retention, NothingUndone, revision' = revision,
           NEW W \in SUBSET Workspaces, CloseWorkspacesLocked(W)
    PROVE  Retention'
<1>1. \A v \in Views : WorkspaceOf[v] \in Workspaces
  BY SessionAssumption
<1>2. QED
  BY <1>1, RetentionFrame DEF CloseWorkspacesLocked, ViewClosed

\* Retaining after an append keeps the new element and the one before it.
LEMMA RetainAppend ==
    ASSUME NEW S, NEW s \in Seq(S), NEW a \in S
    PROVE  /\ Retain(Append(s, a)) \in Seq(S)
           /\ Len(s) = 0 => /\ Len(Retain(Append(s, a))) = 1
                            /\ Retain(Append(s, a))[1] = a
           /\ Len(s) > 0 => /\ Len(Retain(Append(s, a))) = 2
                            /\ Retain(Append(s, a))[1] = s[Len(s)]
                            /\ Retain(Append(s, a))[2] = a
<1> DEFINE l == Append(s, a)
           n == Len(s)
<1>1. /\ n \in Nat
      /\ l \in Seq(S)
      /\ Len(l) = n + 1
      /\ \A i \in 1..n : l[i] = s[i]
      /\ l[n + 1] = a
  BY LenProperties, AppendProperties
<1>2. /\ Retain(l) \in Seq(S)
      /\ Len(Retain(l)) = IF Len(l) > 2 THEN 2 ELSE Len(l)
      /\ \A i \in 1..Len(Retain(l)) : Retain(l)[i] = l[Len(l) - Len(Retain(l)) + i]
  <2> HIDE DEF l
  <2>1. QED
    BY <1>1, RetainProperties
<1> HIDE DEF l, n
<1>3. CASE n = 0
  <2>1. Len(Retain(l)) = 1 /\ Retain(l)[1] = l[1]
    BY <1>1, <1>2, <1>3
  <2>2. QED
    BY <1>1, <1>2, <1>3, <2>1 DEF l, n
<1>4. CASE n > 0
  <2>1. Len(Retain(l)) = 2 /\ Retain(l)[1] = l[n] /\ Retain(l)[2] = l[n + 1]
    BY <1>1, <1>2, <1>4
  <2>2. l[n] = s[n] /\ ~(n = 0)
    BY <1>1, <1>4
  <2>3. QED
    BY <1>1, <1>2, <1>4, <2>1, <2>2 DEF l, n
<1>5. QED
  BY <1>1, <1>3, <1>4

\* A publication appends its snapshot and drops the one before the predecessor.
LEMMA PublishKeepsRetention ==
    ASSUME TypeInv, Ownership, Retention, NothingUndone, NEW a \in Analyses, Commit(a),
           Decision(a) = "published"
    PROVE  Retention'
<1> DEFINE v == viewOf[a]
           s == snapshots[v]
           n == Len(s)
           t == Retain(Append(s, a))
<1>1. /\ Issued(a) /\ ~Terminal(a) /\ v \in Views
      /\ outcome[a] # "published"
  BY DEF Commit, Ownership, IssuedHaveViews, CommitDecides, Issued, Terminal, Decisions
<1>2. /\ s \in Seq(Analyses) /\ n \in Nat /\ revision[v] \in Nat
      /\ snapshots \in [Views -> Seq(Analyses)] /\ revision \in [Views -> Nat]
      /\ revisionOf \in [Analyses -> Nat]
      /\ outcome \in [Analyses -> {"none", "index", "loadError", "internalError"} \cup Decisions]
  BY <1>1, LenProperties DEF TypeInv, TypeOK
<1>3. /\ snapshots' = [snapshots EXCEPT ![v] = t]
      /\ revision' = [revision EXCEPT ![v] = revision[v] + 1]
      /\ revisionOf' = [revisionOf EXCEPT ![a] = revision[v] + 1]
      /\ outcome' = [outcome EXCEPT ![a] = "published"]
      /\ UNCHANGED <<workspace, viewOf>>
  BY <1>1, <1>2 DEF Commit, Publish
<1>4. ~ViewClosed(v)
  BY DEF Decision
<1>5. /\ n = IF revision[v] < 2 THEN revision[v] ELSE 2
      /\ \A i \in 1..n : viewOf[s[i]] = v /\ revisionOf[s[i]] = revision[v] - n + i
  BY <1>1, <1>4 DEF Retention, RetentionWindow, RetainedSnapshotsPerView
<1>6. /\ t \in Seq(Analyses)
      /\ n = 0 => Len(t) = 1 /\ t[1] = a
      /\ n > 0 => Len(t) = 2 /\ t[1] = s[n] /\ t[2] = a
  <2>1. s \in Seq(Analyses)
    BY <1>2
  <2> HIDE DEF s
  <2>2. QED
    BY <2>1, RetainAppend
<1>7. revision'[v] = revision[v] + 1 /\ revisionOf'[a] = revision[v] + 1 /\ outcome'[a] = "published"
  BY <1>1, <1>2, <1>3
<1>8. ASSUME n > 0
      PROVE  /\ s[n] \in Analyses
             /\ viewOf[s[n]] = v
             /\ revisionOf'[s[n]] = revision[v]
             /\ outcome'[s[n]] = "published"
  <2>1. n \in DOMAIN s
    BY <1>2, <1>8
  <2>2. s[n] \in Analyses /\ revisionOf'[s[n]] = revisionOf[s[n]] /\ outcome'[s[n]] = "published"
    BY <1>1, <2>1, RetainedStay
  <2>3. viewOf[s[n]] = v /\ revisionOf[s[n]] = revision[v]
    BY <1>2, <1>5, <1>8
  <2>4. QED
    BY <2>2, <2>3
<1> HIDE DEF t, n, s
<1>9. \A i \in 1..Len(t) :
          /\ t[i] \in Analyses
          /\ viewOf[t[i]] = v
          /\ revisionOf'[t[i]] = revision'[v] - Len(t) + i
          /\ outcome'[t[i]] = "published"
  <2> SUFFICES ASSUME NEW i \in 1..Len(t)
               PROVE  /\ t[i] \in Analyses
                      /\ viewOf[t[i]] = v
                      /\ revisionOf'[t[i]] = revision'[v] - Len(t) + i
                      /\ outcome'[t[i]] = "published"
    OBVIOUS
  <2>1. \/ i = Len(t) /\ t[i] = a
        \/ n > 0 /\ Len(t) = 2 /\ i = 1 /\ t[i] = s[n]
    <3>1. n \in Nat
      BY <1>2
    <3>2. CASE n = 0
      <4>1. Len(t) = 1 /\ t[1] = a
        BY <1>6, <3>2, Zenon
      <4>2. QED
        BY <4>1
    <3>3. CASE n > 0
      <4>1. Len(t) = 2 /\ t[1] = s[n] /\ t[2] = a
        BY <1>6, <3>3, Zenon
      <4>2. QED
        BY <3>3, <4>1
    <3>4. QED
      BY <3>1, <3>2, <3>3
  <2>2. Len(t) \in Nat
    BY <1>6, LenProperties
  <2> HIDE DEF v
  <2>3. CASE i = Len(t) /\ t[i] = a
    <3>1. viewOf[a] = v
      BY DEF v
    <3>2. QED
      BY <1>2, <1>7, <2>2, <2>3, <3>1
  <2>4. CASE n > 0 /\ Len(t) = 2 /\ i = 1 /\ t[i] = s[n]
    BY <1>2, <1>7, <1>8, <2>4
  <2>5. QED
    BY <2>1, <2>3, <2>4
<1>10. /\ snapshots'[v] = t
       /\ Len(t) = IF revision'[v] < 2 THEN revision'[v] ELSE 2
       /\ DOMAIN t = 1..Len(t)
  <2>1. snapshots'[v] = t
    BY <1>1, <1>2, <1>3
  <2>2. n = 0 \/ n > 0
    BY <1>2
  <2>3. Len(t) = IF revision'[v] < 2 THEN revision'[v] ELSE 2
    <3>1. CASE n = 0
      <4>1. Len(t) = 1
        BY <1>6, <3>1, Zenon
      <4>2. revision[v] = 0
        BY <1>2, <1>5, <3>1
      <4>3. QED
        BY <1>7, <4>1, <4>2
    <3>2. CASE n > 0
      <4>1. Len(t) = 2
        BY <1>6, <3>2, Zenon
      <4>2. revision[v] >= 1
        BY <1>2, <1>5, <3>2
      <4>3. QED
        BY <1>2, <1>7, <4>1, <4>2
    <3>3. QED
      BY <2>2, <3>1, <3>2
  <2>4. DOMAIN t = 1..Len(t)
    BY <1>6, LenProperties
  <2>5. QED
    BY <2>1, <2>3, <2>4
<1>11. \A u \in Views : u # v => snapshots'[u] = snapshots[u] /\ revision'[u] = revision[u]
  BY <1>2, <1>3
<1>12. SnapshotsPublished'
  BY <1>9, <1>10, <1>11, RetainedStay DEF SnapshotsPublished
<1>13. ASSUME NEW u \in Views
       PROVE  LET kept == Len(snapshots'[u])
              IN  /\ kept = IF ViewClosed(u)' THEN 0
                            ELSE IF revision'[u] < RetainedSnapshotsPerView THEN revision'[u]
                            ELSE RetainedSnapshotsPerView
                  /\ \A i \in 1..kept : /\ viewOf'[snapshots'[u][i]] = u
                                        /\ revisionOf'[snapshots'[u][i]] = revision'[u] - kept + i
  <2>1. CASE u = v
    <3> HIDE DEF v
    <3>1. QED
      BY <1>3, <1>4, <1>9, <1>10, <2>1 DEF ViewClosed, RetainedSnapshotsPerView
  <2>2. CASE u # v
    <3>1. DOMAIN snapshots[u] = 1..Len(snapshots[u])
      BY DEF TypeInv, TypeOK
    <3>2. QED
      BY <1>3, <1>11, <2>2, <3>1, RetainedStay DEF Retention, RetentionWindow, ViewClosed
  <2>3. QED
    BY <2>1, <2>2
<1>14. RetentionWindow'
  BY <1>13 DEF RetentionWindow, RetainedSnapshotsPerView, ViewClosed
<1>15. QED
  BY <1>12, <1>14 DEF Retention

\* Every step keeps Retention.
LEMMA StepRetention ==
    ASSUME TypeInv, Ownership, Retention, NothingUndone, [Next]_vars
    PROVE  Retention'
<1>0. \A v \in Views : WorkspaceOf[v] \in Workspaces
  BY SessionAssumption
<1>1. CASE LoopStep
  <2>1. CASE FinishShutdown
    <3>1. {w \in Workspaces : workspace[w] = "open"} \in SUBSET Workspaces
      OBVIOUS
    <3>2. QED
      BY <2>1, <3>1, CloseKeepsRetention DEF FinishShutdown
  <2>2. CASE ~FinishShutdown
    <3>1. UNCHANGED <<workspace, revision, snapshots>>
      BY <1>1, <2>2 DEF LoopStep, Initialize, BeginShutdown, CancelContext, Exit, FramingError,
                        ContextDone, LeaveLoop, Stop, Dispatch, viewVars
    <3>2. QED
      BY <3>1, RetentionFrame DEF ViewClosed
  <2>3. QED
    BY <2>1, <2>2
<1>2. ASSUME NEW r \in Requests, Handler(r) \/ SummarizerReturns(r)
      PROVE  Retention'
  <2>1. CASE OpenWorkspace(r)
    <3>1. workspace \in [Workspaces -> {"unopened", "open", "closed"}]
      BY DEF TypeInv, TypeOK
    <3>2. \A w \in Workspaces : (workspace'[w] = "closed") <=> (workspace[w] = "closed")
      BY <2>1, <3>1 DEF OpenWorkspace
    <3>3. UNCHANGED <<revision, snapshots>>
      BY <2>1 DEF OpenWorkspace, viewVars
    <3>4. QED
      BY <1>0, <3>2, <3>3, RetentionFrame DEF ViewClosed
  <2>2. CASE CloseWorkspace(r)
    <3>1. {request[r].on} \in SUBSET Workspaces /\ revision' = revision
      BY <2>2 DEF CloseWorkspace, Handling, TypeInv, RequestsWellFormed
    <3>2. CASE CloseWorkspacesLocked({request[r].on})
      BY <3>1, <3>2, CloseKeepsRetention
    <3>3. CASE UNCHANGED <<workspace, snapshots>>
      BY <3>1, <3>3, RetentionFrame DEF ViewClosed
    <3>4. QED
      BY <2>2, <3>2, <3>3 DEF CloseWorkspace
  <2>3. CASE ~OpenWorkspace(r) /\ ~CloseWorkspace(r)
    <3>1. UNCHANGED <<workspace, revision, snapshots>>
      BY <1>2, <2>3 DEF Handler, StartAnalysis, CancelAnalysis, Query, Summary,
                        SummarizerReturns, Respond, Launch, viewVars
    <3>2. QED
      BY <3>1, RetentionFrame DEF ViewClosed
  <2>4. QED
    BY <2>1, <2>2, <2>3
<1>3. ASSUME NEW a \in Analyses, Analysis(a)
      PROVE  Retention'
  <2>1. CASE Commit(a) /\ Decision(a) = "published"
    BY <2>1, PublishKeepsRetention
  <2>2. CASE ~(Commit(a) /\ Decision(a) = "published")
    <3>1. UNCHANGED <<workspace, revision, snapshots>>
      BY <1>3, <2>2 DEF Analysis, Announce, WriteProgress, AnalyzeReturns, Commit, RecordFailure,
                        Report, WriteOutcome, viewVars
    <3>2. QED
      BY <3>1, RetentionFrame DEF ViewClosed
  <2>3. QED
    BY <2>1, <2>2
<1>4. CASE UNCHANGED vars
  BY <1>4, RetentionFrame DEF vars, viewVars, ViewClosed
<1>5. QED
  BY <1>1, <1>2, <1>3, <1>4, StepKinds

\* The retained snapshots are published analyses, and exactly the last ones.
LEMMA RetentionAlways == Spec => []Retention
<1> DEFINE Core == TypeInv /\ Ownership
<1>1. Init => Retention
  BY DEF Init, Retention, SnapshotsPublished, RetentionWindow, RetainedSnapshotsPerView,
         ViewClosed, SessionAssumption
<1>2. Core /\ Retention /\ [Next]_vars => Retention'
  <2> SUFFICES ASSUME Core, Retention, [Next]_vars PROVE Retention'
    OBVIOUS
  <2>1. QED
    BY StepUndoesNothing, StepRetention
<1>3. Spec => []Core
  BY OwnershipAlways
<1> HIDE DEF Core
<1>4. QED
  BY <1>1, <1>2, <1>3, PTL DEF Spec

\* A view retains exactly its last two publications, in revision order, and a
\* closed view none (engine.go commit, closeWorkspaceLocked).
THEOREM RetainsLastTwo == Spec => []RetentionWindow
<1>1. Retention => RetentionWindow
  BY DEF Retention
<1>2. QED
  BY <1>1, RetentionAlways, PTL
============================================================================
