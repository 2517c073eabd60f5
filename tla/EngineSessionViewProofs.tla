----------------------- MODULE EngineSessionViewProofs -----------------------
(***************************************************************************)
(* Theorems about what a client sees of a session: each view implements    *)
(* LanguageView, a query outlives one publication, and the output stream   *)
(* is in order and agrees with the load state.                             *)
(***************************************************************************)
EXTENDS EngineSessionProofs, EngineSessionImplements, FiniteSetTheorems

-----------------------------------------------------------------------------
(* The session implements LanguageView.                                    *)

\* Every view starts as a LanguageView starts.
LEMMA InitView == Init => \A v \in Views : View(v)!Init
<1> SUFFICES ASSUME Init, NEW v \in Views PROVE View(v)!Init
  OBVIOUS
<1>1. WorkspaceOf[v] \in Workspaces
  BY SessionAssumption
<1>2. Phase(v) = "idle" /\ revision[v] = 0 /\ failure[v] = "none"
  BY <1>1 DEF Init, Phase, ViewClosed
<1>3. Queryable(v) = {}
  BY DEF Init, Queryable
<1>4. QED
  BY <1>2, <1>3 DEF View!Init

\* The revisions of a view that keeps its snapshots stay queryable, as they are.
LEMMA QueryableStays ==
    ASSUME TypeInv, Ownership, Retention, NothingUndone, NEW v \in Views,
           snapshots'[v] = snapshots[v]
    PROVE  Queryable(v)' = Queryable(v)
<1>1. \A i \in DOMAIN snapshots[v] : revisionOf'[snapshots[v][i]] = revisionOf[snapshots[v][i]]
  BY RetainedStay
<1>2. QED
  BY <1>1 DEF Queryable

\* A view whose attempt, load state, snapshots and workspace a step leaves alone stutters.
LEMMA ViewFrame ==
    ASSUME TypeInv, Ownership, Retention, NothingUndone, NEW v \in Views,
           active'[v] = active[v], failure'[v] = failure[v], revision'[v] = revision[v],
           snapshots'[v] = snapshots[v], ViewClosed(v)' <=> ViewClosed(v)
    PROVE  ViewStep(v)
<1>1. Queryable(v)' = Queryable(v)
  BY QueryableStays
<1>2. Phase(v)' = Phase(v)
  BY DEF Phase
<1>3. QED
  BY <1>1, <1>2 DEF ViewStep, View!viewVars

\* Closing workspaces closes exactly the views of open ones and leaves the others alone.
LEMMA CloseIsViewStep ==
    ASSUME TypeInv, Ownership, Retention, NothingUndone, NEW v \in Views,
           NEW W \in SUBSET Workspaces, \A w \in W : workspace[w] = "open",
           CloseWorkspacesLocked(W), UNCHANGED <<active, failure, revision>>
    PROVE  ViewStep(v)
<1>0. WorkspaceOf[v] \in Workspaces
  BY SessionAssumption
<1>1. CASE WorkspaceOf[v] \in W
  <2>1. ~ViewClosed(v) /\ ViewClosed(v)' /\ snapshots'[v] = <<>>
    BY <1>0, <1>1 DEF CloseWorkspacesLocked, ViewClosed
  <2>2. Phase(v) # "closed" /\ Phase(v)' = "closed"
    BY <2>1 DEF Phase
  <2>3. Queryable(v)' = {}
    BY <2>1 DEF Queryable
  <2>4. View(v)!Close
    BY <2>2, <2>3 DEF View!Close
  <2>5. QED
    BY <2>4 DEF ViewStep, View!Next
<1>2. CASE WorkspaceOf[v] \notin W
  <2>1. snapshots'[v] = snapshots[v] /\ (ViewClosed(v)' <=> ViewClosed(v))
    BY <1>0, <1>2 DEF CloseWorkspacesLocked, ViewClosed
  <2>2. QED
    BY <2>1, ViewFrame
<1>3. QED
  BY <1>1, <1>2

\* Accepting a start begins an attempt of its view.
LEMMA StartIsViewStep ==
    ASSUME TypeInv, Ownership, Retention, NothingUndone, NEW v \in Views,
           NEW r \in Requests, StartAnalysis(r)
    PROVE  ViewStep(v)
<1>1. UNCHANGED <<workspace, failure, revision, snapshots>>
  BY DEF StartAnalysis
<1>2. ViewClosed(v)' <=> ViewClosed(v)
  BY <1>1 DEF ViewClosed
<1>3. CASE active'[v] = active[v]
  BY <1>1, <1>2, <1>3, ViewFrame
<1>4. CASE active'[v] # active[v]
  <2>1. PICK a \in Analyses : AcceptStart(r, request[r].on, a)
    BY <1>4 DEF StartAnalysis, RejectStart
  <2>2. active \in [Views -> Analyses \cup {None}]
    BY DEF TypeInv, TypeOK
  <2>3. v = request[r].on /\ active[v] = None /\ active'[v] = a /\ Registered(v)
    BY <1>4, <2>1, <2>2 DEF AcceptStart
  <2>4. Phase(v) = "idle" /\ Phase(v)' = "analyzing"
    BY <1>2, <2>3, SessionAssumption DEF Phase, Registered, ViewClosed
  <2>5. Queryable(v)' = Queryable(v)
    BY <1>1, QueryableStays
  <2>6. View(v)!Start
    BY <1>1, <2>4, <2>5 DEF View!Start
  <2>7. QED
    BY <2>6 DEF ViewStep, View!Next
<1>5. QED
  BY <1>3, <1>4

\* The revisions that can be queried once a snapshot is published: the new one, its
\* predecessor if there was one, and nothing that could not be queried before.
LEMMA PublishedQueryable ==
    ASSUME TypeInv, Ownership, Retention, NothingUndone, NEW v \in Views,
           NEW a \in Analyses, viewOf[a] = v, Commit(a), Decision(a) = "published"
    PROVE  /\ revision'[v] = revision[v] + 1
           /\ Queryable(v)' \subseteq Queryable(v) \cup {revision'[v]}
           /\ revision'[v] \in Queryable(v)'
           /\ revision[v] \in Queryable(v) => revision[v] \in Queryable(v)'
<1> DEFINE s == snapshots[v]
           n == Len(s)
           t == Retain(Append(s, a))
<1>1. /\ s \in Seq(Analyses) /\ n \in Nat /\ revision[v] \in Nat
      /\ snapshots \in [Views -> Seq(Analyses)] /\ revision \in [Views -> Nat]
      /\ revisionOf \in [Analyses -> Nat]
      /\ DOMAIN s = 1..n
  BY LenProperties DEF TypeInv, TypeOK
<1>2. /\ snapshots'[v] = t
      /\ revision'[v] = revision[v] + 1
      /\ revisionOf'[a] = revision[v] + 1
  BY <1>1 DEF Commit, Publish
<1>3. \A i \in 1..n : revisionOf'[s[i]] = revisionOf[s[i]] /\ revisionOf[s[i]] = revision[v] - n + i
  BY <1>1, RetainedStay DEF Retention, RetentionWindow
<1>4. /\ t \in Seq(Analyses)
      /\ n = 0 => Len(t) = 1 /\ t[1] = a
      /\ n > 0 => Len(t) = 2 /\ t[1] = s[n] /\ t[2] = a
  <2>1. s \in Seq(Analyses)
    BY <1>1
  <2> HIDE DEF s
  <2>2. QED
    BY <2>1, RetainAppend
<1>5. Queryable(v) = {revisionOf[s[i]] : i \in 1..n}
  BY <1>1 DEF Queryable
<1>6. Queryable(v)' = {revisionOf'[t[i]] : i \in DOMAIN t}
  BY <1>2 DEF Queryable
<1>7. DOMAIN t = 1..Len(t)
  BY <1>4, LenProperties
<1> DEFINE before == Queryable(v)
           after == Queryable(v)'
<1> HIDE DEF s, n, t, before, after
<1>8. CASE n = 0
  <2>1. Len(t) = 1 /\ t[1] = a
    BY <1>4, <1>8, Zenon
  <2>2. after = {revision[v] + 1}
    BY <1>2, <1>6, <1>7, <2>1 DEF after
  <2>3. before = {}
    BY <1>5, <1>8 DEF before
  <2>4. QED
    BY <1>2, <2>2, <2>3 DEF before, after
<1>9. CASE n > 0
  <2>1. Len(t) = 2 /\ t[1] = s[n] /\ t[2] = a
    BY <1>4, <1>9, Zenon
  <2>2. revisionOf'[s[n]] = revision[v] /\ revisionOf[s[n]] = revision[v]
    BY <1>1, <1>3, <1>9
  <2>3. after = {revision[v], revision[v] + 1}
    BY <1>2, <1>6, <1>7, <2>1, <2>2 DEF after
  <2>4. revision[v] \in before
    BY <1>1, <1>5, <1>9, <2>2 DEF before
  <2>5. QED
    BY <1>2, <2>3, <2>4 DEF before, after
<1>10. QED
  BY <1>1, <1>8, <1>9

\* A commit ends the attempt of its view: it publishes, fails, or gives up; in a view
\* that was closed meanwhile it changes nothing.
LEMMA CommitIsViewStep ==
    ASSUME TypeInv, Ownership, Retention, NothingUndone, NEW v \in Views,
           NEW a \in Analyses, Commit(a)
    PROVE  ViewStep(v)
<1> DEFINE u == viewOf[a]
<1>1. /\ u \in Views
      /\ active[u] = a
      /\ a # None
  BY SessionAssumption DEF Commit, Ownership, IssuedHaveViews, OneAnalysisPerView, Issued, Live, Terminal
<1>2. /\ active \in [Views -> Analyses \cup {None}]
      /\ failure \in [Views -> {"none", "loadFailed", "internal"}]
      /\ revision \in [Views -> Nat]
      /\ snapshots \in [Views -> Seq(Analyses)]
  BY DEF TypeInv, TypeOK
<1>3. /\ active' = [active EXCEPT ![u] = None]
      /\ workspace' = workspace
  BY DEF Commit
<1>4. ViewClosed(v)' <=> ViewClosed(v)
  BY <1>3 DEF ViewClosed
<1>5. CASE v # u
  <2>1. /\ active'[v] = active[v] /\ failure'[v] = failure[v]
        /\ revision'[v] = revision[v] /\ snapshots'[v] = snapshots[v]
    BY <1>1, <1>2, <1>3, <1>5 DEF Commit, Publish, RecordFailure
  <2>2. QED
    BY <1>4, <2>1, ViewFrame
<1>6. CASE v = u /\ Decision(a) = "published"
  <2>1. ~ViewClosed(v) /\ active[v] = a /\ active'[v] = None /\ failure'[v] = "none"
    BY <1>1, <1>2, <1>3, <1>6 DEF Decision, Commit, Publish
  <2>2. Phase(v) = "analyzing" /\ Phase(v)' = "idle"
    BY <1>1, <1>4, <2>1 DEF Phase
  <2>3. /\ revision'[v] = revision[v] + 1
        /\ Queryable(v)' \subseteq Queryable(v) \cup {revision'[v]}
        /\ revision'[v] \in Queryable(v)'
        /\ revision[v] \in Queryable(v) => revision[v] \in Queryable(v)'
    BY <1>6, PublishedQueryable
  <2>4. View(v)!Publish
    BY <2>1, <2>2, <2>3 DEF View!Publish
  <2>5. QED
    BY <2>4 DEF ViewStep, View!Next
<1>7. CASE v = u /\ Decision(a) # "published"
  <2>1. /\ UNCHANGED <<revision, revisionOf, snapshots>>
        /\ failure' = IF Decision(a) = "cancelled" THEN failure
                      ELSE [failure EXCEPT ![v] = Decision(a)]
    BY <1>7 DEF Commit, RecordFailure
  <2>2. Queryable(v)' = Queryable(v)
    BY <2>1, QueryableStays
  <2>3. active[v] = a /\ active'[v] = None
    BY <1>1, <1>2, <1>3, <1>7
  <2>4. CASE ViewClosed(v)
    <3>1. Decision(a) = "cancelled"
      BY <1>7, <2>4 DEF Decision
    <3>2. Phase(v) = "closed" /\ Phase(v)' = "closed"
      BY <1>4, <2>4 DEF Phase
    <3>3. QED
      BY <2>1, <2>2, <3>1, <3>2 DEF ViewStep, View!viewVars
  <2>5. CASE ~ViewClosed(v)
    <3>1. Phase(v) = "analyzing" /\ Phase(v)' = "idle"
      BY <1>1, <1>4, <2>3, <2>5 DEF Phase
    <3>2. CASE Decision(a) = "cancelled"
      <4>1. View(v)!GiveUp
        BY <2>1, <2>2, <3>1, <3>2 DEF View!GiveUp
      <4>2. QED
        BY <4>1 DEF ViewStep, View!Next
    <3>3. CASE Decision(a) # "cancelled"
      <4>1. Decision(a) \in {"loadFailed", "internal"}
        BY <1>7, <3>3 DEF Decision
      <4>2. failure'[v] = Decision(a)
        BY <1>2, <2>1, <3>3
      <4>3. View(v)!Fail
        BY <2>1, <2>2, <3>1, <4>1, <4>2 DEF View!Fail
      <4>4. QED
        BY <4>3 DEF ViewStep, View!Next
    <3>4. QED
      BY <3>2, <3>3
  <2>6. QED
    BY <2>4, <2>5
<1>8. QED
  BY <1>5, <1>6, <1>7

\* Every step of the session is a step of each view, or a stutter of it.
LEMMA StepIsViewStep ==
    ASSUME TypeInv, Ownership, Retention, NothingUndone, [Next]_vars, NEW v \in Views
    PROVE  ViewStep(v)
<1>0. WorkspaceOf[v] \in Workspaces
  BY SessionAssumption
<1>1. CASE LoopStep
  <2>1. CASE FinishShutdown
    <3> DEFINE W == {w \in Workspaces : workspace[w] = "open"}
    <3>1. W \in SUBSET Workspaces /\ \A w \in W : workspace[w] = "open"
      OBVIOUS
    <3>2. CloseWorkspacesLocked(W) /\ UNCHANGED <<active, failure, revision>>
      BY <2>1 DEF FinishShutdown
    <3> HIDE DEF W
    <3>3. QED
      BY <3>1, <3>2, CloseIsViewStep
  <2>2. CASE ~FinishShutdown
    <3>1. UNCHANGED <<workspace, active, failure, revision, snapshots>>
      BY <1>1, <2>2 DEF LoopStep, Initialize, BeginShutdown, CancelContext, Exit, FramingError,
                        ContextDone, LeaveLoop, Stop, Dispatch, viewVars
    <3>2. QED
      BY <3>1, ViewFrame DEF ViewClosed
  <2>3. QED
    BY <2>1, <2>2
<1>2. ASSUME NEW r \in Requests, Handler(r) \/ SummarizerReturns(r)
      PROVE  ViewStep(v)
  <2>1. CASE OpenWorkspace(r)
    <3>1. workspace \in [Workspaces -> {"unopened", "open", "closed"}]
      BY DEF TypeInv, TypeOK
    <3>2. (workspace'[WorkspaceOf[v]] = "closed") <=> (workspace[WorkspaceOf[v]] = "closed")
      BY <1>0, <2>1, <3>1 DEF OpenWorkspace
    <3>3. UNCHANGED <<active, failure, revision, snapshots>>
      BY <2>1 DEF OpenWorkspace, viewVars
    <3>4. QED
      BY <3>2, <3>3, ViewFrame DEF ViewClosed
  <2>2. CASE CloseWorkspace(r)
    <3>1. {request[r].on} \in SUBSET Workspaces /\ UNCHANGED <<active, failure, revision>>
      BY <2>2 DEF CloseWorkspace, Handling, TypeInv, RequestsWellFormed
    <3>2. CASE workspace[request[r].on] = "open" /\ CloseWorkspacesLocked({request[r].on})
      BY <3>1, <3>2, CloseIsViewStep
    <3>3. CASE UNCHANGED <<workspace, snapshots>>
      BY <3>1, <3>3, ViewFrame DEF ViewClosed
    <3>4. QED
      BY <2>2, <3>2, <3>3 DEF CloseWorkspace
  <2>3. CASE StartAnalysis(r)
    BY <2>3, StartIsViewStep
  <2>4. CASE ~OpenWorkspace(r) /\ ~CloseWorkspace(r) /\ ~StartAnalysis(r)
    <3>1. UNCHANGED <<workspace, active, failure, revision, snapshots>>
      BY <1>2, <2>4 DEF Handler, CancelAnalysis, Query, Summary, SummarizerReturns, Respond,
                        Launch, viewVars
    <3>2. QED
      BY <3>1, ViewFrame DEF ViewClosed
  <2>5. QED
    BY <2>1, <2>2, <2>3, <2>4
<1>3. ASSUME NEW a \in Analyses, Analysis(a)
      PROVE  ViewStep(v)
  <2>1. CASE Commit(a)
    BY <2>1, CommitIsViewStep
  <2>2. CASE ~Commit(a)
    <3>1. UNCHANGED <<workspace, active, failure, revision, snapshots>>
      BY <1>3, <2>2 DEF Analysis, Announce, WriteProgress, AnalyzeReturns, Report, WriteOutcome,
                        viewVars
    <3>2. QED
      BY <3>1, ViewFrame DEF ViewClosed
  <2>3. QED
    BY <2>1, <2>2
<1>4. CASE UNCHANGED vars
  BY <1>4, ViewFrame DEF vars, viewVars, ViewClosed
<1>5. QED
  BY <1>1, <1>2, <1>3, <1>4, StepKinds

\* Each view of the session behaves as its LanguageView, whatever the interleaving of
\* handlers, analyses, closing and shutdown (engine.go commit, closeWorkspaceLocked,
\* resolveSnapshot).
THEOREM SessionImplementsLanguageViews == Spec => ImplementsLanguageViews
<1> DEFINE Core == TypeInv /\ Ownership /\ Retention
           Start == \A v \in Views : View(v)!Init
           Step == \A v \in Views : ViewStep(v)
<1>1. Init => Start
  BY InitView
<1>2. Core /\ [Next]_vars => [Step]_vars
  <2> SUFFICES ASSUME Core, [Next]_vars PROVE Step
    OBVIOUS
  <2>1. NothingUndone
    BY StepUndoesNothing
  <2>2. QED
    BY <2>1, StepIsViewStep
<1>3. Spec => []Core
  BY OwnershipAlways, RetentionAlways, PTL
<1>4. ImplementsLanguageViews <=> (Start /\ [][Step]_vars)
  BY DEF ImplementsLanguageViews
<1> HIDE DEF Core, Start, Step
<1>5. QED
  BY <1>1, <1>2, <1>3, <1>4, PTL DEF Spec

-----------------------------------------------------------------------------
(* Publications are numbered, and a query is refused only when it is late. *)

\* Nothing but commit numbers a view, publishes, or changes why it last failed.
LEMMA OnlyCommitPublishes ==
    ASSUME TypeInv, Ownership, [Next]_vars, \A a \in Analyses : ~Commit(a)
    PROVE  /\ UNCHANGED <<revision, revisionOf, failure>>
           /\ \A a \in Analyses : Published(a)' <=> Published(a)
           /\ \A a \in Analyses : Terminal(a) => outcome'[a] = outcome[a]
<1>0. /\ outcome \in [Analyses -> {"none", "index", "loadError", "internalError"} \cup Decisions]
      /\ \A a \in Analyses : stage[a] = "analyzing" => ~Published(a) /\ ~Terminal(a)
  BY DEF TypeInv, TypeOK, Ownership, CommitDecides, Terminal, Published, Decisions
<1>1. CASE LoopStep \/ UNCHANGED vars
  <2>1. UNCHANGED <<revision, revisionOf, failure, outcome>>
    BY <1>1 DEF LoopStep, Initialize, BeginShutdown, FinishShutdown, CancelContext, Exit,
                FramingError, ContextDone, LeaveLoop, Stop, Dispatch, vars, viewVars, analysisVars
  <2>2. QED
    BY <2>1 DEF Published
<1>2. ASSUME NEW r \in Requests, Handler(r) \/ SummarizerReturns(r)
      PROVE  UNCHANGED <<revision, revisionOf, failure, outcome>>
  BY <1>2 DEF Handler, OpenWorkspace, CloseWorkspace, StartAnalysis, CancelAnalysis, Query,
              Summary, SummarizerReturns, Respond, Launch, viewVars, analysisVars
<1>3. ASSUME NEW b \in Analyses, Analysis(b)
      PROVE  /\ UNCHANGED <<revision, revisionOf, failure>>
             /\ \A a \in Analyses : Published(a)' <=> Published(a)
             /\ \A a \in Analyses : Terminal(a) => outcome'[a] = outcome[a]
  <2>1. UNCHANGED <<revision, revisionOf, failure>>
    BY <1>3 DEF Analysis, Announce, WriteProgress, AnalyzeReturns, Report, WriteOutcome, viewVars
  <2>2. CASE AnalyzeReturns(b)
    <3>1. PICK result \in {"index", "loadError", "internalError"} :
              outcome' = [outcome EXCEPT ![b] = result]
      BY <2>2 DEF AnalyzeReturns
    <3>2. stage[b] = "analyzing"
      BY <2>2 DEF AnalyzeReturns
    <3>3. QED
      BY <1>0, <2>1, <3>1, <3>2 DEF Published
  <2>3. CASE ~AnalyzeReturns(b)
    <3>1. outcome' = outcome
      BY <1>3, <2>3 DEF Analysis, Announce, WriteProgress, Report, WriteOutcome
    <3>2. QED
      BY <2>1, <3>1 DEF Published
  <2>4. QED
    BY <2>2, <2>3
<1>4. QED
  BY <1>1, <1>2, <1>3, StepKinds DEF Published

\* A publication takes the next revision of its view; any other commit takes none.
LEMMA CommitNumbers ==
    ASSUME TypeInv, Ownership, NEW a \in Analyses, Commit(a)
    PROVE  /\ viewOf[a] \in Views /\ viewOf' = viewOf
           /\ outcome'[a] = Decision(a) /\ ~Published(a)
           /\ \A b \in Analyses \ {a} : /\ outcome'[b] = outcome[b]
                                        /\ revisionOf'[b] = revisionOf[b]
           /\ \A v \in Views \ {viewOf[a]} : /\ revision'[v] = revision[v]
                                             /\ failure'[v] = failure[v]
           /\ Decision(a) = "published" =>
                 /\ revision'[viewOf[a]] = revision[viewOf[a]] + 1
                 /\ revisionOf'[a] = revision[viewOf[a]] + 1
                 /\ failure'[viewOf[a]] = "none"
           /\ Decision(a) # "published" =>
                 /\ revision' = revision
                 /\ revisionOf' = revisionOf
                 /\ failure'[viewOf[a]] = IF Decision(a) = "cancelled" THEN failure[viewOf[a]]
                                          ELSE Decision(a)
<1>1. viewOf[a] \in Views /\ ~Published(a)
  BY DEF Commit, Ownership, IssuedHaveViews, CommitDecides, Issued, Terminal, Published, Decisions
<1>2. /\ outcome \in [Analyses -> {"none", "index", "loadError", "internalError"} \cup Decisions]
      /\ revision \in [Views -> Nat]
      /\ revisionOf \in [Analyses -> Nat]
      /\ failure \in [Views -> {"none", "loadFailed", "internal"}]
  BY DEF TypeInv, TypeOK
<1>3. QED
  BY <1>1, <1>2 DEF Commit, Publish, RecordFailure

\* Numbering is kept: revisions of a view are given out once, in order.
LEMMA StepNumbering ==
    ASSUME TypeInv, Ownership, Numbering, NothingUndone, [Next]_vars
    PROVE  Numbering'
<1>0. /\ revision \in [Views -> Nat]
      /\ \A a \in Analyses : Published(a) => viewOf[a] \in Views /\ viewOf'[a] = viewOf[a]
  BY DEF TypeInv, TypeOK, NothingUndone, Ownership, CommitDecides, IssuedHaveViews, Published,
         Terminal, Issued, Decisions
<1>1. CASE \A a \in Analyses : ~Commit(a)
  <2>1. /\ UNCHANGED <<revision, revisionOf>>
        /\ \A a \in Analyses : Published(a)' <=> Published(a)
    BY <1>1, OnlyCommitPublishes
  <2>2. QED
    BY <1>0, <2>1 DEF Numbering
<1>2. ASSUME NEW a \in Analyses, Commit(a)
      PROVE  Numbering'
  <2>1. /\ viewOf[a] \in Views /\ viewOf' = viewOf /\ outcome'[a] = Decision(a) /\ ~Published(a)
        /\ \A b \in Analyses \ {a} : outcome'[b] = outcome[b] /\ revisionOf'[b] = revisionOf[b]
        /\ \A v \in Views \ {viewOf[a]} : revision'[v] = revision[v]
    BY <1>2, CommitNumbers
  <2>2. \A b \in Analyses \ {a} : Published(b)' <=> Published(b)
    BY <2>1 DEF Published
  <2>3. CASE Decision(a) = "published"
    <3>1. /\ revision'[viewOf[a]] = revision[viewOf[a]] + 1
          /\ revisionOf'[a] = revision[viewOf[a]] + 1
      BY <1>2, <2>3, CommitNumbers
    <3>2. Published(a)'
      BY <2>1, <2>3 DEF Published
    <3>3. \A b \in Analyses : IF Published(b)' THEN revisionOf'[b] \in 1..revision'[viewOf'[b]]
                                               ELSE revisionOf'[b] = 0
      <4> SUFFICES ASSUME NEW b \in Analyses
                   PROVE  IF Published(b)' THEN revisionOf'[b] \in 1..revision'[viewOf'[b]]
                                           ELSE revisionOf'[b] = 0
        OBVIOUS
      <4>1. CASE b = a
        BY <1>0, <2>1, <3>1, <3>2, <4>1
      <4>2. CASE b # a /\ viewOf[b] = viewOf[a]
        BY <1>0, <2>1, <2>2, <3>1, <4>2 DEF Numbering
      <4>3. CASE b # a /\ viewOf[b] # viewOf[a]
        BY <1>0, <2>1, <2>2, <4>3 DEF Numbering
      <4>4. QED
        BY <4>1, <4>2, <4>3
    <3>4. \A b, c \in Analyses :
              Published(b)' /\ Published(c)' /\ viewOf'[b] = viewOf'[c]
                  /\ revisionOf'[b] = revisionOf'[c] => b = c
      <4>1. \A b \in Analyses \ {a} :
                Published(b) /\ viewOf[b] = viewOf[a] => revisionOf'[b] # revisionOf'[a]
        BY <1>0, <2>1, <3>1 DEF Numbering
      <4>2. QED
        BY <2>1, <2>2, <4>1 DEF Numbering
    <3>5. QED
      BY <3>3, <3>4 DEF Numbering
  <2>4. CASE Decision(a) # "published"
    <3>1. revision' = revision /\ revisionOf' = revisionOf
      BY <1>2, <2>4, CommitNumbers
    <3>2. ~Published(a)'
      BY <2>1, <2>4 DEF Published
    <3>3. QED
      BY <2>1, <2>2, <3>1, <3>2 DEF Numbering
  <2>5. QED
    BY <2>3, <2>4
<1>3. QED
  BY <1>1, <1>2

\* A view is never numbered back, and a published analysis keeps its place in it.
LEMMA NumbersStay ==
    ASSUME TypeInv, Ownership, NothingUndone, [Next]_vars
    PROVE  /\ \A v \in Views : revision'[v] >= revision[v]
           /\ \A a \in Analyses : Published(a) =>
                 /\ Published(a)'
                 /\ viewOf[a] \in Views /\ viewOf'[a] = viewOf[a]
                 /\ revisionOf'[a] = revisionOf[a]
<1>0. revision \in [Views -> Nat]
  BY DEF TypeInv, TypeOK
<1>1. \A a \in Analyses : Published(a) =>
          /\ Published(a)'
          /\ viewOf[a] \in Views /\ viewOf'[a] = viewOf[a]
          /\ revisionOf'[a] = revisionOf[a]
  BY DEF NothingUndone, Ownership, CommitDecides, IssuedHaveViews, Published, Terminal, Issued,
         Decisions
<1>2. CASE \A a \in Analyses : ~Commit(a)
  BY <1>0, <1>1, <1>2, OnlyCommitPublishes
<1>3. ASSUME NEW a \in Analyses, Commit(a)
      PROVE  \A v \in Views : revision'[v] >= revision[v]
  BY <1>0, <1>3, CommitNumbers
<1>4. QED
  BY <1>1, <1>2, <1>3

\* A closed workspace is never opened again.
LEMMA ClosedStays ==
    ASSUME TypeInv, [Next]_vars
    PROVE  \A v \in Views : ViewClosed(v) => ViewClosed(v)'
<1>0. /\ workspace \in [Workspaces -> {"unopened", "open", "closed"}]
      /\ \A v \in Views : WorkspaceOf[v] \in Workspaces
  BY SessionAssumption DEF TypeInv, TypeOK
<1>1. CASE LoopStep \/ UNCHANGED vars
  BY <1>0, <1>1 DEF LoopStep, Initialize, BeginShutdown, FinishShutdown, CancelContext, Exit,
     FramingError, ContextDone, LeaveLoop, Stop, Dispatch, vars, CloseWorkspacesLocked, ViewClosed
<1>2. ASSUME NEW r \in Requests, Handler(r) \/ SummarizerReturns(r)
      PROVE  \A v \in Views : ViewClosed(v) => ViewClosed(v)'
  BY <1>0, <1>2 DEF Handler, OpenWorkspace, CloseWorkspace, StartAnalysis, CancelAnalysis, Query,
     Summary, SummarizerReturns, Respond, Launch, CloseWorkspacesLocked, ViewClosed
<1>3. ASSUME NEW a \in Analyses, Analysis(a)
      PROVE  \A v \in Views : ViewClosed(v) => ViewClosed(v)'
  BY <1>3 DEF Analysis, Announce, WriteProgress, AnalyzeReturns, Commit, Report, WriteOutcome,
     ViewClosed
<1>4. QED
  BY <1>1, <1>2, <1>3, StepKinds

Refusals == QueriesNamePublished /\ QueryOutlivesOnePublication

\* Two publications or more are between the snapshot a request names and its view.
LateBy(q) ==
    viewOf[q.analysis] = q.on /\ ~ViewClosed(q.on)
        => revision[q.on] >= revisionOf[q.analysis] + RetainedSnapshotsPerView

\* A step after which queries still name published snapshots, and that refuses only
\* a late one, keeps Refusals.
LEMMA RefusalsFrame ==
    ASSUME TypeInv, TypeInv', Ownership, Refusals, NothingUndone, [Next]_vars,
           \A r \in Requests :
               /\ request'[r].op \in {"query", "summary"} => Published(request'[r].analysis)
               /\ request'[r].reply = "snapshotUnavailable" =>
                     \/ /\ request[r].reply = "snapshotUnavailable"
                        /\ request'[r].op = request[r].op
                        /\ request'[r].on = request[r].on
                        /\ request'[r].analysis = request[r].analysis
                     \/ request'[r].op \in {"query", "summary"} /\ LateBy(request'[r])
    PROVE  Refusals'
<1>1. \A r \in Requests : request'[r].op \in {"query", "summary"} =>
          request'[r].on \in Views /\ request'[r].analysis \in Analyses
  BY DEF TypeInv, RequestsWellFormed
<1>2. \A r \in Requests : request'[r].reply = "snapshotUnavailable" =>
          request'[r].op \in {"query", "summary"} /\ LateBy(request'[r])
  BY DEF Refusals, QueriesNamePublished, QueryOutlivesOnePublication, LateBy
<1>3. QueriesNamePublished'
  BY <1>1, <1>2, NumbersStay DEF QueriesNamePublished
<1>4. ASSUME NEW r \in Requests, request'[r].reply = "snapshotUnavailable",
             viewOf'[request'[r].analysis] = request'[r].on,
             workspace'[WorkspaceOf[request'[r].on]] # "closed"
      PROVE  revision'[request'[r].on] >=
                 revisionOf'[request'[r].analysis] + RetainedSnapshotsPerView
  <2> DEFINE v == request'[r].on
             a == request'[r].analysis
  <2>1. v \in Views /\ a \in Analyses /\ Published(a) /\ LateBy(request'[r])
    BY <1>1, <1>2, <1>4
  <2>2. /\ viewOf'[a] = viewOf[a] /\ revisionOf'[a] = revisionOf[a]
        /\ revision'[v] >= revision[v]
        /\ ~ViewClosed(v)
    BY <1>4, <2>1, NumbersStay, ClosedStays DEF ViewClosed
  <2>3. revision[v] >= revisionOf[a] + RetainedSnapshotsPerView
    BY <1>4, <2>1, <2>2 DEF LateBy
  <2>4. revision[v] \in Nat /\ revision'[v] \in Nat /\ revisionOf[a] \in Nat
    BY <2>1 DEF TypeInv, TypeOK
  <2>5. QED
    BY <2>2, <2>3, <2>4 DEF RetainedSnapshotsPerView
<1>5. QueryOutlivesOnePublication'
  BY <1>4 DEF QueryOutlivesOnePublication, ViewClosed
<1>6. QED
  BY <1>3, <1>5 DEF Refusals

\* resolveSnapshot refuses a published snapshot of an open view only when two newer
\* ones are there.
LEMMA ResolveRefusesLate ==
    ASSUME TypeInv, Numbering, Retention, NEW q, q.on \in Views, q.analysis \in Analyses,
           Published(q.analysis), Resolve(q.on, q.analysis) = "snapshotUnavailable"
    PROVE  LateBy(q)
<1> DEFINE v == q.on
           a == q.analysis
           s == snapshots[v]
           n == Len(s)
<1> SUFFICES ASSUME viewOf[a] = v, ~ViewClosed(v),
                    ~(revision[v] >= revisionOf[a] + RetainedSnapshotsPerView)
             PROVE  FALSE
  BY DEF LateBy
<1>1. \A i \in DOMAIN s : s[i] # a
  BY DEF Resolve
<1>2. /\ s \in Seq(Analyses) /\ n \in Nat /\ DOMAIN s = 1..n
      /\ revision[v] \in Nat /\ revisionOf[a] \in Nat
  BY LenProperties DEF TypeInv, TypeOK
<1>3. /\ n = IF revision[v] < 2 THEN revision[v] ELSE 2
      /\ \A i \in 1..n : viewOf[s[i]] = v /\ revisionOf[s[i]] = revision[v] - n + i
      /\ \A i \in 1..n : Published(s[i])
      /\ \A i \in 1..n : s[i] \in Analyses
  <2>1. /\ n = IF revision[v] < 2 THEN revision[v] ELSE 2
        /\ \A i \in 1..n : viewOf[s[i]] = v /\ revisionOf[s[i]] = revision[v] - n + i
    BY <1>2 DEF Retention, RetentionWindow, RetainedSnapshotsPerView
  <2>2. \A i \in 1..n : Published(s[i])
    BY <1>2 DEF Retention, SnapshotsPublished, Published
  <2>3. \A i \in 1..n : s[i] \in Analyses
    BY <1>2, ElementOfSeq
  <2>4. QED
    BY <2>1, <2>2, <2>3
<1>4. revisionOf[a] \in 1..revision[v]
  BY DEF Numbering
<1>5. revisionOf[a] + 2 > revision[v]
  BY <1>2 DEF RetainedSnapshotsPerView
<1> DEFINE i == revisionOf[a] - (revision[v] - n)
<1> HIDE DEF s, n
<1>6. i \in 1..n /\ revisionOf[a] = revision[v] - n + i
  <2>1. i \in Int /\ revisionOf[a] = revision[v] - n + i
    BY <1>2
  <2>2. i <= n
    BY <1>2, <1>4
  <2>3. 1 <= i
    BY <1>2, <1>3, <1>4, <1>5
  <2>4. QED
    BY <1>2, <2>1, <2>2, <2>3
<1> HIDE DEF i
<1>7. revisionOf[s[i]] = revisionOf[a] /\ viewOf[s[i]] = viewOf[a]
  BY <1>2, <1>3, <1>4, <1>6
<1>8. s[i] = a
  BY <1>3, <1>6, <1>7 DEF Numbering
<1>9. QED
  BY <1>1, <1>2, <1>6, <1>8

\* Handlers refuse only late queries, and leave a request's operation as it is.
LEMMA HandlerRefusals ==
    ASSUME TypeInv, TypeInv', Ownership, Numbering, Retention, Refusals, NothingUndone,
           [Next]_vars, NEW r \in Requests, Handler(r) \/ SummarizerReturns(r)
    PROVE  Refusals'
<1>0. /\ request \in [Requests -> HandlerStates]
      /\ \A s \in Requests : request[s].op \in {"query", "summary"} => Published(request[s].analysis)
      /\ request[r].op \in {"query", "summary"} =>
            request[r].on \in Views /\ request[r].analysis \in Analyses
  BY DEF TypeInv, TypeOK, RequestsWellFormed, Refusals, QueriesNamePublished
<1> DEFINE reply == Resolve(request[r].on, request[r].analysis)
<1>1. CASE /\ request[r].op \in {"query", "summary"}
           /\ \/ Answer(r, reply)
              \/ request' = [request EXCEPT ![r].stage = "summarizing"]
  <2>1. reply = "snapshotUnavailable" => LateBy(request[r])
    BY <1>0, <1>1, ResolveRefusesLate
  <2>2. \A s \in Requests : /\ request'[s].op = request[s].op
                            /\ request'[s].on = request[s].on
                            /\ request'[s].analysis = request[s].analysis
                            /\ s # r => request'[s].reply = request[s].reply
    BY <1>0, <1>1 DEF Answer, HandlerStates
  <2>3. request'[r].reply \in {request[r].reply, reply}
    BY <1>0, <1>1 DEF Answer, HandlerStates
  <2>4. LateBy(request[r]) => LateBy(request'[r])
    BY <2>2 DEF LateBy
  <2>5. QED
    BY <1>0, <1>1, <2>1, <2>2, <2>3, <2>4, RefusalsFrame
<1>2. CASE \/ \E new \in Replies \ {"snapshotUnavailable"} : Answer(r, new)
           \/ request' = [request EXCEPT ![r].stage = "launching"]
           \/ request' = [request EXCEPT ![r] = NoRequest]
  <2>1. \A s \in Requests :
            /\ request'[s].op \in {"query", "summary"} =>
                  request'[s].op = request[s].op /\ request'[s].analysis = request[s].analysis
            /\ request'[s].reply = "snapshotUnavailable" =>
                  /\ request[s].reply = "snapshotUnavailable"
                  /\ request'[s].op = request[s].op
                  /\ request'[s].on = request[s].on
                  /\ request'[s].analysis = request[s].analysis
    BY <1>0, <1>2 DEF Answer, HandlerStates, NoRequest
  <2>2. QED
    BY <1>0, <2>1, RefusalsFrame
<1>3. ASSUME NEW a \in Analyses, AcceptStart(r, request[r].on, a), request[r].op = "start"
      PROVE  Refusals'
  <2>1. \A s \in Requests :
            /\ s # r => request'[s] = request[s]
            /\ s = r => request'[s].op = "start" /\ request'[s].reply = "started"
    BY <1>0, <1>3 DEF AcceptStart, HandlerStates
  <2>2. QED
    BY <1>0, <2>1, RefusalsFrame
<1>4. QED
  BY <1>1, <1>2, <1>3 DEF Handler, OpenWorkspace, CloseWorkspace, StartAnalysis, RejectStart,
     CancelAnalysis, Query, Summary, SummarizerReturns, Respond, Launch, Handling, Replies

\* The loop hands on only queries of published snapshots; analyses answer nothing.
LEMMA OthersRefusals ==
    ASSUME TypeInv, TypeInv', Ownership, Numbering, Refusals, NothingUndone, [Next]_vars,
           LoopStep \/ (\E a \in Analyses : Analysis(a)) \/ UNCHANGED vars
    PROVE  Refusals'
<1>0. /\ request \in [Requests -> HandlerStates]
      /\ \A s \in Requests : request[s].op \in {"query", "summary"} => Published(request[s].analysis)
  BY DEF TypeInv, TypeOK, Refusals, QueriesNamePublished
<1>1. CASE request' = request
  BY <1>0, <1>1, RefusalsFrame
<1>2. ASSUME NEW r \in Requests, NEW q \in ClientRequests, Dispatch(r, q)
      PROVE  Refusals'
  <2>1. q.reply = "none" /\ (q.op \in {"query", "summary"} => q.analysis \in Analyses)
    BY DEF ClientRequests, Message
  <2>2. q.op \in {"query", "summary"} => Published(q.analysis)
    BY <1>2, <2>1 DEF Dispatch, Numbering
  <2>3. request' = [request EXCEPT ![r] = q]
    BY <1>2 DEF Dispatch
  <2>4. QED
    BY <1>0, <2>1, <2>2, <2>3, RefusalsFrame
<1>3. QED
  BY <1>1, <1>2 DEF LoopStep, Initialize, BeginShutdown, FinishShutdown, CancelContext, Exit,
     FramingError, ContextDone, LeaveLoop, Stop, Analysis, Announce, WriteProgress,
     AnalyzeReturns, Commit, Report, WriteOutcome, vars

\* Revisions and refusals, in every state.
LEMMA RefusalsAlways == Spec => [](Numbering /\ Refusals)
<1> DEFINE Core == TypeInv /\ Ownership /\ Retention
           I == Numbering /\ Refusals
<1>1. Init => I
  BY DEF Init, Numbering, Refusals, QueriesNamePublished, QueryOutlivesOnePublication, Published,
     NoRequest
<1>2. Core /\ Core' /\ I /\ [Next]_vars => I'
  <2> SUFFICES ASSUME Core, Core', I, [Next]_vars PROVE I'
    OBVIOUS
  <2>1. NothingUndone
    BY StepUndoesNothing
  <2>2. Numbering'
    BY <2>1, StepNumbering
  <2>3. Refusals'
    BY <2>1, StepKinds, HandlerRefusals, OthersRefusals
  <2>4. QED
    BY <2>2, <2>3
<1>3. Spec => []Core
  BY OwnershipAlways, RetentionAlways, PTL
<1> HIDE DEF Core, I
<1>4. Spec => []I
  BY <1>1, <1>2, <1>3, PTL DEF Spec
<1>5. QED
  BY <1>4 DEF I

\* A query of a published snapshot of an open view is refused only when two newer
\* snapshots were published before its handler took the lock (engine.go
\* resolveSnapshot, commit).
THEOREM QueriesOutliveOnePublication == Spec => []QueryOutlivesOnePublication
<1>1. Refusals => QueryOutlivesOnePublication
  BY DEF Refusals
<1>2. QED
  BY <1>1, RefusalsAlways, PTL

-----------------------------------------------------------------------------
(* The output stream: what a step adds to it.                              *)

\* A write appends one entry to the stream of one view.
LEMMA Written ==
    ASSUME TypeInv, NEW a \in Analyses, viewOf[a] \in Views, NEW kind, Write(a, kind)
    PROVE  /\ \A v \in Views : Len(wire[v]) \in Nat /\ DOMAIN wire[v] = 1..Len(wire[v])
           /\ \A v \in Views \ {viewOf[a]} : wire'[v] = wire[v]
           /\ DOMAIN wire'[viewOf[a]] = 1..(Len(wire[viewOf[a]]) + 1)
           /\ Len(wire'[viewOf[a]]) = Len(wire[viewOf[a]]) + 1
           /\ \A i \in 1..Len(wire[viewOf[a]]) : wire'[viewOf[a]][i] = wire[viewOf[a]][i]
           /\ wire'[viewOf[a]][Len(wire[viewOf[a]]) + 1] = Entry(a, kind)
<1>1. wire \in [Views -> Seq(WireEntries)]
  BY DEF TypeInv, TypeOK
<1>2. \A v \in Views : Len(wire[v]) \in Nat /\ DOMAIN wire[v] = 1..Len(wire[v])
  BY <1>1, LenProperties
<1>3. wire' = [wire EXCEPT ![viewOf[a]] = Append(@, Entry(a, kind))]
  BY DEF Write
<1>4. /\ \A v \in Views \ {viewOf[a]} : wire'[v] = wire[v]
      /\ wire'[viewOf[a]] = Append(wire[viewOf[a]], Entry(a, kind))
  BY <1>1, <1>3
<1> DEFINE w == wire[viewOf[a]]
<1>5. w \in Seq(WireEntries)
  BY <1>1
<1> HIDE DEF w
<1>6. /\ DOMAIN Append(w, Entry(a, kind)) = 1..(Len(w) + 1)
      /\ Len(Append(w, Entry(a, kind))) = Len(w) + 1
      /\ \A i \in 1..Len(w) : Append(w, Entry(a, kind))[i] = w[i]
      /\ Append(w, Entry(a, kind))[Len(w) + 1] = Entry(a, kind)
  BY <1>5
<1>7. QED
  BY <1>2, <1>4, <1>6 DEF w

\* Entries are about analyses.
LEMMA EntriesAbout ==
    ASSUME TypeInv
    PROVE  \A v \in Views : \A i \in DOMAIN wire[v] : wire[v][i].about \in Analyses
<1> SUFFICES ASSUME NEW v \in Views, NEW i \in DOMAIN wire[v]
             PROVE  wire[v][i].about \in Analyses
  OBVIOUS
<1>1. wire[v] \in Seq(WireEntries)
  BY DEF TypeInv, TypeOK
<1>2. wire[v][i] \in WireEntries
  BY <1>1, ElementOfSeq
<1>3. QED
  BY <1>2 DEF WireEntries

\* What writes: the response of an accepted start, and the two notifications of an
\* analysis; nothing else does.
LEMMA Writers ==
    ASSUME TypeInv, Ownership, [Next]_vars
    PROVE  \/ wire' = wire
           \/ \E r \in Requests : Respond(r) /\ request[r].reply = "started"
           \/ \E a \in Analyses : WriteProgress(a) \/ WriteOutcome(a)
<1>1. CASE LoopStep \/ UNCHANGED vars
  BY <1>1 DEF LoopStep, Initialize, BeginShutdown, FinishShutdown, CancelContext, Exit,
              FramingError, ContextDone, LeaveLoop, Stop, Dispatch, vars, outputVars
<1>2. ASSUME NEW r \in Requests, Handler(r) \/ SummarizerReturns(r)
      PROVE  wire' = wire \/ (Respond(r) /\ request[r].reply = "started")
  <2>1. CASE Respond(r)
    <3>1. request[r].reply = "started" \/ wire' = wire
      BY <2>1 DEF Respond
    <3>2. QED
      BY <2>1, <3>1
  <2>2. CASE ~Respond(r)
    BY <1>2, <2>2 DEF Handler, OpenWorkspace, CloseWorkspace, StartAnalysis, CancelAnalysis,
                      Query, Summary, SummarizerReturns, Launch, outputVars
  <2>3. QED
    BY <2>1, <2>2
<1>3. ASSUME NEW a \in Analyses, Analysis(a)
      PROVE  wire' = wire \/ WriteProgress(a) \/ WriteOutcome(a)
  BY <1>3 DEF Analysis, Announce, AnalyzeReturns, Commit, Report, outputVars
<1>4. QED
  BY <1>1, <1>2, <1>3, StepKinds

\* An analysis whose handler still owes the start response is registered, and the
\* response is about it.
LEMMA StartResponded ==
    ASSUME TypeInv, Ownership, NEW r \in Requests, Respond(r), request[r].reply = "started"
    PROVE  LET a == request[r].analysis
           IN  /\ a \in Analyses /\ viewOf[a] \in Views /\ stage[a] = "registered"
               /\ Write(a, "started")
               /\ UNCHANGED <<stage, viewOf, emit, outcome, revision, revisionOf, failure, closed>>
               /\ \A s \in Requests \ {r} : request'[s] = request[s]
               /\ request'[r].analysis = a
<1>1. /\ request[r].analysis \in Analyses
      /\ stage[request[r].analysis] = "registered"
      /\ viewOf[request[r].analysis] \in Views
  BY DEF TypeInv, RequestsWellFormed, Ownership, StartsPending, IssuedHaveViews, Issued
<1>2. request \in [Requests -> HandlerStates]
  BY DEF TypeInv, TypeOK
<1>3. QED
  BY <1>1, <1>2 DEF Respond, serveVars, viewVars, analysisVars, HandlerStates

\* Streams only grow.
LEMMA WireGrows ==
    ASSUME TypeInv, Ownership, [Next]_vars, NEW v \in Views, NEW i \in DOMAIN wire[v]
    PROVE  i \in DOMAIN wire'[v] /\ wire'[v][i] = wire[v][i]
<1>1. ASSUME NEW a \in Analyses, viewOf[a] \in Views, NEW kind, Write(a, kind)
      PROVE  i \in DOMAIN wire'[v] /\ wire'[v][i] = wire[v][i]
  <2>1. CASE v # viewOf[a]
    <3>1. wire'[v] = wire[v]
      BY <1>1, <2>1, Written
    <3>2. QED
      BY <3>1
  <2>2. CASE v = viewOf[a]
    BY <1>1, <2>2, Written
  <2>3. QED
    BY <2>1, <2>2
<1>2. CASE wire' = wire
  BY <1>2
<1>3. ASSUME NEW r \in Requests, Respond(r), request[r].reply = "started"
      PROVE  i \in DOMAIN wire'[v] /\ wire'[v][i] = wire[v][i]
  BY <1>1, <1>3, StartResponded
<1>4. ASSUME NEW a \in Analyses, WriteProgress(a) \/ WriteOutcome(a)
      PROVE  i \in DOMAIN wire'[v] /\ wire'[v][i] = wire[v][i]
  <2>1. viewOf[a] \in Views
    BY <1>4 DEF WriteProgress, WriteOutcome, Ownership, IssuedHaveViews, Issued
  <2>2. QED
    BY <1>1, <1>4, <2>1 DEF WriteProgress, WriteOutcome
<1>5. QED
  BY <1>2, <1>3, <1>4, Writers

\* A start response stays written.
LEMMA StartStaysWritten ==
    ASSUME TypeInv, Ownership, NothingUndone, [Next]_vars, NEW a \in Analyses, Issued(a),
           StartWritten(a)
    PROVE  StartWritten(a)'
<1>1. viewOf[a] \in Views /\ viewOf'[a] = viewOf[a]
  BY DEF Ownership, IssuedHaveViews, NothingUndone
<1>2. QED
  BY <1>1, WireGrows DEF StartWritten, Entry

-----------------------------------------------------------------------------
(* The start response comes first.                                         *)

\* Only a handler that wrote the start response launches the analysis.
LEMMA StepLaunches ==
    ASSUME TypeInv, Ownership, LaunchedAfterResponse, NothingUndone, [Next]_vars
    PROVE  LaunchedAfterResponse'
<1>0. /\ request \in [Requests -> HandlerStates]
      /\ stage \in [Analyses -> Stages]
      /\ \A r \in Requests : request[r].stage = "launching" =>
            /\ request[r].analysis \in Analyses
            /\ Issued(request[r].analysis)
            /\ stage[request[r].analysis] = "registered"
            /\ StartWritten(request[r].analysis)
  BY DEF TypeInv, TypeOK, RequestsWellFormed, Ownership, StartsPending, Issued,
         LaunchedAfterResponse
<1>1. \A a \in Analyses : Issued(a) /\ StartWritten(a) => StartWritten(a)'
  BY StartStaysWritten
<1>2. \A a \in Analyses : stage'[a] \notin {"unissued", "registered"} =>
          \/ stage[a] \notin {"unissued", "registered"}
          \/ StartWritten(a) /\ Issued(a)
  <2>1. CASE LoopStep \/ UNCHANGED vars
    BY <2>1 DEF LoopStep, Initialize, BeginShutdown, FinishShutdown, CancelContext, Exit,
                FramingError, ContextDone, LeaveLoop, Stop, Dispatch, vars, analysisVars
  <2>2. ASSUME NEW r \in Requests, Handler(r) \/ SummarizerReturns(r), NEW a \in Analyses,
               stage'[a] \notin {"unissued", "registered"}
        PROVE  \/ stage[a] \notin {"unissued", "registered"}
               \/ StartWritten(a) /\ Issued(a)
    <3>1. CASE Launch(r)
      BY <1>0, <2>2, <3>1 DEF Launch
    <3>2. CASE ~Launch(r)
      BY <1>0, <2>2, <3>2 DEF Handler, OpenWorkspace, CloseWorkspace, StartAnalysis, RejectStart,
         AcceptStart, CancelAnalysis, Query, Summary, SummarizerReturns, Respond, analysisVars
    <3>3. QED
      BY <3>1, <3>2
  <2>3. ASSUME NEW b \in Analyses, Analysis(b), NEW a \in Analyses,
               stage'[a] \notin {"unissued", "registered"}
        PROVE  stage[a] \notin {"unissued", "registered"}
    BY <1>0, <2>3 DEF Analysis, Announce, WriteProgress, AnalyzeReturns, Commit, Report,
       WriteOutcome, Finish
  <2>4. QED
    BY <2>1, <2>2, <2>3, StepKinds
<1>3. \A a \in Analyses : stage'[a] \notin {"unissued", "registered"} => StartWritten(a)'
  BY <1>1, <1>2 DEF LaunchedAfterResponse, Issued
<1>4. \A r \in Requests : request'[r].stage = "launching" =>
          \/ request[r].stage = "launching" /\ request'[r].analysis = request[r].analysis
          \/ Respond(r) /\ request[r].reply = "started"
  <2>1. CASE LoopStep \/ UNCHANGED vars
    BY <1>0, <2>1 DEF LoopStep, Initialize, BeginShutdown, FinishShutdown, CancelContext, Exit,
       FramingError, ContextDone, LeaveLoop, Stop, Dispatch, vars, ClientRequests, Message
  <2>2. ASSUME NEW r \in Requests, Handler(r) \/ SummarizerReturns(r), NEW s \in Requests,
               request'[s].stage = "launching"
        PROVE  \/ request[s].stage = "launching" /\ request'[s].analysis = request[s].analysis
               \/ Respond(s) /\ request[s].reply = "started"
    <3>1. CASE s # r
      BY <1>0, <2>2, <3>1 DEF Handler, OpenWorkspace, CloseWorkspace, StartAnalysis, RejectStart,
         AcceptStart, CancelAnalysis, Query, Summary, SummarizerReturns, Respond, Launch, Answer
    <3>2. CASE s = r
      BY <1>0, <2>2, <3>2 DEF Handler, OpenWorkspace, CloseWorkspace, StartAnalysis, RejectStart,
         AcceptStart, CancelAnalysis, Query, Summary, SummarizerReturns, Respond, Launch, Answer,
         NoRequest, HandlerStates
    <3>3. QED
      BY <3>1, <3>2
  <2>3. ASSUME NEW b \in Analyses, Analysis(b)
        PROVE  request' = request
    BY <2>3 DEF Analysis, Announce, WriteProgress, AnalyzeReturns, Commit, Report, WriteOutcome
  <2>4. QED
    BY <2>1, <2>2, <2>3, StepKinds
<1>5. ASSUME NEW r \in Requests, Respond(r), request[r].reply = "started",
             NEW a \in Analyses, a = request'[r].analysis
      PROVE  StartWritten(a)'
  <2> DEFINE w == wire[viewOf[a]]
  <2>1. viewOf[a] \in Views /\ viewOf' = viewOf /\ Write(a, "started")
    BY <1>5, StartResponded
  <2>2. /\ Len(w) + 1 \in DOMAIN wire'[viewOf[a]]
        /\ wire'[viewOf[a]][Len(w) + 1] = Entry(a, "started")
    BY <2>1, Written
  <2>3. QED
    BY <2>1, <2>2 DEF StartWritten, Entry
<1>6. \A r \in Requests : request'[r].stage = "launching" =>
          \E a \in Analyses : a = request'[r].analysis /\ StartWritten(a)'
  <2> SUFFICES ASSUME NEW r \in Requests, request'[r].stage = "launching"
               PROVE  \E a \in Analyses : a = request'[r].analysis /\ StartWritten(a)'
    OBVIOUS
  <2>1. CASE request[r].stage = "launching" /\ request'[r].analysis = request[r].analysis
    BY <1>0, <1>1, <2>1
  <2>2. CASE Respond(r) /\ request[r].reply = "started"
    BY <1>5, <2>2, StartResponded
  <2>3. QED
    BY <1>4, <2>1, <2>2
<1>7. QED
  BY <1>3, <1>6 DEF LaunchedAfterResponse, StartWritten

\* Every notification follows the start response of its analysis.
LEMMA StepStartFirst ==
    ASSUME TypeInv, Ownership, LaunchedAfterResponse, StartResponseFirst, [Next]_vars
    PROVE  StartResponseFirst'
<1>1. ASSUME NEW a \in Analyses, viewOf[a] \in Views, NEW kind, Write(a, kind),
             kind # "started" => StartWritten(a)
      PROVE  StartResponseFirst'
  <2> DEFINE u == viewOf[a]
             n == Len(wire[u])
  <2>1. /\ \A v \in Views : Len(wire[v]) \in Nat /\ DOMAIN wire[v] = 1..Len(wire[v])
        /\ \A v \in Views \ {u} : wire'[v] = wire[v]
        /\ DOMAIN wire'[u] = 1..(n + 1)
        /\ \A i \in 1..n : wire'[u][i] = wire[u][i]
        /\ wire'[u][n + 1] = Entry(a, kind)
    BY <1>1, Written
  <2>2. SUFFICES ASSUME NEW v \in Views, NEW j \in DOMAIN wire'[v], wire'[v][j].kind # "started"
                 PROVE  \E i \in 1..(j - 1) : wire'[v][i] = Entry(wire'[v][j].about, "started")
    BY DEF StartResponseFirst, Entry
  <2>3. CASE v # u
    <3>1. wire'[v] = wire[v]
      BY <2>1, <2>3
    <3>2. QED
      BY <2>2, <3>1 DEF StartResponseFirst
  <2>4. CASE v = u /\ j \in 1..n
    <3>1. PICK i \in 1..(j - 1) : wire[u][i] = Entry(wire[u][j].about, "started")
      BY <1>1, <2>1, <2>2, <2>4 DEF StartResponseFirst
    <3>2. i \in 1..n
      BY <1>1, <2>1, <2>4
    <3>3. QED
      BY <2>1, <2>4, <3>1, <3>2
  <2>5. CASE v = u /\ j = n + 1
    <3>1. StartWritten(a) /\ wire'[v][j].about = a
      BY <1>1, <2>1, <2>2, <2>5 DEF Entry
    <3>2. PICK i \in 1..n : wire[u][i] = Entry(a, "started")
      BY <1>1, <2>1, <3>1 DEF StartWritten
    <3>3. i \in 1..(j - 1)
      BY <1>1, <2>1, <2>5
    <3>4. QED
      BY <2>1, <2>5, <3>1, <3>2, <3>3
  <2>6. QED
    BY <1>1, <2>1, <2>2, <2>3, <2>4, <2>5
<1>2. CASE wire' = wire
  BY <1>2 DEF StartResponseFirst
<1>3. ASSUME NEW r \in Requests, Respond(r), request[r].reply = "started"
      PROVE  StartResponseFirst'
  BY <1>1, <1>3, StartResponded
<1>4. ASSUME NEW a \in Analyses, WriteProgress(a) \/ WriteOutcome(a)
      PROVE  StartResponseFirst'
  <2>1. viewOf[a] \in Views /\ StartWritten(a)
    BY <1>4 DEF WriteProgress, WriteOutcome, Ownership, IssuedHaveViews, Issued,
                LaunchedAfterResponse
  <2>2. QED
    BY <1>1, <1>4, <2>1 DEF WriteProgress, WriteOutcome
<1>5. QED
  BY <1>2, <1>3, <1>4, Writers

-----------------------------------------------------------------------------
(* The emit lock.                                                          *)

\* The stages of an analysis that has taken its first lock.
Past == {"analyzing", "analyzed", "committed", "reporting", "done"}

\* The loop and the handlers move an analysis no further than its launch.
LEMMA HandlersOnlyLaunch ==
    ASSUME TypeInv, Ownership,
           LoopStep \/ (\E r \in Requests : Handler(r) \/ SummarizerReturns(r)) \/ UNCHANGED vars
    PROVE  /\ emit' = emit
           /\ \A a \in Analyses : /\ stage[a] \in Past \cup {"announcing"} => stage'[a] = stage[a]
                                  /\ stage'[a] \in Past \cup {"announcing"} => stage'[a] = stage[a]
<1>0. stage \in [Analyses -> Stages]
  BY DEF TypeInv, TypeOK
<1>1. CASE LoopStep \/ UNCHANGED vars
  BY <1>1 DEF LoopStep, Initialize, BeginShutdown, FinishShutdown, CancelContext, Exit,
              FramingError, ContextDone, LeaveLoop, Stop, Dispatch, vars, analysisVars
<1>2. ASSUME NEW r \in Requests, Handler(r) \/ SummarizerReturns(r)
      PROVE  /\ emit' = emit
             /\ \A a \in Analyses : /\ stage[a] \in Past \cup {"announcing"} => stage'[a] = stage[a]
                                    /\ stage'[a] \in Past \cup {"announcing"} => stage'[a] = stage[a]
  <2>1. CASE Launch(r)
    <3>1. /\ stage[request[r].analysis] = "registered"
          /\ stage' = [stage EXCEPT ![request[r].analysis] = "launched"]
          /\ emit' = emit
      BY <2>1 DEF Launch, TypeInv, RequestsWellFormed, Ownership, StartsPending
    <3>2. QED
      BY <1>0, <3>1 DEF Past
  <2>2. CASE StartAnalysis(r)
    BY <1>0, <2>2 DEF StartAnalysis, RejectStart, AcceptStart, Issued, Past
  <2>3. CASE ~Launch(r) /\ ~StartAnalysis(r)
    BY <1>2, <2>3 DEF Handler, OpenWorkspace, CloseWorkspace, CancelAnalysis, Query, Summary,
                      SummarizerReturns, Respond, analysisVars
  <2>4. QED
    BY <2>1, <2>2, <2>3
<1>3. QED
  BY <1>1, <1>2

\* No analysis goes back: what has its first lock behind it keeps it behind it, and
\* what is done stays done.
LEMMA StagesAdvance ==
    ASSUME TypeInv, Ownership, [Next]_vars, NEW a \in Analyses
    PROVE  /\ stage[a] \in Past => stage'[a] \in Past
           /\ stage[a] = "done" => stage'[a] = "done"
<1>0. stage \in [Analyses -> Stages]
  BY DEF TypeInv, TypeOK
<1>1. CASE LoopStep \/ (\E r \in Requests : Handler(r) \/ SummarizerReturns(r)) \/ UNCHANGED vars
  <2>1. stage[a] \in Past \cup {"announcing"} => stage'[a] = stage[a]
    BY <1>1, HandlersOnlyLaunch
  <2>2. QED
    BY <2>1 DEF Past
<1>2. ASSUME NEW b \in Analyses, Analysis(b)
      PROVE  /\ stage[a] \in Past => stage'[a] \in Past
             /\ stage[a] = "done" => stage'[a] = "done"
  BY <1>0, <1>2 DEF Analysis, Announce, WriteProgress, AnalyzeReturns, Commit, Report,
                    WriteOutcome, Finish, Past
<1>3. QED
  BY <1>1, <1>2, StepKinds

\* Two analyses of a view are never both between their start and their commit.
LEMMA OneLivePerView ==
    ASSUME Ownership, NEW a \in Analyses, NEW b \in Analyses, Live(a), Live(b),
           viewOf[a] = viewOf[b]
    PROVE  a = b
BY DEF Ownership, OneAnalysisPerView

\* The emit lock and what its holder may rely on are kept.
LEMMA StepEmit ==
    ASSUME TypeInv, Ownership, EmitIsHeld, NothingUndone, [Next]_vars
    PROVE  EmitIsHeld'
<1>0. /\ stage \in [Analyses -> Stages]
      /\ emit \in [Views -> Analyses \cup {None}]
      /\ None \notin Analyses
      /\ \A a \in Analyses : stage[a] # "unissued" => viewOf[a] \in Views /\ viewOf'[a] = viewOf[a]
      /\ \A a \in Analyses : Published(a) => Terminal(a)
  BY SessionAssumption DEF TypeInv, TypeOK, NothingUndone, Ownership, IssuedHaveViews, Issued,
     CommitDecides, Published, Decisions
<1> DEFINE Holding == {"announcing", "committed", "reporting"}
           Committed == {"committed", "reporting"}
           Running == {"analyzing", "analyzed"}
<1>1. CASE LoopStep \/ (\E r \in Requests : Handler(r) \/ SummarizerReturns(r)) \/ UNCHANGED vars
  <2>1. /\ emit' = emit
        /\ \A a \in Analyses : stage'[a] \in Past \cup {"announcing"} => stage'[a] = stage[a]
    BY <1>1, HandlersOnlyLaunch
  <2>2. \A a \in Analyses : ~Commit(a)
    <3> SUFFICES ASSUME NEW a \in Analyses, Commit(a) PROVE FALSE
      OBVIOUS
    <3>1. stage[a] = "analyzed" /\ stage'[a] = "committed"
      BY <1>0 DEF Commit
    <3>2. QED
      BY <2>1, <3>1 DEF Past
  <2>3. /\ UNCHANGED <<revision, revisionOf>>
        /\ \A a \in Analyses : Published(a)' <=> Published(a)
    BY <2>2, OnlyCommitPublishes
  <2>4. QED
    BY <1>0, <2>1, <2>3 DEF EmitIsHeld, Past
<1>2. ASSUME NEW a \in Analyses, Analysis(a), ~Commit(a)
      PROVE  EmitIsHeld'
  <2> DEFINE u == viewOf[a]
  <2>0. stage[a] # "unissued" /\ u \in Views
    BY <1>0, <1>2 DEF Analysis, Announce, WriteProgress, AnalyzeReturns, Report, WriteOutcome
  <2>1. \A b \in Analyses : ~Commit(b)
    <3> SUFFICES ASSUME NEW b \in Analyses, Commit(b) PROVE FALSE
      OBVIOUS
    <3>1. stage[b] = "analyzed" /\ stage'[b] = "committed"
      BY <1>0 DEF Commit
    <3>2. QED
      BY <1>0, <1>2, <3>1 DEF Analysis, Announce, WriteProgress, AnalyzeReturns, Report,
                              WriteOutcome, Finish
  <2>2. /\ UNCHANGED <<revision, revisionOf>>
        /\ \A b \in Analyses : Published(b)' <=> Published(b)
    BY <2>1, OnlyCommitPublishes
  <2>3. \A b \in Analyses \ {a} : stage'[b] = stage[b]
    BY <1>0, <1>2 DEF Analysis, Announce, WriteProgress, AnalyzeReturns, Report, WriteOutcome,
                      Finish
  <2>4. CASE Announce(a)
    <3>1. /\ emit[u] = None
          /\ \/ stage'[a] = "analyzing" /\ emit' = emit
             \/ stage'[a] = "announcing" /\ emit' = [emit EXCEPT ![u] = a]
      BY <1>0, <2>4 DEF Announce
    <3>2. \A b \in Analyses \ {a} : stage[b] \in Holding => viewOf[b] # u
      BY <1>0, <3>1 DEF EmitIsHeld
    <3>3. QED
      BY <1>0, <2>0, <2>2, <2>3, <3>1, <3>2 DEF EmitIsHeld
  <2>5. CASE WriteProgress(a)
    <3>1. /\ emit[u] = a /\ stage'[a] = "analyzing"
          /\ emit' = [emit EXCEPT ![u] = None]
      BY <1>0, <2>5 DEF WriteProgress, EmitIsHeld
    <3>2. \A b \in Analyses \ {a} : stage[b] \in Holding => viewOf[b] # u
      BY <3>1 DEF EmitIsHeld
    <3>3. QED
      BY <1>0, <2>0, <2>2, <2>3, <3>1, <3>2 DEF EmitIsHeld
  <2>6. CASE AnalyzeReturns(a)
    <3>1. stage[a] = "analyzing" /\ stage'[a] = "analyzed" /\ emit' = emit
      BY <1>0, <2>6 DEF AnalyzeReturns
    <3>2. QED
      BY <1>0, <2>0, <2>2, <2>3, <3>1 DEF EmitIsHeld
  <2>7. CASE Report(a) /\ ~closed
    <3>1. stage[a] = "committed" /\ stage'[a] = "reporting" /\ emit' = emit
      BY <1>0, <2>7 DEF Report
    <3>2. QED
      BY <1>0, <2>0, <2>2, <2>3, <3>1 DEF EmitIsHeld
  <2>8. CASE (Report(a) /\ closed) \/ WriteOutcome(a)
    <3>1. /\ emit[u] = a /\ stage'[a] = "done"
          /\ emit' = [emit EXCEPT ![u] = None]
      BY <1>0, <2>8 DEF Report, WriteOutcome, Finish, EmitIsHeld
    <3>2. \A b \in Analyses \ {a} : stage[b] \in Holding => viewOf[b] # u
      BY <3>1 DEF EmitIsHeld
    <3>3. QED
      BY <1>0, <2>0, <2>2, <2>3, <3>1, <3>2 DEF EmitIsHeld
  <2>9. QED
    BY <1>2, <2>4, <2>5, <2>6, <2>7, <2>8 DEF Analysis
<1>3. ASSUME NEW a \in Analyses, Commit(a)
      PROVE  EmitIsHeld'
  <2> DEFINE u == viewOf[a]
  <2>1. /\ stage[a] = "analyzed" /\ emit[u] = None
        /\ stage'[a] = "committed"
        /\ emit' = [emit EXCEPT ![u] = a]
        /\ \A b \in Analyses \ {a} : stage'[b] = stage[b]
    BY <1>0, <1>3 DEF Commit
  <2>2. /\ u \in Views /\ viewOf' = viewOf
        /\ \A b \in Analyses \ {a} : (Published(b)' <=> Published(b)) /\ revisionOf'[b] = revisionOf[b]
        /\ \A v \in Views \ {u} : revision'[v] = revision[v]
    BY <1>3, CommitNumbers DEF Published
  <2>3. Published(a)' => revisionOf'[a] = revision'[u]
    BY <1>3, CommitNumbers DEF Published
  <2>4. \A b \in Analyses \ {a} : stage[b] \in Holding => viewOf[b] # u
    BY <1>0, <2>1 DEF EmitIsHeld
  <2>5. \A b \in Analyses \ {a} : stage[b] \in Running => viewOf[b] # u
    BY <2>1, OneLivePerView DEF Live, Issued, Terminal
  <2>6. \A b \in Analyses : stage'[b] \in Holding => emit'[viewOf'[b]] = b
    BY <1>0, <2>1, <2>2, <2>4 DEF EmitIsHeld
  <2>7. \A b, c \in Analyses : stage'[b] \in Committed /\ stage'[c] \in Running
                                   => viewOf'[b] # viewOf'[c]
    BY <2>1, <2>2, <2>4, <2>5 DEF EmitIsHeld
  <2>8. \A b \in Analyses : stage'[b] \in Committed /\ Published(b)'
                                => revisionOf'[b] = revision'[viewOf'[b]]
    <3> SUFFICES ASSUME NEW b \in Analyses \ {a}, stage'[b] \in Committed, Published(b)'
                 PROVE  revisionOf'[b] = revision'[viewOf'[b]]
      BY <2>2, <2>3
    <3>1. viewOf[b] # u /\ viewOf[b] \in Views
      BY <1>0, <2>1, <2>4
    <3>2. QED
      BY <2>1, <2>2, <3>1 DEF EmitIsHeld
  <2>9. QED
    BY <2>6, <2>7, <2>8 DEF EmitIsHeld
<1>4. QED
  BY <1>1, <1>2, <1>3, StepKinds

-----------------------------------------------------------------------------
(* The notifications of a view are in commit order.                        *)

\* Notifications say how far their analysis is.
LEMMA StepFollows ==
    ASSUME TypeInv, Ownership, EmitIsHeld, WireIsTrue, WireFollowsStage, [Next]_vars
    PROVE  WireFollowsStage'
<1>0. /\ wire \in [Views -> Seq(WireEntries)]
      /\ stage \in [Analyses -> Stages]
      /\ emit \in [Views -> Analyses \cup {None}]
  BY DEF TypeInv, TypeOK
<1>1. \A v \in Views : \A i \in DOMAIN wire[v] : wire[v][i].about \in Analyses
  BY EntriesAbout
<1>2. \A a \in Analyses : /\ stage[a] \in Past => stage'[a] \in Past
                          /\ stage[a] = "done" => stage'[a] = "done"
  BY StagesAdvance
\* One entry about a is written, and no other analysis of its view has its progress on
\* the wire and its outcome to come.
<1>3. ASSUME NEW a \in Analyses, viewOf[a] \in Views,
             NEW kind \in {"started", "progress"} \cup Decisions, Write(a, kind),
             kind \in Decisions => stage'[a] = "done",
             kind = "progress" => stage'[a] \in Past,
             kind # "started" => \A b \in Analyses :
                 viewOf[b] = viewOf[a] /\ stage[b] \in Past => stage'[b] = "done"
      PROVE  WireFollowsStage'
  <2> DEFINE u == viewOf[a]
             n == Len(wire[u])
  <2>1. /\ \A v \in Views : Len(wire[v]) \in Nat /\ DOMAIN wire[v] = 1..Len(wire[v])
        /\ \A v \in Views \ {u} : wire'[v] = wire[v]
        /\ DOMAIN wire'[u] = 1..(n + 1) /\ Len(wire'[u]) = n + 1
        /\ \A i \in 1..n : wire'[u][i] = wire[u][i]
        /\ wire'[u][n + 1] = Entry(a, kind)
    BY <1>3, Written
  <2>2. ASSUME NEW v \in Views, NEW i \in DOMAIN wire'[v]
        PROVE  LET entry == wire'[v][i]
               IN  /\ entry.kind \in Decisions => stage'[entry.about] = "done"
                   /\ entry.kind = "progress" =>
                         /\ stage'[entry.about] \in Past
                         /\ stage'[entry.about] # "done" =>
                               \A k \in (i + 1)..Len(wire'[v]) : wire'[v][k].kind = "started"
    <3>1. CASE v # u
      BY <1>1, <1>2, <2>1, <2>2, <3>1 DEF WireFollowsStage, Past
    <3>2. CASE v = u /\ i = n + 1
      <4>1. wire'[v][i].about = a /\ wire'[v][i].kind = kind
        BY <2>1, <3>2 DEF Entry
      <4>2. n \in Nat /\ (i + 1)..Len(wire'[v]) = {}
        BY <1>3, <2>1, <3>2
      <4>3. QED
        BY <1>3, <4>1, <4>2
    <3>3. CASE v = u /\ i \in 1..n
      <4> DEFINE entry == wire[u][i]
      <4>1. wire'[v][i] = entry /\ entry.about \in Analyses /\ i \in DOMAIN wire[u]
        BY <1>1, <1>3, <2>1, <3>3
      <4>2. viewOf[entry.about] = u
        BY <1>3, <4>1 DEF WireIsTrue
      <4>3. entry.kind \in Decisions => stage'[entry.about] = "done"
        BY <1>2, <1>3, <4>1 DEF WireFollowsStage
      <4>4. entry.kind = "progress" => stage[entry.about] \in Past /\ stage'[entry.about] \in Past
        BY <1>2, <1>3, <4>1 DEF WireFollowsStage, Past
      <4>5. ASSUME entry.kind = "progress", stage'[entry.about] # "done"
            PROVE  \A k \in (i + 1)..Len(wire'[v]) : wire'[v][k].kind = "started"
        <5>1. kind = "started"
          BY <1>3, <4>1, <4>2, <4>4, <4>5
        <5>2. \A k \in (i + 1)..n : wire[u][k].kind = "started"
          BY <1>2, <1>3, <4>1, <4>5 DEF WireFollowsStage
        <5>3. wire'[u][n + 1].kind = "started"
          BY <2>1, <5>1 DEF Entry
        <5>4. \A k \in (i + 1)..(n + 1) : k = n + 1 \/ (k \in (i + 1)..n /\ k \in 1..n)
          BY <1>3, <2>1, <3>3
        <5>5. QED
          BY <2>1, <3>3, <5>2, <5>3, <5>4
      <4>6. QED
        BY <4>1, <4>3, <4>4, <4>5
    <3>4. QED
      BY <1>3, <2>1, <2>2, <3>1, <3>2, <3>3
  <2>3. QED
    BY <2>2 DEF WireFollowsStage, Past
<1>4. CASE wire' = wire
  BY <1>1, <1>2, <1>4 DEF WireFollowsStage, Past
<1>5. ASSUME NEW r \in Requests, Respond(r), request[r].reply = "started"
      PROVE  WireFollowsStage'
  BY <1>3, <1>5, StartResponded DEF Decisions
<1>6. ASSUME NEW a \in Analyses, WriteProgress(a)
      PROVE  WireFollowsStage'
  <2>1. /\ viewOf[a] \in Views /\ emit[viewOf[a]] = a /\ Live(a)
        /\ Write(a, "progress") /\ stage[a] = "announcing" /\ stage'[a] \in Past
        /\ \A b \in Analyses \ {a} : stage'[b] = stage[b]
    BY <1>0, <1>6 DEF WriteProgress, EmitIsHeld, Ownership, IssuedHaveViews, Issued, Live,
                      Terminal, Past
  <2>2. ASSUME NEW b \in Analyses, viewOf[b] = viewOf[a], stage[b] \in Past
        PROVE  stage'[b] = "done"
    <3>1. b # a
      BY <2>1, <2>2 DEF Past
    <3>2. ~Live(b)
      BY <2>1, <2>2, <3>1, OneLivePerView
    <3>3. stage[b] \notin {"committed", "reporting"}
      BY <2>1, <2>2, <3>1 DEF EmitIsHeld
    <3>4. stage[b] = "done"
      BY <2>2, <3>2, <3>3 DEF Live, Issued, Terminal, Past
    <3>5. QED
      BY <2>1, <3>1, <3>4
  <2>3. QED
    BY <1>3, <2>1, <2>2 DEF Decisions
<1>7. ASSUME NEW a \in Analyses, WriteOutcome(a)
      PROVE  WireFollowsStage'
  <2>1. /\ viewOf[a] \in Views /\ emit[viewOf[a]] = a /\ outcome[a] \in Decisions
        /\ Write(a, outcome[a]) /\ stage[a] = "reporting" /\ stage'[a] = "done"
        /\ \A b \in Analyses \ {a} : stage'[b] = stage[b]
    BY <1>0, <1>7 DEF WriteOutcome, Finish, EmitIsHeld, Ownership, IssuedHaveViews, CommitDecides,
                      Issued, Terminal
  <2>2. ASSUME NEW b \in Analyses, viewOf[b] = viewOf[a], stage[b] \in Past
        PROVE  stage'[b] = "done"
    BY <2>1, <2>2 DEF EmitIsHeld, Past
  <2>3. outcome[a] # "started" /\ outcome[a] # "progress"
    BY <2>1 DEF Decisions
  <2>4. QED
    BY <1>3, <2>1, <2>2, <2>3
<1>8. QED
  BY <1>4, <1>5, <1>6, <1>7, Writers

\* A new notification is in its place.
LEMMA StepOrder ==
    ASSUME TypeInv, Ownership, EmitIsHeld, WireIsTrue, WireFollowsStage, Numbering,
           NothingUndone, NotificationsInCommitOrder, [Next]_vars
    PROVE  NotificationsInCommitOrder'
<1>0. wire \in [Views -> Seq(WireEntries)]
  BY DEF TypeInv, TypeOK
<1>1. \A v \in Views : \A i \in DOMAIN wire[v] :
          /\ wire[v][i].about \in Analyses
          /\ wire[v][i].kind = "published" =>
                /\ Published(wire[v][i].about)
                /\ revisionOf'[wire[v][i].about] = revisionOf[wire[v][i].about]
  <2>1. \A v \in Views : \A i \in DOMAIN wire[v] : wire[v][i].about \in Analyses
    BY EntriesAbout
  <2>2. \A v \in Views : \A i \in DOMAIN wire[v] :
            wire[v][i].kind = "published" => Published(wire[v][i].about)
    BY DEF WireIsTrue, Published, Decisions
  <2>3. QED
    BY <2>1, <2>2, NumbersStay
<1>2. ASSUME NEW a \in Analyses, viewOf[a] \in Views,
             NEW kind \in {"started", "progress"} \cup Decisions, Write(a, kind),
             stage[a] # "done", revisionOf' = revisionOf,
             kind # "started" \/ stage[a] = "registered",
             kind # "progress" \/ stage[a] = "announcing",
             kind = "published" =>
                 Published(a) /\ stage[a] = "reporting"
      PROVE  NotificationsInCommitOrder'
  <2> DEFINE u == viewOf[a]
             n == Len(wire[u])
  <2>1. /\ \A v \in Views : Len(wire[v]) \in Nat /\ DOMAIN wire[v] = 1..Len(wire[v])
        /\ \A v \in Views \ {u} : wire'[v] = wire[v]
        /\ DOMAIN wire'[u] = 1..(n + 1) /\ Len(wire'[u]) = n + 1
        /\ \A i \in 1..n : wire'[u][i] = wire[u][i]
        /\ wire'[u][n + 1] = Entry(a, kind)
    BY <1>2, Written
  <2>2. ASSUME NEW i \in 1..n
        PROVE  /\ wire[u][i].kind \in Decisions => wire[u][i].about # a
               /\ wire[u][i].kind = "published" /\ kind = "published" =>
                     revisionOf[wire[u][i].about] < revisionOf[a]
               /\ wire[u][i].kind = "progress" /\ wire[u][i].about = a =>
                     \A k \in (i + 1)..n : wire[u][k].kind = "started"
    <3> DEFINE entry == wire[u][i]
    <3>1. i \in DOMAIN wire[u] /\ entry.about \in Analyses
      BY <1>1, <1>2, <2>1
    <3>2. entry.kind \in Decisions => stage[entry.about] = "done"
      BY <1>2, <3>1 DEF WireFollowsStage
    <3>3. entry.kind = "progress" /\ entry.about = a =>
              \A k \in (i + 1)..n : wire[u][k].kind = "started"
      BY <1>2, <3>1 DEF WireFollowsStage
    <3>4. ASSUME entry.kind = "published", kind = "published"
          PROVE  revisionOf[entry.about] < revisionOf[a]
      <4> DEFINE b == entry.about
      <4>1. b # a /\ b \in Analyses /\ Published(b) /\ viewOf[b] = u
        BY <1>1, <1>2, <3>1, <3>2, <3>4 DEF WireIsTrue, Decisions
      <4>2. revisionOf[a] = revision[u] /\ revisionOf[b] \in 1..revision[u]
        BY <1>2, <3>4, <4>1 DEF EmitIsHeld, Numbering
      <4>3. revisionOf[b] # revisionOf[a]
        BY <1>2, <3>4, <4>1 DEF Numbering
      <4>4. revision[u] \in Nat
        BY <1>2 DEF TypeInv, TypeOK
      <4>5. QED
        BY <4>2, <4>3, <4>4
    <3>5. QED
      BY <1>2, <3>2, <3>3, <3>4
  <2>3. SUFFICES ASSUME NEW v \in Views, NEW i \in DOMAIN wire'[v], NEW j \in DOMAIN wire'[v],
                        i < j
                 PROVE  LET first == wire'[v][i]
                            second == wire'[v][j]
                        IN  /\ first.kind \in Decisions => second.about # first.about
                            /\ (first.kind = "published" /\ second.kind = "published")
                                  => revisionOf[first.about] < revisionOf[second.about]
                            /\ (first.kind = "progress" /\ second.about = first.about)
                                  => \A k \in (i + 1)..(j - 1) : wire'[v][k].kind = "started"
    BY <1>2 DEF NotificationsInCommitOrder
  <2>4. CASE v # u
    <3>1. wire'[v] = wire[v]
      BY <2>1, <2>4
    <3>2. QED
      BY <2>3, <3>1 DEF NotificationsInCommitOrder
  <2>5. CASE v = u /\ j \in 1..n
    <3>1. i \in 1..n /\ i \in DOMAIN wire[u] /\ j \in DOMAIN wire[u]
      BY <1>2, <2>1, <2>3, <2>5
    <3>2. /\ wire'[v][i] = wire[u][i] /\ wire'[v][j] = wire[u][j]
          /\ \A k \in (i + 1)..(j - 1) : wire'[v][k] = wire[u][k]
      <4>1. \A k \in (i + 1)..(j - 1) : k \in 1..n
        BY <1>2, <2>1, <2>5, <3>1
      <4>2. QED
        BY <2>1, <2>5, <3>1, <4>1
    <3>3. QED
      BY <1>2, <2>3, <3>1, <3>2 DEF NotificationsInCommitOrder
  <2>6. CASE v = u /\ j = n + 1
    <3>1. i \in 1..n
      BY <1>2, <2>1, <2>3, <2>6
    <3>2. /\ wire'[v][i] = wire[u][i] /\ wire'[v][j].about = a /\ wire'[v][j].kind = kind
          /\ \A k \in (i + 1)..(j - 1) : k \in (i + 1)..n /\ wire'[v][k] = wire[u][k]
      BY <1>2, <2>1, <2>6, <3>1 DEF Entry
    <3>3. QED
      BY <2>2, <3>1, <3>2
  <2>7. QED
    BY <1>2, <2>1, <2>3, <2>4, <2>5, <2>6
<1>3. CASE wire' = wire
  BY <1>1, <1>3 DEF NotificationsInCommitOrder
<1>4. ASSUME NEW r \in Requests, Respond(r), request[r].reply = "started"
      PROVE  NotificationsInCommitOrder'
  BY <1>2, <1>4, StartResponded DEF Decisions
<1>5. ASSUME NEW a \in Analyses, WriteProgress(a)
      PROVE  NotificationsInCommitOrder'
  BY <1>2, <1>5 DEF WriteProgress, Ownership, IssuedHaveViews, Issued, Decisions
<1>6. ASSUME NEW a \in Analyses, WriteOutcome(a)
      PROVE  NotificationsInCommitOrder'
  <2>1. viewOf[a] \in Views /\ outcome[a] \in Decisions
    BY <1>6 DEF WriteOutcome, Ownership, IssuedHaveViews, CommitDecides, Issued, Terminal
  <2>2. QED
    BY <1>2, <1>6, <2>1 DEF WriteOutcome, Published, Decisions
<1>7. QED
  BY <1>3, <1>4, <1>5, <1>6, Writers

-----------------------------------------------------------------------------
(* The load state is the one the notifications describe.                   *)

\* The published entries of a stream are finitely many.
LEMMA PublishedFinite ==
    ASSUME TypeInv, NEW v \in Views
    PROVE  IsFiniteSet({i \in DOMAIN wire[v] : wire[v][i].kind = "published"})
<1>1. Len(wire[v]) \in Nat /\ DOMAIN wire[v] = 1..Len(wire[v])
  BY LenProperties DEF TypeInv, TypeOK
<1>2. IsFiniteSet(1..Len(wire[v]))
  BY <1>1, FS_Interval
<1>3. QED
  BY <1>1, <1>2, FS_Subset

\* The element chosen as the last of a set of numbers is the one no other exceeds.
LEMMA ChosenLast ==
    ASSUME NEW R \in SUBSET Nat, NEW m \in R, \A j \in R : j <= m
    PROVE  (CHOOSE i \in R : \A j \in R : j <= i) = m
<1> DEFINE c == CHOOSE i \in R : \A j \in R : j <= i
<1>1. c \in R /\ \A j \in R : j <= c
  OBVIOUS
<1> HIDE DEF c
<1>2. c <= m /\ m <= c /\ c \in Nat /\ m \in Nat
  BY <1>1
<1>3. c = m
  BY <1>2
<1>4. QED
  BY <1>3 DEF c

\* What one more entry does to the number of publications and to the last decision
\* announced for a view.
LEMMA WrittenCounts ==
    ASSUME TypeInv, SettlingHasLast, NEW a \in Analyses, NEW u \in Views, u = viewOf[a],
           NEW kind, Write(a, kind)
    PROVE  /\ Announced(u)' = Announced(u) + (IF kind = "published" THEN 1 ELSE 0)
           /\ LastSettled(u)' =
                 IF kind \in Decisions \ {"cancelled"} THEN kind ELSE LastSettled(u)
           /\ \A v \in Views \ {u} : /\ Announced(v)' = Announced(v)
                                     /\ LastSettled(v)' = LastSettled(v)
           /\ SettlingHasLast'
<1> DEFINE n == Len(wire[u])
           P == {i \in DOMAIN wire[u] : wire[u][i].kind = "published"}
           Q == {i \in DOMAIN wire'[u] : wire'[u][i].kind = "published"}
           S == {i \in DOMAIN wire[u] : wire[u][i].kind \in Decisions \ {"cancelled"}}
           T == {i \in DOMAIN wire'[u] : wire'[u][i].kind \in Decisions \ {"cancelled"}}
<1>1. /\ n \in Nat /\ DOMAIN wire[u] = 1..n
      /\ \A v \in Views \ {u} : wire'[v] = wire[v]
      /\ DOMAIN wire'[u] = 1..(n + 1)
      /\ \A i \in 1..n : wire'[u][i] = wire[u][i]
      /\ wire'[u][n + 1] = Entry(a, kind)
  BY Written
<1>2. wire'[u][n + 1].kind = kind
  BY <1>1 DEF Entry
<1>3. Cardinality(Q) = Cardinality(P) + (IF kind = "published" THEN 1 ELSE 0)
  <2>1. n + 1 \notin P /\ IsFiniteSet(P)
    BY <1>1, PublishedFinite
  <2>2. Q = IF kind = "published" THEN P \cup {n + 1} ELSE P
    BY <1>1, <1>2
  <2>3. Cardinality(P) \in Nat
    BY <2>1, FS_CardinalityType
  <2> HIDE DEF P, Q
  <2>4. Cardinality(P \cup {n + 1}) = Cardinality(P) + 1
    BY <2>1, FS_AddElement
  <2>5. QED
    BY <2>2, <2>3, <2>4
<1>4. Announced(u)' = Announced(u) + (IF kind = "published" THEN 1 ELSE 0)
  BY <1>3 DEF Announced
<1>5. /\ T = IF kind \in Decisions \ {"cancelled"} THEN S \cup {n + 1} ELSE S
      /\ S \subseteq 1..n
  <2>1. S \subseteq 1..n
    BY <1>1
  <2>2. \A i \in 1..n : i \in T <=> i \in S
    BY <1>1
  <2>3. n + 1 \in T <=> kind \in Decisions \ {"cancelled"}
    BY <1>1, <1>2
  <2>4. T \subseteq 1..(n + 1)
    BY <1>1
  <2> HIDE DEF S, T, n
  <2>5. n \in Nat /\ 1..(n + 1) = (1..n) \cup {n + 1} /\ n + 1 \notin 1..n
    BY <1>1
  <2>6. CASE kind \in Decisions \ {"cancelled"}
    BY <2>1, <2>2, <2>3, <2>4, <2>5, <2>6
  <2>7. CASE kind \notin Decisions \ {"cancelled"}
    <3>1. T \subseteq 1..n
      BY <2>3, <2>4, <2>5, <2>7
    <3>2. T = S
      BY <2>1, <2>2, <3>1
    <3>3. QED
      BY <2>1, <2>7, <3>2
  <2>8. QED
    BY <2>1, <2>6, <2>7
<1>6. S = {} \/ \E i \in S : \A j \in S : j <= i
  BY DEF SettlingHasLast, Settling
<1>7. ASSUME NEW v \in Views \ {u}
      PROVE  /\ Announced(v)' = Announced(v)
             /\ LastSettled(v)' = LastSettled(v)
  <2> DEFINE B == {i \in DOMAIN wire'[v] : wire'[v][i].kind \in Decisions \ {"cancelled"}}
  <2>1. wire'[v] = wire[v]
    BY <1>1
  <2>2. Announced(v)' = Announced(v) /\ B = Settling(v)
    BY <2>1 DEF Announced, Settling
  <2>3. LastSettled(v)' = IF B = {} THEN "none"
                          ELSE wire'[v][CHOOSE i \in B : \A j \in B : j <= i].kind
    BY DEF LastSettled, Settling
  <2> HIDE DEF B
  <2>4. QED
    BY <2>1, <2>2, <2>3 DEF LastSettled
<1>8. ASSUME T = {} \/ \E i \in T : \A j \in T : j <= i
      PROVE  SettlingHasLast'
  <2> DEFINE after(v) == {i \in DOMAIN wire'[v] : wire'[v][i].kind \in Decisions \ {"cancelled"}}
  <2>1. SettlingHasLast' <=>
            \A v \in Views : after(v) # {} => \E i \in after(v) : \A j \in after(v) : j <= i
    BY DEF SettlingHasLast, Settling
  <2>2. \A v \in Views \ {u} : after(v) = Settling(v)
    BY <1>1 DEF Settling
  <2>3. after(u) = T
    OBVIOUS
  <2> HIDE DEF after, T
  <2>4. QED
    BY <1>8, <2>1, <2>2, <2>3 DEF SettlingHasLast
<1>9. /\ LastSettled(u) = IF S = {} THEN "none"
                          ELSE wire[u][CHOOSE i \in S : \A j \in S : j <= i].kind
      /\ LastSettled(u)' = IF T = {} THEN "none"
                           ELSE wire'[u][CHOOSE i \in T : \A j \in T : j <= i].kind
  BY DEF LastSettled, Settling
<1> HIDE DEF S, T, P, Q, n
<1>10. CASE kind \in Decisions \ {"cancelled"}
  <2>1. T \in SUBSET Nat /\ n + 1 \in T /\ \A j \in T : j <= n + 1
    BY <1>1, <1>5, <1>10
  <2>2. (CHOOSE i \in T : \A j \in T : j <= i) = n + 1
    BY <2>1, ChosenLast
  <2>3. LastSettled(u)' = kind
    BY <1>2, <1>9, <2>1, <2>2
  <2>4. SettlingHasLast'
    BY <1>8, <2>1
  <2>5. QED
    BY <1>4, <1>7, <1>10, <2>3, <2>4
<1>11. CASE kind \notin Decisions \ {"cancelled"}
  <2>1. T = S
    BY <1>5, <1>11
  <2>2. S # {} => (CHOOSE i \in S : \A j \in S : j <= i) \in S
    BY <1>6
  <2>3. LastSettled(u)' = LastSettled(u)
    BY <1>1, <1>5, <1>9, <2>1, <2>2
  <2>4. SettlingHasLast'
    BY <1>6, <1>8, <2>1
  <2>5. QED
    BY <1>4, <1>7, <1>11, <2>3, <2>4
<1>12. QED
  BY <1>10, <1>11

\* Start responses and progress messages settle nothing.
LEMMA UnsettledWire ==
    ASSUME TypeInv, Ownership, SettlingHasLast, [Next]_vars, \A a \in Analyses : ~WriteOutcome(a)
    PROVE  /\ \A v \in Views : Announced(v)' = Announced(v) /\ LastSettled(v)' = LastSettled(v)
           /\ SettlingHasLast'
<1>1. CASE wire' = wire
  BY <1>1 DEF Announced, LastSettled, Settling, SettlingHasLast
<1>2. ASSUME NEW a \in Analyses, viewOf[a] \in Views, NEW kind \in {"started", "progress"},
             Write(a, kind)
      PROVE  /\ \A v \in Views : Announced(v)' = Announced(v) /\ LastSettled(v)' = LastSettled(v)
             /\ SettlingHasLast'
  <2>1. PICK u \in Views : u = viewOf[a]
    BY <1>2
  <2>2. kind # "published" /\ kind \notin Decisions
    BY <1>2 DEF Decisions
  <2>3. Announced(u) \in Nat
    BY <2>1, PublishedFinite, FS_CardinalityType DEF Announced
  <2>4. /\ Announced(u)' = Announced(u) /\ LastSettled(u)' = LastSettled(u)
        /\ \A v \in Views \ {u} : Announced(v)' = Announced(v) /\ LastSettled(v)' = LastSettled(v)
        /\ SettlingHasLast'
    BY <1>2, <2>1, <2>2, <2>3, WrittenCounts
  <2>5. QED
    BY <2>1, <2>4
<1>3. ASSUME NEW r \in Requests, Respond(r), request[r].reply = "started"
      PROVE  \E a \in Analyses : viewOf[a] \in Views /\ Write(a, "started")
  BY <1>3, StartResponded
<1>4. ASSUME NEW a \in Analyses, WriteProgress(a)
      PROVE  viewOf[a] \in Views /\ Write(a, "progress")
  BY <1>4 DEF WriteProgress, Ownership, IssuedHaveViews, Issued
<1>5. QED
  BY <1>1, <1>2, <1>3, <1>4, Writers

\* Only Serve's last step closes the output.
LEMMA ClosedIsForGood ==
    ASSUME [Next]_vars, ~closed'
    PROVE  ~closed
BY DEF Next, Initialize, BeginShutdown, FinishShutdown, CancelContext, Exit, FramingError,
       ContextDone, LeaveLoop, Stop, Dispatch, Handler, OpenWorkspace, CloseWorkspace,
       StartAnalysis, CancelAnalysis, Query, Summary, SummarizerReturns, Respond, Launch,
       Analysis, Announce, WriteProgress, AnalyzeReturns, Commit, Report, WriteOutcome,
       Terminated, vars, serveVars

\* A step that commits nothing and announces no decision keeps up.
LEMMA KeepUpFrame ==
    ASSUME TypeInv, Ownership, SettlingHasLast, AnnouncementsKeepUp, NothingUndone, [Next]_vars,
           \A a \in Analyses : ~Commit(a) /\ ~WriteOutcome(a),
           ~closed' =>
               \A a \in Analyses : (stage'[a] \in {"committed", "reporting"}) <=>
                                       (stage[a] \in {"committed", "reporting"})
    PROVE  AnnouncementsKeepUp'
<1> SUFFICES ASSUME ~closed' PROVE AnnouncementsKeepUp'
  BY DEF AnnouncementsKeepUp
<1>1. ~closed
  BY ClosedIsForGood
<1>2. UNCHANGED <<revision, failure>>
  BY OnlyCommitPublishes
<1>3. ASSUME NEW v \in Views
      PROVE  /\ Unannounced(v)' = Unannounced(v)
             /\ \A a \in Unannounced(v) : outcome'[a] = outcome[a]
  <2>1. \A a \in Analyses : stage[a] \in {"committed", "reporting"} =>
            viewOf'[a] = viewOf[a] /\ outcome'[a] = outcome[a]
    BY DEF NothingUndone, Issued, Terminal
  <2>2. Unannounced(v)' = Unannounced(v)
    BY <2>1 DEF Unannounced
  <2>3. QED
    BY <2>1, <2>2 DEF Unannounced
<1>4. \A v \in Views : Announced(v)' = Announced(v) /\ LastSettled(v)' = LastSettled(v)
  BY UnsettledWire
<1>5. ASSUME NEW v \in Views
      PROVE  /\ revision[v] = Announced(v)' + (IF \E a \in Unannounced(v)' : Published(a)' THEN 1 ELSE 0)
             /\ \A a \in Unannounced(v)' : outcome'[a] # "cancelled" =>
                    failure[v] = IF Published(a)' THEN "none" ELSE outcome'[a]
             /\ (\A a \in Unannounced(v)' : outcome'[a] = "cancelled") =>
                    failure[v] = IF LastSettled(v)' \in {"none", "published"} THEN "none"
                                 ELSE LastSettled(v)'
  BY <1>1, <1>3, <1>4 DEF AnnouncementsKeepUp, Published
<1>6. QED
  BY <1>2, <1>5 DEF AnnouncementsKeepUp

\* While a commit of v is unannounced it is the only one, and it holds the emit lock.
LEMMA OneUnannounced ==
    ASSUME EmitIsHeld, NEW v \in Views
    PROVE  \A a \in Unannounced(v) : emit[v] = a
BY DEF EmitIsHeld, Unannounced

\* Notifications keep up with what the views have.
LEMMA StepKeepsUp ==
    ASSUME TypeInv, Ownership, EmitIsHeld, SettlingHasLast, AnnouncementsKeepUp, NothingUndone,
           [Next]_vars
    PROVE  SettlingHasLast' /\ AnnouncementsKeepUp'
<1>0. /\ stage \in [Analyses -> Stages]
      /\ emit \in [Views -> Analyses \cup {None}]
      /\ None \notin Analyses
      /\ revision \in [Views -> Nat]
      /\ outcome \in [Analyses -> {"none", "index", "loadError", "internalError"} \cup Decisions]
  BY SessionAssumption DEF TypeInv, TypeOK
<1>1. ASSUME \A a \in Analyses : ~WriteOutcome(a)
      PROVE  SettlingHasLast'
  BY <1>1, UnsettledWire
<1>2. CASE LoopStep \/ (\E r \in Requests : Handler(r) \/ SummarizerReturns(r)) \/ UNCHANGED vars
  <2>1. \A a \in Analyses : /\ stage[a] \in Past \cup {"announcing"} => stage'[a] = stage[a]
                            /\ stage'[a] \in Past \cup {"announcing"} => stage'[a] = stage[a]
    BY <1>2, HandlersOnlyLaunch
  <2>2. \A a \in Analyses : ~Commit(a) /\ ~WriteOutcome(a)
    <3> SUFFICES ASSUME NEW a \in Analyses, Commit(a) \/ WriteOutcome(a) PROVE FALSE
      OBVIOUS
    <3>1. stage[a] \in Past /\ stage'[a] # stage[a]
      BY <1>0 DEF Commit, WriteOutcome, Finish, Past
    <3>2. QED
      BY <2>1, <3>1
  <2>3. \A a \in Analyses : (stage'[a] \in {"committed", "reporting"}) <=>
                                (stage[a] \in {"committed", "reporting"})
    BY <2>1 DEF Past
  <2>4. QED
    BY <1>1, <2>2, <2>3, KeepUpFrame
<1>3. ASSUME NEW a \in Analyses,
             Announce(a) \/ WriteProgress(a) \/ AnalyzeReturns(a) \/ Report(a)
      PROVE  SettlingHasLast' /\ AnnouncementsKeepUp'
  <2>1. /\ \A b \in Analyses \ {a} : stage'[b] = stage[b]
        /\ stage[a] \in {"launched", "announcing", "analyzing", "committed"}
        /\ stage[a] = "committed" => Report(a) /\ closed' = closed
        /\ stage[a] # "committed" => stage'[a] \notin {"committed", "reporting", "done"}
    BY <1>0, <1>3 DEF Announce, WriteProgress, AnalyzeReturns, Report, Finish, serveVars
  <2>2. ~closed' =>
            \A b \in Analyses : (stage'[b] \in {"committed", "reporting"}) <=>
                                    (stage[b] \in {"committed", "reporting"})
    BY <1>0, <2>1 DEF Report
  <2>3. \A b \in Analyses : ~Commit(b) /\ ~WriteOutcome(b)
    <3> SUFFICES ASSUME NEW b \in Analyses, Commit(b) \/ WriteOutcome(b) PROVE FALSE
      OBVIOUS
    <3>1. stage[b] \in {"analyzed", "reporting"} /\ stage'[b] # stage[b]
      BY <1>0 DEF Commit, WriteOutcome, Finish
    <3>2. QED
      BY <2>1, <3>1
  <2>4. QED
    BY <1>1, <2>2, <2>3, KeepUpFrame
<1>4. ASSUME NEW a \in Analyses, Commit(a)
      PROVE  SettlingHasLast' /\ AnnouncementsKeepUp'
  <2>1. PICK u \in Views : u = viewOf[a]
    BY <1>4, CommitNumbers
  <2>2. /\ stage[a] = "analyzed" /\ emit[u] = None /\ stage'[a] = "committed"
        /\ \A b \in Analyses \ {a} : stage'[b] = stage[b]
        /\ UNCHANGED <<viewOf, wire, closed>>
    BY <1>0, <1>4, <2>1 DEF Commit, serveVars, outputVars
  <2>3. \A b \in Analyses : ~WriteOutcome(b)
    <3> SUFFICES ASSUME NEW b \in Analyses, WriteOutcome(b) PROVE FALSE
      OBVIOUS
    <3>1. stage[b] = "reporting" /\ stage'[b] = "done"
      BY <1>0 DEF WriteOutcome, Finish
    <3>2. QED
      BY <2>2, <3>1
  <2>4. /\ \A v \in Views : Announced(v)' = Announced(v) /\ LastSettled(v)' = LastSettled(v)
        /\ SettlingHasLast'
    BY <2>3, UnsettledWire
  <2>5. /\ Unannounced(u) = {} /\ Unannounced(u)' = {a}
        /\ \A v \in Views \ {u} : Unannounced(v)' = Unannounced(v)
    <3>1. \A b \in Analyses : stage[b] \in {"committed", "reporting"} => viewOf[b] # u
      BY <1>0, <2>2 DEF EmitIsHeld
    <3>2. QED
      BY <2>1, <2>2, <3>1 DEF Unannounced
  <2>6. \A v \in Views : a \notin Unannounced(v)
    BY <2>2 DEF Unannounced
  <2>7. /\ outcome'[a] = Decision(a)
        /\ \A b \in Analyses \ {a} : outcome'[b] = outcome[b]
        /\ \A v \in Views \ {u} : revision'[v] = revision[v] /\ failure'[v] = failure[v]
        /\ Decision(a) = "published" => revision'[u] = revision[u] + 1 /\ failure'[u] = "none"
        /\ Decision(a) # "published" =>
              /\ revision'[u] = revision[u]
              /\ failure'[u] = IF Decision(a) = "cancelled" THEN failure[u] ELSE Decision(a)
    BY <1>4, <2>1, CommitNumbers
  <2>8. SUFFICES ASSUME ~closed
                 PROVE  AnnouncementsKeepUp'
    BY <2>2, <2>4 DEF AnnouncementsKeepUp
  <2>9. ASSUME NEW v \in Views \ {u}
        PROVE  /\ revision'[v] = Announced(v)'
                      + (IF \E b \in Unannounced(v)' : Published(b)' THEN 1 ELSE 0)
               /\ \A b \in Unannounced(v)' : outcome'[b] # "cancelled" =>
                      failure'[v] = IF Published(b)' THEN "none" ELSE outcome'[b]
               /\ (\A b \in Unannounced(v)' : outcome'[b] = "cancelled") =>
                      failure'[v] = IF LastSettled(v)' \in {"none", "published"} THEN "none"
                                    ELSE LastSettled(v)'
    <3>1. \A b \in Unannounced(v) : outcome'[b] = outcome[b]
      BY <2>6, <2>7 DEF Unannounced
    <3>2. QED
      BY <2>4, <2>5, <2>7, <2>8, <3>1 DEF AnnouncementsKeepUp, Published
  <2>10. /\ revision'[u] = Announced(u)'
                + (IF \E b \in Unannounced(u)' : Published(b)' THEN 1 ELSE 0)
         /\ \A b \in Unannounced(u)' : outcome'[b] # "cancelled" =>
                failure'[u] = IF Published(b)' THEN "none" ELSE outcome'[b]
         /\ (\A b \in Unannounced(u)' : outcome'[b] = "cancelled") =>
                failure'[u] = IF LastSettled(u)' \in {"none", "published"} THEN "none"
                              ELSE LastSettled(u)'
    <3>1. /\ revision[u] = Announced(u) + 0
          /\ failure[u] = IF LastSettled(u) \in {"none", "published"} THEN "none"
                          ELSE LastSettled(u)
      BY <2>5, <2>8 DEF AnnouncementsKeepUp
    <3>2. Announced(u) \in Nat
      BY PublishedFinite, FS_CardinalityType DEF Announced
    <3>3. QED
      BY <2>4, <2>5, <2>7, <3>1, <3>2 DEF Published
  <2>11. QED
    BY <2>9, <2>10 DEF AnnouncementsKeepUp
<1>5. ASSUME NEW a \in Analyses, WriteOutcome(a)
      PROVE  SettlingHasLast' /\ AnnouncementsKeepUp'
  <2>1. /\ stage[a] = "reporting" /\ stage'[a] = "done" /\ Write(a, outcome[a])
        /\ outcome[a] \in Decisions /\ viewOf[a] \in Views
        /\ \A b \in Analyses \ {a} : stage'[b] = stage[b]
        /\ UNCHANGED <<viewOf, closed, revision, failure, outcome>>
    BY <1>0, <1>5 DEF WriteOutcome, Finish, serveVars, viewVars, Ownership, CommitDecides,
                      IssuedHaveViews, Issued, Terminal
  <2>2. PICK u \in Views : u = viewOf[a]
    BY <2>1
  <2>3. /\ Announced(u)' = Announced(u) + (IF Published(a) THEN 1 ELSE 0)
        /\ LastSettled(u)' = IF outcome[a] # "cancelled" THEN outcome[a] ELSE LastSettled(u)
        /\ \A v \in Views \ {u} : Announced(v)' = Announced(v) /\ LastSettled(v)' = LastSettled(v)
        /\ SettlingHasLast'
    BY <2>1, <2>2, WrittenCounts DEF Published
  <2>4. /\ Unannounced(u) = {a} /\ Unannounced(u)' = {}
        /\ \A v \in Views \ {u} : Unannounced(v)' = Unannounced(v)
    <3>1. a \in Unannounced(u)
      BY <2>1, <2>2 DEF Unannounced
    <3>2. Unannounced(u) = {a}
      BY <3>1, OneUnannounced DEF Unannounced
    <3>3. QED
      BY <2>1, <2>2, <3>2 DEF Unannounced
  <2>5. SUFFICES ASSUME ~closed
                 PROVE  AnnouncementsKeepUp'
    BY <2>1, <2>3 DEF AnnouncementsKeepUp
  <2>6. ASSUME NEW v \in Views \ {u}
        PROVE  /\ revision[v] = Announced(v)'
                      + (IF \E b \in Unannounced(v)' : Published(b) THEN 1 ELSE 0)
               /\ \A b \in Unannounced(v)' : outcome[b] # "cancelled" =>
                      failure[v] = IF Published(b) THEN "none" ELSE outcome[b]
               /\ (\A b \in Unannounced(v)' : outcome[b] = "cancelled") =>
                      failure[v] = IF LastSettled(v)' \in {"none", "published"} THEN "none"
                                   ELSE LastSettled(v)'
    BY <2>3, <2>4, <2>5 DEF AnnouncementsKeepUp
  <2>7. /\ revision[u] = Announced(u)'
        /\ failure[u] = IF LastSettled(u)' \in {"none", "published"} THEN "none"
                        ELSE LastSettled(u)'
    <3>1. /\ revision[u] = Announced(u) + (IF Published(a) THEN 1 ELSE 0)
          /\ outcome[a] # "cancelled" =>
                failure[u] = IF Published(a) THEN "none" ELSE outcome[a]
          /\ outcome[a] = "cancelled" =>
                failure[u] = IF LastSettled(u) \in {"none", "published"} THEN "none"
                             ELSE LastSettled(u)
      BY <2>4, <2>5 DEF AnnouncementsKeepUp
    <3>2. QED
      BY <2>1, <2>3, <3>1 DEF Published, Decisions
  <2>8. Announced(u)' \in Nat
    <3>1. Announced(u) \in Nat
      BY PublishedFinite, FS_CardinalityType DEF Announced
    <3>2. QED
      BY <2>3, <3>1
  <2>9. QED
    BY <2>1, <2>4, <2>6, <2>7, <2>8 DEF AnnouncementsKeepUp, Published
<1>6. QED
  BY <1>2, <1>3, <1>4, <1>5, StepKinds DEF Analysis

-----------------------------------------------------------------------------
(* The theorems about notifications.                                       *)

Notices ==
    /\ LaunchedAfterResponse
    /\ StartResponseFirst
    /\ EmitIsHeld
    /\ WireFollowsStage
    /\ NotificationsInCommitOrder
    /\ SettlingHasLast
    /\ AnnouncementsKeepUp

LEMMA InitNotices == Init => Notices
<1> SUFFICES ASSUME Init PROVE Notices
  OBVIOUS
<1>1. /\ \A v \in Views : wire[v] = <<>> /\ revision[v] = 0 /\ failure[v] = "none"
      /\ \A a \in Analyses : stage[a] = "unissued"
      /\ \A r \in Requests : request[r].stage = "idle"
  BY DEF Init, NoRequest
<1>2. \A v \in Views : /\ DOMAIN wire[v] = {}
                       /\ Announced(v) = 0
                       /\ Settling(v) = {}
                       /\ Unannounced(v) = {}
  <2> SUFFICES ASSUME NEW v \in Views
               PROVE  /\ DOMAIN wire[v] = {}
                      /\ Announced(v) = 0
                      /\ Settling(v) = {}
                      /\ Unannounced(v) = {}
    OBVIOUS
  <2>1. DOMAIN wire[v] = {}
    BY <1>1
  <2>2. {i \in DOMAIN wire[v] : wire[v][i].kind = "published"} = {}
    BY <2>1
  <2>3. Announced(v) = 0
    BY <2>2, FS_EmptySet DEF Announced
  <2>4. QED
    BY <1>1, <2>1, <2>3 DEF Settling, Unannounced
<1>3. LaunchedAfterResponse /\ EmitIsHeld
  BY <1>1 DEF LaunchedAfterResponse, EmitIsHeld
<1>4. StartResponseFirst /\ WireFollowsStage /\ NotificationsInCommitOrder
  BY <1>2 DEF StartResponseFirst, WireFollowsStage, NotificationsInCommitOrder
<1>5. SettlingHasLast /\ AnnouncementsKeepUp
  BY <1>1, <1>2 DEF SettlingHasLast, AnnouncementsKeepUp, LastSettled
<1>6. QED
  BY <1>3, <1>4, <1>5 DEF Notices

\* The emit lock and the output stream, in every state.
LEMMA NoticesAlways == Spec => []Notices
<1> DEFINE Core == TypeInv /\ Ownership /\ CancellationHolds /\ WireIsTrue /\ Numbering /\ Refusals
<1>1. Core /\ Notices /\ [Next]_vars => Notices'
  <2> SUFFICES ASSUME Core, Notices, [Next]_vars PROVE Notices'
    OBVIOUS
  <2>1. NothingUndone
    BY StepUndoesNothing
  <2>2. LaunchedAfterResponse'
    BY <2>1, StepLaunches DEF Notices
  <2>3. StartResponseFirst'
    BY StepStartFirst DEF Notices
  <2>4. EmitIsHeld'
    BY <2>1, StepEmit DEF Notices
  <2>5. WireFollowsStage'
    BY StepFollows DEF Notices
  <2>6. NotificationsInCommitOrder'
    BY <2>1, StepOrder DEF Notices
  <2>7. SettlingHasLast' /\ AnnouncementsKeepUp'
    BY <2>1, StepKeepsUp DEF Notices
  <2>8. QED
    BY <2>2, <2>3, <2>4, <2>5, <2>6, <2>7 DEF Notices
<1>2. Spec => []Core
  BY OwnershipAlways, CancellationAlways, RefusalsAlways, PTL
<1> HIDE DEF Core
<1>3. QED
  BY <1>1, <1>2, InitNotices, PTL DEF Spec

\* A client reads the analysis identifier in the start response before any
\* notification that mentions it (serve.go handleRequest, handlerResult.after).
THEOREM ResponsePrecedesNotifications == Spec => []StartResponseFirst
<1>1. Notices => StartResponseFirst
  BY DEF Notices
<1>2. QED
  BY <1>1, NoticesAlways, PTL

\* The notifications of a view are in commit order and those of two of its analyses
\* never interleave (engine.go runAnalysis, view.emit).
THEOREM CommitOrderOnTheWire == Spec => []NotificationsInCommitOrder
<1>1. Notices => NotificationsInCommitOrder
  BY DEF Notices
<1>2. QED
  BY <1>1, NoticesAlways, PTL

\* When nothing of a view is being announced, its notifications account for what it has.
LEMMA QuietViewAgrees ==
    ASSUME TypeInv, RetentionWindow, Notices, NEW v \in Views,
           emit[v] = None, ~closed, ~ViewClosed(v)
    PROVE  /\ revision[v] = Announced(v)
           /\ active[v] = None =>
                 LoadState(v) = CASE LastSettled(v) = "none" -> "unscanned"
                                  [] LastSettled(v) = "published" -> "ready"
                                  [] OTHER -> "failed"
<1> DEFINE P == {i \in DOMAIN wire[v] : wire[v][i].kind = "published"}
<1>1. /\ None \notin Analyses /\ revision[v] \in Nat
      /\ Len(snapshots[v]) \in Nat
      /\ snapshots[v] = <<>> <=> Len(snapshots[v]) = 0
  <2>1. snapshots[v] \in Seq(Analyses)
    BY DEF TypeInv, TypeOK
  <2>2. QED
    BY <2>1, SessionAssumption, EmptySeq, LenProperties DEF TypeInv, TypeOK
<1>2. Unannounced(v) = {}
  BY <1>1, OneUnannounced DEF Notices, Unannounced
<1>3. IsFiniteSet(P) /\ Announced(v) = Cardinality(P) /\ Cardinality(P) \in Nat
  BY PublishedFinite, FS_CardinalityType DEF Announced
<1>4. revision[v] = Announced(v)
  BY <1>2, <1>3 DEF Notices, AnnouncementsKeepUp
<1>5. failure[v] = IF LastSettled(v) \in {"none", "published"} THEN "none" ELSE LastSettled(v)
  BY <1>2 DEF Notices, AnnouncementsKeepUp
<1>6. snapshots[v] = <<>> <=> P = {}
  <2>1. Len(snapshots[v]) = IF revision[v] < 2 THEN revision[v] ELSE 2
    BY DEF RetentionWindow, RetainedSnapshotsPerView
  <2>2. Cardinality(P) = 0 <=> P = {}
    BY <1>3, FS_EmptySet
  <2> HIDE DEF P
  <2>3. QED
    BY <1>1, <1>3, <1>4, <2>1, <2>2
<1>7. CASE Settling(v) = {}
  <2>1. LastSettled(v) = "none" /\ P = {}
    BY <1>7 DEF LastSettled, Settling, Decisions
  <2>2. active[v] = None => LoadState(v) = "unscanned"
    BY <1>5, <1>6, <2>1 DEF LoadState
  <2>3. QED
    BY <1>4, <2>1, <2>2
<1>8. CASE Settling(v) # {}
  <2>1. PICK i \in Settling(v) : LastSettled(v) = wire[v][i].kind
    BY <1>8 DEF Notices, SettlingHasLast, LastSettled
  <2>2. LastSettled(v) \in Decisions \ {"cancelled"} /\ i \in DOMAIN wire[v]
    BY <2>1 DEF Settling
  <2>3. CASE LastSettled(v) = "published"
    <3>1. P # {}
      BY <2>1, <2>2, <2>3
    <3>2. active[v] = None => LoadState(v) = "ready"
      BY <1>5, <1>6, <2>3, <3>1 DEF LoadState
    <3>3. QED
      BY <1>4, <2>3, <3>2
  <2>4. CASE LastSettled(v) # "published"
    <3>1. LastSettled(v) # "none" /\ failure[v] # "none"
      BY <1>5, <2>2, <2>4 DEF Decisions
    <3>2. active[v] = None => LoadState(v) = "failed"
      BY <3>1 DEF LoadState
    <3>3. QED
      BY <1>4, <2>4, <3>1, <3>2
  <2>5. QED
    BY <2>3, <2>4
<1>9. QED
  BY <1>7, <1>8

\* The load state the engine reports agrees with the one the notifications describe,
\* outside the window in which a commit is being announced (engine.go loadState, commit;
\* serve.go notify).
THEOREM LoadStateAgrees == Spec => []LoadStateMatchesNotifications
<1>1. TypeInv /\ Ownership /\ RetentionWindow /\ Notices => LoadStateMatchesNotifications
  <2> SUFFICES ASSUME TypeInv, RetentionWindow, Notices PROVE LoadStateMatchesNotifications
    OBVIOUS
  <2>1. QED
    BY QuietViewAgrees DEF LoadStateMatchesNotifications
<1>2. QED
  BY <1>1, OwnershipAlways, RetainsLastTwo, NoticesAlways, PTL
=============================================================================
