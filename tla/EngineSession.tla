--------------------------- MODULE EngineSession ---------------------------
(***************************************************************************)
(* One session of the Flowmap engine (internal/engine): the read loop of   *)
(* Serve, the request handlers it spawns, the analyses those handlers      *)
(* launch, and the state they share under Engine.mu.                       *)
(*                                                                         *)
(* Grain of atomicity.  A critical section of Engine.mu is one step; so is *)
(* one framed write (FrameWriter has its own mutex).  A goroutine may be   *)
(* preempted between any two of them: between the answer of a handler and  *)
(* its write, between that write and the launch, and, inside notify,       *)
(* between reading `closed` and writing.                                   *)
(*                                                                         *)
(* Identifiers are opaque and never reused, so a snapshot is named by the  *)
(* analysis that published it.                                             *)
(***************************************************************************)
EXTENDS Naturals, Sequences, FiniteSets

CONSTANTS
    Workspaces,   \* workspace identifiers the session can issue
    Views,        \* language-view identifiers the session can issue
    WorkspaceOf,  \* the workspace each view belongs to
    Analyses,     \* analysis identifiers the session can issue
    Requests,     \* handler goroutines that can be in flight at once
    Operations,   \* kinds of request the client sends
    None          \* nil

OperationKinds == {"open", "close", "start", "cancel", "query", "summary"}

ASSUME SessionAssumption ==
    /\ WorkspaceOf \in [Views -> Workspaces]
    /\ Operations \subseteq OperationKinds
    /\ None \notin Workspaces \cup Views \cup Analyses

VARIABLES
    session,    \* Engine.state
    loop,       \* where Serve is: reading, draining (handleShutdown), stopping, returned
    halted,     \* Engine.ctx is cancelled
    closed,     \* Engine.closed
    exit,       \* what exitStatus decided
    workspace,  \* Engine.workspaces: unopened, open, closed
    active,     \* view.active
    failure,    \* view.lastFailure
    revision,   \* view.revision
    snapshots,  \* view.snapshots, oldest first
    emit,       \* view.emit: the analysis holding the lock
    stage,      \* where runAnalysis is, for each analysis
    viewOf,     \* analysis.view
    cancelled,  \* analysis.cancel was called
    outcome,    \* what Analyze returned, then what commit decided
    revisionOf, \* descriptor.Revision of the snapshot an analysis published
    request,    \* the handler goroutines
    wire,       \* per view: the start responses and notifications written
    acked       \* analyses whose cancellation was acknowledged as requested

serveVars    == <<session, loop, halted, closed, exit>>
viewVars     == <<active, failure, revision, snapshots>>
analysisVars == <<stage, viewOf, cancelled, outcome, revisionOf>>
outputVars   == <<wire, acked>>
vars == <<serveVars, workspace, viewVars, emit, analysisVars, request, outputVars>>

-----------------------------------------------------------------------------
(* Requests and the state of handlers.                                     *)

Replies == {"none", "opened", "closed", "started", "cancelRequested", "alreadyTerminal",
            "served", "invalidParams", "workspaceNotFound", "viewNotFound",
            "alreadyRunning", "analysisNotFound", "snapshotUnavailable", "internalError"}

NoRequest == [op |-> "none", on |-> None, analysis |-> None, stage |-> "idle", reply |-> "none"]

Message(op, on, a) ==
    [op |-> op, on |-> on, analysis |-> a, stage |-> "accepted", reply |-> "none"]

\* A query names a view and the snapshot that analysis a published.
ClientRequests ==
    {Message("open", None, None)}
        \cup {Message("close", w, None) : w \in Workspaces}
        \cup {Message("start", v, None) : v \in Views}
        \cup {Message("cancel", None, a) : a \in Analyses}
        \cup {Message(op, v, a) : op \in {"query", "summary"}, v \in Views, a \in Analyses}

NoHandlers == \A r \in Requests : request[r] = NoRequest

\* What the handler goroutine of request r computed; it is written by Respond.
Answer(r, reply) == request' = [request EXCEPT ![r].stage = "answered", ![r].reply = reply]

Handling(r, op) == request[r].stage = "accepted" /\ request[r].op = op

-----------------------------------------------------------------------------
(* Views, analyses and snapshots.                                          *)

RetainedSnapshotsPerView == 2

ViewClosed(v) == workspace[WorkspaceOf[v]] = "closed"
Registered(v) == workspace[WorkspaceOf[v]] = "open"

Issued(a)   == stage[a] # "unissued"
Terminal(a) == stage[a] \in {"committed", "reporting", "done"}
Live(a)     == Issued(a) /\ ~Terminal(a)
CtxDone(a)  == cancelled[a] \/ halted

\* Mutants of Retain: an off-by-one, and a view that keeps its current snapshot only.
Retain_OneTooMany(s) ==
    IF Len(s) > RetainedSnapshotsPerView
    THEN SubSeq(s, Len(s) - RetainedSnapshotsPerView, Len(s))
    ELSE s

Retain_CurrentOnly(s) == SubSeq(s, Len(s), Len(s))

Retain(s) ==
    IF Len(s) > RetainedSnapshotsPerView
    THEN SubSeq(s, Len(s) - RetainedSnapshotsPerView + 1, Len(s))
    ELSE s

Current(v) == IF snapshots[v] = <<>> THEN None ELSE snapshots[v][Len(snapshots[v])]

LoadState(v) ==
    IF active[v] # None THEN "analyzing"
    ELSE IF failure[v] # "none" THEN "failed"
    ELSE IF snapshots[v] # <<>> THEN "ready"
    ELSE "unscanned"

Entry(a, kind) == [about |-> a, kind |-> kind]

\* One framed message about analysis a reaches the output stream.
Write(a, kind) == wire' = [wire EXCEPT ![viewOf[a]] = Append(@, Entry(a, kind))]

Init ==
    /\ session = "uninitialized"
    /\ loop = "reading"
    /\ halted = FALSE
    /\ closed = FALSE
    /\ exit = "running"
    /\ workspace = [w \in Workspaces |-> "unopened"]
    /\ active = [v \in Views |-> None]
    /\ failure = [v \in Views |-> "none"]
    /\ revision = [v \in Views |-> 0]
    /\ snapshots = [v \in Views |-> <<>>]
    /\ emit = [v \in Views |-> None]
    /\ stage = [a \in Analyses |-> "unissued"]
    /\ viewOf = [a \in Analyses |-> None]
    /\ cancelled = [a \in Analyses |-> FALSE]
    /\ outcome = [a \in Analyses |-> "none"]
    /\ revisionOf = [a \in Analyses |-> 0]
    /\ request = [r \in Requests |-> NoRequest]
    /\ wire = [v \in Views |-> <<>>]
    /\ acked = {}

-----------------------------------------------------------------------------
(* The read loop.  initialize and shutdown run on it; every other known    *)
(* method of an initialized session gets a handler goroutine of its own.   *)
(* Frames that are only answered (malformed, unknown method, wrong session *)
(* state) change nothing and are left out.                                 *)

Initialize ==
    /\ loop = "reading"
    /\ session = "uninitialized"
    /\ session' = "initialized"
    /\ UNCHANGED <<loop, halted, closed, exit, workspace, viewVars, emit,
                   analysisVars, request, outputVars>>

\* Bound: a request that takes a fresh identifier finds one left.
WithinBudget(op) ==
    LET waiting == Cardinality({r \in Requests : Handling(r, op)})
    IN  /\ op = "open" =>
             waiting < Cardinality({w \in Workspaces : workspace[w] = "unopened"})
        /\ op = "start" => waiting < Cardinality({a \in Analyses : ~Issued(a)})

Dispatch(r, q) ==
    /\ loop = "reading"
    /\ session = "initialized"
    /\ request[r] = NoRequest
    /\ q.op \in Operations
    /\ WithinBudget(q.op)
    \* Bound: queries name snapshots that were published at some time.
    /\ q.op \in {"query", "summary"} => revisionOf[q.analysis] > 0
    /\ request' = [request EXCEPT ![r] = q]
    /\ UNCHANGED <<serveVars, workspace, viewVars, emit, analysisVars, outputVars>>

\* beginShutdown, then the read loop blocks in handlers.Wait.
BeginShutdown ==
    /\ loop = "reading"
    /\ session = "initialized"
    /\ session' = "shuttingDown"
    /\ loop' = "draining"
    /\ cancelled' = [a \in Analyses |-> cancelled[a] \/ Live(a)]
    /\ UNCHANGED <<halted, closed, exit, workspace, viewVars, emit,
                   stage, viewOf, outcome, revisionOf, request, outputVars>>

\* closeWorkspaceLocked for every workspace in W.
CloseWorkspacesLocked(W) ==
    LET gone == {v \in Views : WorkspaceOf[v] \in W}
    IN  /\ workspace' = [w \in Workspaces |-> IF w \in W THEN "closed" ELSE workspace[w]]
        /\ cancelled' = [a \in Analyses |-> cancelled[a] \/ \E v \in gone : active[v] = a]
        /\ snapshots' = [v \in Views |-> IF v \in gone THEN <<>> ELSE snapshots[v]]

\* Mutants of FinishShutdown: it does not wait for the handlers, or waits for the
\* analyses as well.
FinishShutdown_NoWait ==
    /\ loop = "draining"
    /\ CloseWorkspacesLocked({w \in Workspaces : workspace[w] = "open"})
    /\ session' = "shutdown"
    /\ loop' = "reading"
    /\ UNCHANGED <<halted, closed, exit, active, failure, revision, emit,
                   stage, viewOf, outcome, revisionOf, request, outputVars>>

FinishShutdown_WaitForAnalyses ==
    /\ NoHandlers
    /\ \A a \in Analyses : ~Live(a)
    /\ FinishShutdown_NoWait

FinishShutdown ==
    /\ loop = "draining"
    /\ NoHandlers
    /\ CloseWorkspacesLocked({w \in Workspaces : workspace[w] = "open"})
    /\ session' = "shutdown"
    /\ loop' = "reading"
    /\ UNCHANGED <<halted, closed, exit, active, failure, revision, emit,
                   stage, viewOf, outcome, revisionOf, request, outputVars>>

\* The context given to Serve ends; Engine.ctx ends with it, whatever Serve is doing.
CancelContext ==
    /\ ~halted
    /\ loop # "returned"
    /\ halted' = TRUE
    /\ UNCHANGED <<session, loop, closed, exit, workspace, viewVars, emit,
                   analysisVars, request, outputVars>>

\* Serve returns and its deferred stop begins by cancelling Engine.ctx.
LeaveLoop(status) ==
    /\ loop = "reading"
    /\ exit' = status
    /\ loop' = "stopping"
    /\ halted' = TRUE
    /\ UNCHANGED <<session, closed, workspace, viewVars, emit, analysisVars,
                   request, outputVars>>

\* The exit notification and the end of input end the session the same way.
Exit == LeaveLoop(IF session = "shutdown" THEN "clean" ELSE "unclean")

FramingError == LeaveLoop("unclean")

\* Mutant of ContextDone: a session that is not initialized does not listen.
ContextDone_OnlyInitialized == halted /\ session = "initialized" /\ LeaveLoop("unclean")

ContextDone == halted /\ LeaveLoop("unclean")

\* The rest of stop, once handlers.Wait returns; then Serve is gone.
Stop ==
    /\ loop = "stopping"
    /\ NoHandlers
    /\ closed' = TRUE
    /\ loop' = "returned"
    /\ UNCHANGED <<session, halted, exit, workspace, viewVars, emit, analysisVars,
                   request, outputVars>>

-----------------------------------------------------------------------------
(* Request handlers: one critical section each, then the response.         *)

OpenWorkspace(r) ==
    /\ Handling(r, "open")
    /\ \/ /\ Answer(r, "invalidParams")
          /\ UNCHANGED workspace
       \/ \E w \in Workspaces :
             /\ workspace[w] = "unopened"
             /\ workspace' = [workspace EXCEPT ![w] = "open"]
             /\ Answer(r, "opened")
    /\ UNCHANGED <<serveVars, viewVars, emit, analysisVars, outputVars>>

CloseWorkspace(r) ==
    LET w == request[r].on
    IN  /\ Handling(r, "close")
        /\ \/ /\ workspace[w] # "open"
              /\ Answer(r, "workspaceNotFound")
              /\ UNCHANGED <<workspace, cancelled, snapshots>>
           \/ /\ workspace[w] = "open"
              /\ CloseWorkspacesLocked({w})
              /\ Answer(r, "closed")
        /\ UNCHANGED <<serveVars, active, failure, revision, emit,
                       stage, viewOf, outcome, revisionOf, outputVars>>

RejectStart(r, v, reply) ==
    /\ \/ reply = "viewNotFound" /\ ~Registered(v)
       \/ reply = "invalidParams" /\ Registered(v)      \* validateHint
       \/ reply = "alreadyRunning" /\ Registered(v) /\ active[v] # None
    /\ Answer(r, reply)
    /\ UNCHANGED <<active, stage, viewOf>>

\* Mutants of AcceptStart: the view may be busy, or the analysis is launched before
\* the response is written.
AcceptStart_BusyView(r, v, a) ==
    /\ Registered(v)
    /\ ~Issued(a)
    /\ active' = [active EXCEPT ![v] = a]
    /\ stage' = [stage EXCEPT ![a] = "registered"]
    /\ viewOf' = [viewOf EXCEPT ![a] = v]
    /\ request' = [request EXCEPT ![r].stage = "answered",
                                  ![r].reply = "started",
                                  ![r].analysis = a]

AcceptStart_LaunchAtOnce(r, v, a) ==
    /\ Registered(v)
    /\ active[v] = None
    /\ ~Issued(a)
    /\ active' = [active EXCEPT ![v] = a]
    /\ stage' = [stage EXCEPT ![a] = "launched"]
    /\ viewOf' = [viewOf EXCEPT ![a] = v]
    /\ request' = [request EXCEPT ![r].stage = "answered",
                                  ![r].reply = "started",
                                  ![r].analysis = a]

AcceptStart(r, v, a) ==
    /\ Registered(v)
    /\ active[v] = None
    /\ ~Issued(a)
    /\ active' = [active EXCEPT ![v] = a]
    /\ stage' = [stage EXCEPT ![a] = "registered"]
    /\ viewOf' = [viewOf EXCEPT ![a] = v]
    /\ request' = [request EXCEPT ![r].stage = "answered",
                                  ![r].reply = "started",
                                  ![r].analysis = a]

StartAnalysis(r) ==
    LET v == request[r].on
    IN  /\ Handling(r, "start")
        /\ \/ \E reply \in Replies : RejectStart(r, v, reply)
           \/ \E a \in Analyses : AcceptStart(r, v, a)
        /\ UNCHANGED <<serveVars, workspace, failure, revision, snapshots, emit,
                       cancelled, outcome, revisionOf, outputVars>>

CancelAnalysis(r) ==
    LET a == request[r].analysis
    IN  /\ Handling(r, "cancel")
        /\ \/ /\ ~Issued(a)
              /\ Answer(r, "analysisNotFound")
              /\ UNCHANGED cancelled
           \/ /\ Terminal(a)
              /\ Answer(r, "alreadyTerminal")
              /\ UNCHANGED cancelled
           \/ /\ Live(a)
              /\ Answer(r, "cancelRequested")
              /\ cancelled' = [cancelled EXCEPT ![a] = TRUE]
        /\ UNCHANGED <<serveVars, workspace, viewVars, emit,
                       stage, viewOf, outcome, revisionOf, outputVars>>

\* What resolveSnapshot says of snapshot a in view v; the query that follows
\* reads an index nobody writes, so it is part of the same step.
Resolve(v, a) ==
    IF ~Registered(v) THEN "viewNotFound"
    ELSE IF \E i \in DOMAIN snapshots[v] : snapshots[v][i] = a THEN "served"
    ELSE "snapshotUnavailable"

Query(r) ==
    /\ Handling(r, "query")
    /\ Answer(r, Resolve(request[r].on, request[r].analysis))
    /\ UNCHANGED <<serveVars, workspace, viewVars, emit, analysisVars, outputVars>>

\* handleSymbolSummary answers from its cache or runs the summarizer command.
Summary(r) ==
    LET reply == Resolve(request[r].on, request[r].analysis)
    IN  /\ Handling(r, "summary")
        /\ \/ Answer(r, reply)
           \/ reply = "served" /\ request' = [request EXCEPT ![r].stage = "summarizing"]
        /\ UNCHANGED <<serveVars, workspace, viewVars, emit, analysisVars, outputVars>>

\* The command ends and releases its output.  The end of Engine.ctx kills the shell
\* only: a child it started may hold the output, and then Run goes on waiting.
SummarizerReturns(r) ==
    /\ request[r].stage = "summarizing"
    /\ \E reply \in {"served", "internalError"} : Answer(r, reply)
    /\ UNCHANGED <<serveVars, workspace, viewVars, emit, analysisVars, outputVars>>

\* The response is written.  Only an accepted start has something to do after.
Respond(r) ==
    LET a == request[r].analysis
        reply == request[r].reply
    IN  /\ request[r].stage = "answered"
        /\ IF reply = "started"
           THEN /\ Write(a, "started")
                /\ request' = [request EXCEPT ![r].stage = "launching"]
                /\ UNCHANGED acked
           ELSE /\ acked' = IF reply = "cancelRequested" THEN acked \cup {a} ELSE acked
                /\ request' = [request EXCEPT ![r] = NoRequest]
                /\ UNCHANGED wire
        /\ UNCHANGED <<serveVars, workspace, viewVars, emit, analysisVars>>

\* handlerResult.after: `go engine.runAnalysis(started)`, then handlers.Done.
Launch(r) ==
    /\ request[r].stage = "launching"
    /\ stage' = [stage EXCEPT ![request[r].analysis] = "launched"]
    /\ request' = [request EXCEPT ![r] = NoRequest]
    /\ UNCHANGED <<serveVars, workspace, viewVars, emit,
                   viewOf, cancelled, outcome, revisionOf, outputVars>>

Handler(r) ==
    \/ OpenWorkspace(r)
    \/ CloseWorkspace(r)
    \/ StartAnalysis(r)
    \/ CancelAnalysis(r)
    \/ Query(r)
    \/ Summary(r)
    \/ Respond(r)
    \/ Launch(r)

-----------------------------------------------------------------------------
(* runAnalysis.  The emit lock of the view is taken with the step that     *)
(* follows it: taking it changes nothing another goroutine can read.       *)

\* Lock emit and read `closed`; a closed session skips the progress message.
Announce(a) ==
    /\ stage[a] = "launched"
    /\ emit[viewOf[a]] = None
    /\ IF closed
       THEN /\ stage' = [stage EXCEPT ![a] = "analyzing"]
            /\ UNCHANGED emit
       ELSE /\ stage' = [stage EXCEPT ![a] = "announcing"]
            /\ emit' = [emit EXCEPT ![viewOf[a]] = a]
    /\ UNCHANGED <<serveVars, workspace, viewVars, viewOf, cancelled, outcome,
                   revisionOf, request, outputVars>>

WriteProgress(a) ==
    /\ stage[a] = "announcing"
    /\ Write(a, "progress")
    /\ emit' = [emit EXCEPT ![viewOf[a]] = None]
    /\ stage' = [stage EXCEPT ![a] = "analyzing"]
    /\ UNCHANGED <<serveVars, workspace, viewVars, viewOf, cancelled, outcome,
                   revisionOf, request, acked>>

\* analyzeSafely: an index, a load error (ctx.Err() included), or a panic or nil index.
AnalyzeReturns(a) ==
    /\ stage[a] = "analyzing"
    /\ stage' = [stage EXCEPT ![a] = "analyzed"]
    /\ \E result \in {"index", "loadError", "internalError"} :
          outcome' = [outcome EXCEPT ![a] = result]
    /\ UNCHANGED <<serveVars, workspace, viewVars, emit, viewOf, cancelled,
                   revisionOf, request, outputVars>>

\* Mutant of Decision: cancellation is not looked at.
Decision_NoCancel(a) ==
    IF ViewClosed(viewOf[a]) THEN "cancelled"
    ELSE IF outcome[a] = "loadError" THEN "loadFailed"
    ELSE IF outcome[a] = "internalError" THEN "internal"
    ELSE "published"

\* commit's decision, in the order of its early returns.
Decision(a) ==
    IF CtxDone(a) \/ ViewClosed(viewOf[a]) THEN "cancelled"
    ELSE IF outcome[a] = "loadError" THEN "loadFailed"
    ELSE IF outcome[a] = "internalError" THEN "internal"
    ELSE "published"

Publish(v, a) ==
    /\ failure' = [failure EXCEPT ![v] = "none"]
    /\ revision' = [revision EXCEPT ![v] = @ + 1]
    /\ revisionOf' = [revisionOf EXCEPT ![a] = revision[v] + 1]
    /\ snapshots' = [snapshots EXCEPT ![v] = Retain(Append(@, a))]

\* Mutants of RecordFailure: cancellations count as failures, or a failure makes the
\* view forget its snapshots.
RecordFailure_Cancelled(v, decision) ==
    /\ failure' = [failure EXCEPT ![v] = decision]
    /\ UNCHANGED <<revision, revisionOf, snapshots>>

RecordFailure_Forget(v, decision) ==
    /\ failure' = IF decision = "cancelled" THEN failure ELSE [failure EXCEPT ![v] = decision]
    /\ snapshots' = [snapshots EXCEPT ![v] = <<>>]
    /\ UNCHANGED <<revision, revisionOf>>

RecordFailure(v, decision) ==
    /\ failure' = IF decision = "cancelled" THEN failure ELSE [failure EXCEPT ![v] = decision]
    /\ UNCHANGED <<revision, revisionOf, snapshots>>

\* Mutants of Commit: the emit lock is left to notify, which then no longer waits,
\* or a cancelled analysis returns before it frees its view.
Commit_NoEmit(a) ==
    LET v == viewOf[a]
        decision == Decision(a)
    IN  /\ stage[a] = "analyzed"
        /\ stage' = [stage EXCEPT ![a] = "committed"]
        /\ active' = [active EXCEPT ![v] = None]
        /\ outcome' = [outcome EXCEPT ![a] = decision]
        /\ IF decision = "published" THEN Publish(v, a) ELSE RecordFailure(v, decision)
        /\ UNCHANGED <<serveVars, workspace, viewOf, emit, cancelled, request, outputVars>>

Commit_KeepView(a) ==
    LET v == viewOf[a]
        decision == Decision(a)
    IN  /\ stage[a] = "analyzed"
        /\ emit[v] = None
        /\ emit' = [emit EXCEPT ![v] = a]
        /\ stage' = [stage EXCEPT ![a] = "committed"]
        /\ active' = IF decision = "cancelled" THEN active ELSE [active EXCEPT ![v] = None]
        /\ outcome' = [outcome EXCEPT ![a] = decision]
        /\ IF decision = "published" THEN Publish(v, a) ELSE RecordFailure(v, decision)
        /\ UNCHANGED <<serveVars, workspace, viewOf, cancelled, request, outputVars>>

\* Lock emit, then commit under Engine.mu; emit stays held until the outcome is written.
Commit(a) ==
    LET v == viewOf[a]
        decision == Decision(a)
    IN  /\ stage[a] = "analyzed"
        /\ emit[v] = None
        /\ emit' = [emit EXCEPT ![v] = a]
        /\ stage' = [stage EXCEPT ![a] = "committed"]
        /\ active' = [active EXCEPT ![v] = None]
        /\ outcome' = [outcome EXCEPT ![a] = decision]
        /\ IF decision = "published" THEN Publish(v, a) ELSE RecordFailure(v, decision)
        /\ UNCHANGED <<serveVars, workspace, viewOf, cancelled, request, outputVars>>

\* The deferred emit.Unlock and started.cancel at the end of runAnalysis.
Finish(a) ==
    /\ emit' = [emit EXCEPT ![viewOf[a]] = None]
    /\ stage' = [stage EXCEPT ![a] = "done"]
    /\ cancelled' = [cancelled EXCEPT ![a] = TRUE]

\* Mutant of Report: cancelled analyses end silently.
Report_SkipCancelled(a) ==
    /\ stage[a] = "committed"
    /\ IF closed \/ outcome[a] = "cancelled"
       THEN Finish(a)
       ELSE /\ stage' = [stage EXCEPT ![a] = "reporting"]
            /\ UNCHANGED <<emit, cancelled>>
    /\ UNCHANGED <<serveVars, workspace, viewVars, viewOf, outcome, revisionOf,
                   request, outputVars>>

\* notify, first half: read `closed` under Engine.mu.
Report(a) ==
    /\ stage[a] = "committed"
    /\ IF closed
       THEN Finish(a)
       ELSE /\ stage' = [stage EXCEPT ![a] = "reporting"]
            /\ UNCHANGED <<emit, cancelled>>
    /\ UNCHANGED <<serveVars, workspace, viewVars, viewOf, outcome, revisionOf,
                   request, outputVars>>

\* notify, second half: write analysis/published or analysis/failed.
WriteOutcome(a) ==
    /\ stage[a] = "reporting"
    /\ Write(a, outcome[a])
    /\ Finish(a)
    /\ UNCHANGED <<serveVars, workspace, viewVars, viewOf, outcome, revisionOf,
                   request, acked>>

Analysis(a) ==
    \/ Announce(a)
    \/ WriteProgress(a)
    \/ AnalyzeReturns(a)
    \/ Commit(a)
    \/ Report(a)
    \/ WriteOutcome(a)

-----------------------------------------------------------------------------

\* Serve has returned and no goroutine is left: the session is over.
Terminated ==
    /\ loop = "returned"
    /\ NoHandlers
    /\ \A a \in Analyses : stage[a] \in {"unissued", "done"}
    /\ UNCHANGED vars

Next ==
    \/ Initialize
    \/ BeginShutdown
    \/ FinishShutdown
    \/ CancelContext
    \/ Exit
    \/ FramingError
    \/ ContextDone
    \/ Stop
    \/ \E r \in Requests : \E q \in ClientRequests : Dispatch(r, q)
    \/ \E r \in Requests : Handler(r)
    \/ \E r \in Requests : SummarizerReturns(r)
    \/ \E a \in Analyses : Analysis(a)
    \/ Terminated

Spec == Init /\ [][Next]_vars

(***************************************************************************)
(* Fairness.  Goroutines that can run do run, and the loop's select sees a *)
(* cancelled context.  Nothing is assumed of the client, of the caller's   *)
(* context or of summarizer commands, which may outlive the context they   *)
(* are given.  Options.Analyze returns once its context is cancelled.      *)
(***************************************************************************)
EngineFairness ==
    /\ WF_vars(FinishShutdown)
    /\ WF_vars(ContextDone)
    /\ WF_vars(Stop)
    /\ \A r \in Requests : WF_vars(Handler(r))
    /\ \A a \in Analyses :
          /\ WF_vars(Announce(a) \/ WriteProgress(a) \/ Commit(a) \/ Report(a) \/ WriteOutcome(a))
          /\ WF_vars(CtxDone(a) /\ AnalyzeReturns(a))

FairSpec == Spec /\ EngineFairness

\* Summarizer commands end by themselves.
SummarizersEnd == \A r \in Requests : WF_vars(SummarizerReturns(r))

-----------------------------------------------------------------------------
(* What the session promises.                                              *)

Stages == {"unissued", "registered", "launched", "announcing", "analyzing",
           "analyzed", "committed", "reporting", "done"}

Decisions == {"published", "cancelled", "loadFailed", "internal"}

HandlerStates ==
    [op : OperationKinds \cup {"none"},
     on : Workspaces \cup Views \cup {None},
     analysis : Analyses \cup {None},
     stage : {"idle", "accepted", "summarizing", "answered", "launching"},
     reply : Replies]

WireEntries == [about : Analyses, kind : {"started", "progress"} \cup Decisions]

TypeOK ==
    /\ session \in {"uninitialized", "initialized", "shuttingDown", "shutdown"}
    /\ loop \in {"reading", "draining", "stopping", "returned"}
    /\ halted \in BOOLEAN
    /\ closed \in BOOLEAN
    /\ exit \in {"running", "clean", "unclean"}
    /\ workspace \in [Workspaces -> {"unopened", "open", "closed"}]
    /\ active \in [Views -> Analyses \cup {None}]
    /\ failure \in [Views -> {"none", "loadFailed", "internal"}]
    /\ revision \in [Views -> Nat]
    /\ snapshots \in [Views -> Seq(Analyses)]
    /\ emit \in [Views -> Analyses \cup {None}]
    /\ stage \in [Analyses -> Stages]
    /\ viewOf \in [Analyses -> Views \cup {None}]
    /\ cancelled \in [Analyses -> BOOLEAN]
    /\ outcome \in [Analyses -> {"none", "index", "loadError", "internalError"} \cup Decisions]
    /\ revisionOf \in [Analyses -> Nat]
    /\ request \in [Requests -> HandlerStates]
    /\ wire \in [Views -> Seq(WireEntries)]
    /\ acked \subseteq Analyses

\* "A language view has at most one analysis in progress": an analysis that was
\* issued and has not committed is the active analysis of its view, whatever
\* handlers, closings and commits ran in between.
OneAnalysisPerView == \A a \in Analyses : Live(a) => active[viewOf[a]] = a

\* A view keeps exactly its current snapshot and the immediate predecessor: the
\* retained snapshots are the last publications, with consecutive revisions, and
\* a closed view keeps none although an analysis may still be running in it.
RetentionWindow ==
    \A v \in Views :
        LET kept == Len(snapshots[v])
        IN  /\ kept = IF ViewClosed(v) THEN 0
                      ELSE IF revision[v] < RetainedSnapshotsPerView THEN revision[v]
                      ELSE RetainedSnapshotsPerView
            /\ \A i \in 1..kept : /\ viewOf[snapshots[v][i]] = v
                                  /\ revisionOf[snapshots[v][i]] = revision[v] - kept + i

\* "... so queries issued just before a publication can still complete": a query
\* of a published snapshot of an open view is refused only when two newer
\* snapshots were published before its handler took the lock.
QueryOutlivesOnePublication ==
    \A r \in Requests :
        LET v == request[r].on
            a == request[r].analysis
        IN  request[r].reply = "snapshotUnavailable" /\ viewOf[a] = v /\ ~ViewClosed(v)
                => revision[v] >= revisionOf[a] + RetainedSnapshotsPerView

\* Cancellation and publication are totally ordered: once a client has been told
\* cancelRequested: true, that analysis is never published, neither in the view
\* nor on the wire.
AcknowledgedCancelNeverPublishes ==
    \A a \in acked : /\ outcome[a] # "published"
                     /\ \A i \in DOMAIN wire[viewOf[a]] :
                           wire[viewOf[a]][i] # Entry(a, "published")

\* A client reads the analysis identifier in the start response before any
\* notification that mentions it.
StartResponseFirst ==
    \A v \in Views : \A j \in DOMAIN wire[v] :
        wire[v][j].kind # "started" =>
            \E i \in 1..(j - 1) : wire[v][i] = Entry(wire[v][j].about, "started")

\* The emit lock keeps the notifications of a view in commit order: those of two
\* analyses never interleave, nothing follows a terminal notification of the same
\* analysis, and publications are announced in revision order.
NotificationsInCommitOrder ==
    \A v \in Views : \A i, j \in DOMAIN wire[v] :
        LET first == wire[v][i]
            second == wire[v][j]
        IN  i < j =>
              /\ first.kind \in Decisions => second.about # first.about
              /\ (first.kind = "published" /\ second.kind = "published")
                    => revisionOf[first.about] < revisionOf[second.about]
              /\ (first.kind = "progress" /\ second.about = first.about)
                    => \A k \in (i + 1)..(j - 1) : wire[v][k].kind = "started"

\* What a client that follows the notifications of a view reconstructs: how many
\* snapshots were published, and the last decision that changes the load state,
\* cancellations left out.
Announced(v) == Cardinality({i \in DOMAIN wire[v] : wire[v][i].kind = "published"})

Settling(v) == {i \in DOMAIN wire[v] : wire[v][i].kind \in Decisions \ {"cancelled"}}

LastSettled(v) ==
    IF Settling(v) = {} THEN "none"
    ELSE wire[v][CHOOSE i \in Settling(v) : \A j \in Settling(v) : j <= i].kind

\* "A client that ... misses a notification can resynchronize from workspace/get
\* alone": outside the window in which a commit is being announced, the load state
\* the engine reports agrees with the one the notifications describe; a cancelled
\* analysis leaves the state it replaced.
LoadStateMatchesNotifications ==
    \A v \in Views : emit[v] = None /\ ~closed /\ ~ViewClosed(v) =>
        /\ revision[v] = Announced(v)
        /\ active[v] = None =>
              LoadState(v) = CASE LastSettled(v) = "none" -> "unscanned"
                               [] LastSettled(v) = "published" -> "ready"
                               [] OTHER -> "failed"

\* Completed shutdown leaves nothing behind: no handler, no open workspace, and
\* every analysis still running, also one whose start was in flight when the
\* active analyses were cancelled, has been asked to stop.
QuietAfterShutdown ==
    session = "shutdown" \/ exit = "clean" =>
        /\ NoHandlers
        /\ \A w \in Workspaces : workspace[w] # "open"
        /\ \A a \in Analyses : Live(a) => CtxDone(a)

\* A cancelled analysis, whoever cancelled it, gives its view back.
CancelledAnalysisFreesView ==
    \A a \in Analyses : \A v \in Views :
        (active[v] = a /\ CtxDone(a)) ~> (active[v] # a)

\* Shutdown waits for the handlers in flight and then completes, in a session nobody
\* cancels if summarizer commands end by themselves.
ShutdownCompletes == SummarizersEnd => ((session = "shuttingDown") ~> (session = "shutdown"))

\* A summarizer command runs, or its output is still held.
CommandRuns == \E r \in Requests : request[r].stage = "summarizing"

\* When the caller's context ends, Serve returns, in whatever state the session is and
\* whatever handlers and analyses are about: only a summarizer command whose output is
\* never released can prevent it, and it alone.
ContextEndsServe == halted ~> (loop = "returned" \/ []CommandRuns)

\* Every committed analysis is reported to the client, unless the session stops.
OutcomeIsReported ==
    \A a \in Analyses :
        Terminal(a) ~> (closed \/ \E v \in Views : \E i \in DOMAIN wire[v] :
                                     wire[v][i] = Entry(a, outcome[a]))

\* "stop ... silences late analysis notifications": nothing is written once Serve
\* has returned.
SilentAfterReturn == [][loop = "returned" => UNCHANGED wire]_vars
============================================================================
