----------------------- MODULE EngineSessionInvariant -----------------------
(***************************************************************************)
(* The inductive invariant behind the safety properties of EngineSession:  *)
(* what is true between any two critical sections of the engine.           *)
(***************************************************************************)
EXTENDS EngineSession

\* The fields of a request that its operation, its reply and its stage promise.
RequestsWellFormed ==
    \A r \in Requests :
        /\ request[r].op = "close" => request[r].on \in Workspaces
        /\ request[r].op \in {"start", "query", "summary"} => request[r].on \in Views
        /\ request[r].op \in {"cancel", "query", "summary"} => request[r].analysis \in Analyses
        /\ request[r].reply = "started" => request[r].analysis \in Analyses
        /\ request[r].stage = "launching" => request[r].reply = "started"
        /\ request[r].reply = "cancelRequested" => request[r].op = "cancel"

TypeInv == TypeOK /\ RequestsWellFormed

\* An analysis has a view from the moment it is issued, and only then.
IssuedHaveViews == \A a \in Analyses : Issued(a) <=> viewOf[a] \in Views

\* The outcome of an analysis is a decision once commit has run, and not before.
CommitDecides == \A a \in Analyses : Terminal(a) <=> outcome[a] \in Decisions

\* view.active points at an analysis of that view that has not committed.
ActiveIsLive ==
    \A v \in Views : active[v] # None => Live(active[v]) /\ viewOf[active[v]] = v

\* A handler that accepted a start owns the launch of its analysis: nobody else
\* launches it, and it has not been launched before the handler does.
StartsPending ==
    \A r \in Requests : request[r].reply = "started" =>
        /\ stage[request[r].analysis] = "registered"
        /\ \A other \in Requests :
              request[other].reply = "started" /\ request[other].analysis = request[r].analysis
                  => other = r

Ownership ==
    /\ IssuedHaveViews
    /\ CommitDecides
    /\ ActiveIsLive
    /\ OneAnalysisPerView
    /\ StartsPending

\* A client that was, or is about to be, told cancelRequested named an analysis
\* whose context is cancelled and which was not published.
CancelsHeld == {a \in Analyses : Issued(a) /\ cancelled[a] /\ outcome[a] # "published"}

CancellationHolds ==
    /\ \A r \in Requests :
          request[r].reply = "cancelRequested" => request[r].analysis \in CancelsHeld
    /\ acked \subseteq CancelsHeld

\* What is on the wire is true: a terminal notification of an analysis is in the
\* stream of its view and names the outcome that commit decided.
WireIsTrue ==
    \A v \in Views : \A i \in DOMAIN wire[v] :
        LET entry == wire[v][i]
        IN  /\ viewOf[entry.about] = v
            /\ entry.kind \in Decisions => outcome[entry.about] = entry.kind

\* Nothing was ever issued in a workspace that was not opened, and an analysis
\* still running in a closed one has been cancelled.
ClosedIsCancelled ==
    \A a \in Analyses :
        /\ Issued(a) => workspace[WorkspaceOf[viewOf[a]]] # "unopened"
        /\ Live(a) /\ ViewClosed(viewOf[a]) => cancelled[a]

\* The read loop only drains a session that is shutting down, and a session that
\* was shut down has no handler.
LoopMatchesSession ==
    /\ loop = "draining" => session = "shuttingDown"
    /\ session = "shutdown" => NoHandlers /\ \A w \in Workspaces : workspace[w] # "open"
    /\ exit = "clean" => session = "shutdown"

\* Every retained snapshot is a published analysis.
SnapshotsPublished ==
    \A v \in Views : \A i \in DOMAIN snapshots[v] : outcome[snapshots[v][i]] = "published"

-----------------------------------------------------------------------------
(* What queries and the output stream rest on.                             *)

\* Exactly the published analyses have a revision, their view has reached it, and no
\* two of a view share one.
Published(a) == outcome[a] = "published"

Numbering ==
    /\ \A a \in Analyses : IF Published(a) THEN revisionOf[a] \in 1..revision[viewOf[a]]
                                          ELSE revisionOf[a] = 0
    /\ \A a, b \in Analyses :
          Published(a) /\ Published(b) /\ viewOf[a] = viewOf[b] /\ revisionOf[a] = revisionOf[b]
              => a = b

\* A query names a published snapshot, and only queries are told that one is gone.
QueriesNamePublished ==
    \A r \in Requests :
        /\ request[r].op \in {"query", "summary"} => Published(request[r].analysis)
        /\ request[r].reply = "snapshotUnavailable" => request[r].op \in {"query", "summary"}

\* The start response of a is on the wire.
StartWritten(a) == \E i \in DOMAIN wire[viewOf[a]] : wire[viewOf[a]][i] = Entry(a, "started")

\* An analysis runs, and its handler launches it, only once its start was answered.
LaunchedAfterResponse ==
    /\ \A a \in Analyses : stage[a] \notin {"unissued", "registered"} => StartWritten(a)
    /\ \A r \in Requests : request[r].stage = "launching" => StartWritten(request[r].analysis)

\* Where an analysis holds the emit lock of its view; while one that committed holds
\* it, no other analysis of the view has gone past its own first lock, and the view's
\* last publication is the one about to be announced.
EmitIsHeld ==
    /\ \A a \in Analyses :
          stage[a] \in {"announcing", "committed", "reporting"} => emit[viewOf[a]] = a
    /\ \A a, b \in Analyses :
          stage[a] \in {"committed", "reporting"} /\ stage[b] \in {"analyzing", "analyzed"}
              => viewOf[a] # viewOf[b]
    /\ \A a \in Analyses :
          stage[a] \in {"committed", "reporting"} /\ Published(a)
              => revisionOf[a] = revision[viewOf[a]]

\* How far an analysis is once its notifications are on the wire; until it is done,
\* only start responses follow its progress message.
WireFollowsStage ==
    \A v \in Views : \A i \in DOMAIN wire[v] :
        LET entry == wire[v][i]
        IN  /\ entry.kind \in Decisions => stage[entry.about] = "done"
            /\ entry.kind = "progress" =>
                  /\ stage[entry.about] \in
                        {"analyzing", "analyzed", "committed", "reporting", "done"}
                  /\ stage[entry.about] # "done" =>
                        \A k \in (i + 1)..Len(wire[v]) : wire[v][k].kind = "started"

\* The decisions announced for a view have a last one.
SettlingHasLast ==
    \A v \in Views : Settling(v) # {} => \E i \in Settling(v) : \A j \in Settling(v) : j <= i

\* A commit of view v that is still to be announced.
Unannounced(v) ==
    {a \in Analyses : viewOf[a] = v /\ stage[a] \in {"committed", "reporting"}}

\* Until the session stops, what a view has and what its notifications say differ by
\* the commit that is being announced.
AnnouncementsKeepUp ==
    ~closed => \A v \in Views :
        /\ revision[v] = Announced(v)
               + IF \E a \in Unannounced(v) : Published(a) THEN 1 ELSE 0
        /\ \A a \in Unannounced(v) : outcome[a] # "cancelled" =>
               failure[v] = IF Published(a) THEN "none" ELSE outcome[a]
        /\ (\A a \in Unannounced(v) : outcome[a] = "cancelled") =>
               failure[v] = IF LastSettled(v) \in {"none", "published"} THEN "none"
                            ELSE LastSettled(v)

Inductive ==
    /\ TypeInv
    /\ Ownership
    /\ CancellationHolds
    /\ WireIsTrue
    /\ ClosedIsCancelled
    /\ LoopMatchesSession
    /\ SnapshotsPublished
    /\ RetentionWindow
    /\ Numbering
    /\ QueriesNamePublished
    /\ LaunchedAfterResponse
    /\ EmitIsHeld
    /\ WireFollowsStage
    /\ SettlingHasLast
    /\ AnnouncementsKeepUp
============================================================================
