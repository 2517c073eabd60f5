---------------------------- MODULE ScanAdapter ----------------------------
(***************************************************************************)
(* Scans of one language view by the HTTP adapter (internal/server): Scan, *)
(* awaitAnalysis and recordOutcome, over the protocol client and the       *)
(* engine.                                                                 *)
(*                                                                         *)
(* The engine is the part of EngineSession a scan can see: start requests, *)
(* cancellations and queries are answered by goroutines, an analysis runs  *)
(* once its start response is written, and outcomes are written in commit  *)
(* order after their view is free again.  The client delivers the stream   *)
(* in order: a response to its call, an outcome to recordOutcome, which    *)
(* runs on the read loop.  A scan runs in the goroutine of its HTTP        *)
(* request, whose context may end at any time.                             *)
(***************************************************************************)
EXTENDS Naturals, Sequences, FiniteSets

CONSTANTS
    Scans,     \* HTTP requests that can be open at once, one Scan each
    Analyses,  \* bound: the identifiers the engine issues, a counter
    Pages,     \* pages of diagnostics and changes a scan collects
    None

ASSUME ScanAssumption ==
    /\ None \notin Scans \cup Analyses
    /\ Pages \in Nat \ {0}
    /\ IsFiniteSet(Scans) /\ IsFiniteSet(Analyses)
    /\ Analyses \subseteq Nat

VARIABLES
    at,         \* where each scan is
    analysisOf, \* the analysis its start response named
    learned,    \* the outcome awaitAnalysis returned
    collected,  \* pages collected
    result,     \* how the scan ended
    gone,       \* scans whose request context has ended
    waiters,    \* App.waiters: the scan that waits for an analysis
    channel,    \* what is in the channel made to wait for an analysis
    finished,   \* App.finished
    abandoned,  \* App.abandoned
    heard,      \* analyses whose outcome recordOutcome has been given
    call,       \* the protocol call a scan has outstanding
    reply,      \* the response delivered to that call
    lost,       \* Client.Done is closed
    answer,     \* a response the engine has computed and not yet written
    stage,      \* each analysis: unissued, registered, running, committed, reported
    active,     \* the analysis holding the view
    cancelled,  \* analyses whose context is cancelled
    decided,    \* what commit decided
    published,  \* the analyses that published, in order
    emit,       \* the analysis holding the emit lock
    stream      \* what the engine wrote and the client has not read

scanVars   == <<at, analysisOf, learned, collected, result, gone>>
appVars    == <<waiters, channel, finished, abandoned, heard>>
clientVars == <<call, reply, lost>>
engineVars == <<answer, stage, active, cancelled, decided, published, emit, stream>>
vars == <<scanVars, appVars, clientVars, engineVars>>

-----------------------------------------------------------------------------

RetainedSnapshotsPerView == 2

\* An engine response, or the outcome of an analysis.
Reply(s, what, a)  == [to |-> s, what |-> what, analysis |-> a]
Outcome(a, what)   == [to |-> None, what |-> what, analysis |-> a]

NoReply == Reply(None, "none", None)
NoCall  == [op |-> "none", analysis |-> None]

Init ==
    /\ at = [s \in Scans |-> "idle"]
    /\ analysisOf = [s \in Scans |-> None]
    /\ learned = [s \in Scans |-> "none"]
    /\ collected = [s \in Scans |-> 0]
    /\ result = [s \in Scans |-> "none"]
    /\ gone = {}
    /\ waiters = [a \in Analyses |-> None]
    /\ channel = [a \in Analyses |-> "none"]
    /\ finished = [a \in Analyses |-> "none"]
    /\ abandoned = {}
    /\ heard = {}
    /\ call = [s \in Scans |-> NoCall]
    /\ reply = [s \in Scans |-> NoReply]
    /\ lost = FALSE
    /\ answer = [s \in Scans |-> NoReply]
    /\ stage = [a \in Analyses |-> "unissued"]
    /\ active = None
    /\ cancelled = {}
    /\ decided = [a \in Analyses |-> "none"]
    /\ published = <<>>
    /\ emit = None
    /\ stream = <<>>

-----------------------------------------------------------------------------
(* A scan.                                                                 *)

\* The request is answered, and its context is no longer of interest.
End(s, how) ==
    /\ at' = [at EXCEPT ![s] = "done"]
    /\ result' = [result EXCEPT ![s] = how]
    /\ collected' = [collected EXCEPT ![s] = 0]
    /\ gone' = gone \ {s}

\* client.Call sends a request; a client whose stream has ended refuses it.
Send(s, op, a) == call' = [call EXCEPT ![s] = [op |-> op, analysis |-> a]]

Hangs(s) == call[s].op # "none" /\ reply[s] = NoReply
Replied(s) == reply[s] # NoReply

\* The call returns: its identifier is unregistered, so a later response is dropped.
Forget(s) ==
    /\ call' = [call EXCEPT ![s] = NoCall]
    /\ reply' = [reply EXCEPT ![s] = NoReply]

\* Of the former request of s nothing is in transit any more.
Fresh(s) ==
    /\ at[s] \in {"idle", "done"}
    /\ answer[s] = NoReply
    /\ \A i \in DOMAIN stream : stream[i].to # s

\* Bound: identifiers are left for all starts under way.
IdentifiersLeft ==
    Cardinality({s \in Scans : at[s] = "starting"}) < Cardinality({a \in Analyses : stage[a] = "unissued"})

\* A request arrives.
Start(s) ==
    /\ Fresh(s)
    /\ IdentifiersLeft
    /\ analysisOf' = [analysisOf EXCEPT ![s] = None]
    /\ learned' = [learned EXCEPT ![s] = "none"]
    /\ IF lost
       THEN End(s, "closed") /\ UNCHANGED call
       ELSE /\ at' = [at EXCEPT ![s] = "starting"]
            /\ result' = [result EXCEPT ![s] = "none"]
            /\ Send(s, "start", None)
            /\ UNCHANGED <<collected, gone>>
    /\ UNCHANGED <<appVars, reply, lost, engineVars>>

\* Mutant: the start call runs under the request's context.
StartReturns_RequestContext(s) ==
    /\ at[s] = "starting"
    /\ \/ /\ Replied(s)
          /\ reply[s].what = "started"
          /\ at' = [at EXCEPT ![s] = "accepted"]
          /\ analysisOf' = [analysisOf EXCEPT ![s] = reply[s].analysis]
          /\ UNCHANGED <<result, collected, gone>>
       \/ /\ Replied(s) \/ s \in gone \/ lost
          /\ Replied(s) => reply[s].what = "alreadyRunning"
          /\ End(s, IF s \in gone THEN "gone" ELSE "conflict")
          /\ UNCHANGED analysisOf
    /\ Forget(s)
    /\ UNCHANGED <<learned, appVars, lost, engineVars>>

\* StartAnalysis returns.  Its context is not the request's, so a request that is
\* gone still learns its analysis.
StartReturns(s) ==
    /\ at[s] = "starting"
    /\ \/ /\ Replied(s)
          /\ reply[s].what = "started"
          /\ at' = [at EXCEPT ![s] = "accepted"]
          /\ analysisOf' = [analysisOf EXCEPT ![s] = reply[s].analysis]
          /\ UNCHANGED <<result, collected, gone>>
       \/ /\ Replied(s)
          /\ reply[s].what = "alreadyRunning"
          /\ End(s, "conflict")
          /\ UNCHANGED analysisOf
       \/ /\ lost /\ Hangs(s)
          /\ End(s, "closed")
          /\ UNCHANGED analysisOf
    /\ Forget(s)
    /\ UNCHANGED <<learned, appVars, lost, engineVars>>

\* awaitAnalysis took the outcome.
Learn(s, outcome) ==
    /\ learned' = [learned EXCEPT ![s] = outcome]
    /\ IF outcome = "published"
       THEN at' = [at EXCEPT ![s] = "reporting"] /\ UNCHANGED <<result, collected, gone>>
       ELSE End(s, "failed")

\* Mutant: the early outcomes are not looked at.
Await_Waits(s) ==
    /\ at[s] = "accepted"
    /\ waiters' = [waiters EXCEPT ![analysisOf[s]] = s]
    /\ at' = [at EXCEPT ![s] = "waiting"]
    /\ UNCHANGED <<analysisOf, learned, collected, result, gone, channel, finished,
                   abandoned, heard, clientVars, engineVars>>

\* The first critical section of awaitAnalysis.
Await(s) ==
    LET a == analysisOf[s]
    IN  /\ at[s] = "accepted"
        /\ IF finished[a] # "none"
           THEN /\ Learn(s, finished[a])
                /\ finished' = [finished EXCEPT ![a] = "none"]
                /\ UNCHANGED waiters
           ELSE /\ waiters' = [waiters EXCEPT ![a] = s]
                /\ at' = [at EXCEPT ![s] = "waiting"]
                /\ UNCHANGED <<learned, result, collected, gone, finished>>
        /\ UNCHANGED <<analysisOf, channel, abandoned, heard, clientVars, engineVars>>

\* The select: any branch that is ready.
AwaitOutcome(s) ==
    /\ at[s] = "waiting"
    /\ channel[analysisOf[s]] # "none"
    /\ Learn(s, channel[analysisOf[s]])
    /\ channel' = [channel EXCEPT ![analysisOf[s]] = "none"]
    /\ UNCHANGED <<analysisOf, waiters, finished, abandoned, heard, clientVars, engineVars>>

AwaitClosed(s) ==
    /\ at[s] = "waiting"
    /\ lost
    /\ End(s, "closed")
    /\ UNCHANGED <<analysisOf, learned, appVars, clientVars, engineVars>>

\* Mutant: a request that is gone does not cancel its analysis.
AwaitGone_NoCancel(s) ==
    /\ at[s] = "waiting"
    /\ s \in gone
    /\ waiters' = [waiters EXCEPT ![analysisOf[s]] = None]
    /\ abandoned' = abandoned \cup {analysisOf[s]}
    /\ End(s, "gone")
    /\ UNCHANGED <<analysisOf, learned, channel, finished, heard, call, reply, lost, engineVars>>

AwaitGone(s) ==
    LET a == analysisOf[s]
    IN  /\ at[s] = "waiting"
        /\ s \in gone
        /\ waiters' = [waiters EXCEPT ![a] = None]
        /\ abandoned' = abandoned \cup {a}
        /\ IF lost
           THEN End(s, "gone") /\ UNCHANGED call
           ELSE /\ Send(s, "cancel", a)
                /\ at' = [at EXCEPT ![s] = "cancelling"]
                /\ UNCHANGED <<result, collected, gone>>
        /\ UNCHANGED <<analysisOf, learned, channel, finished, heard, reply, lost, engineVars>>

\* CancelAnalysis returns, whatever it returns.
CancelReturns(s) ==
    /\ at[s] = "cancelling"
    /\ Replied(s) \/ lost
    /\ Forget(s)
    /\ End(s, "gone")
    /\ UNCHANGED <<analysisOf, learned, appVars, lost, engineVars>>

\* loadReport and gitStatus: one request for each page, under the request's context.
AskPage(s) ==
    /\ at[s] = "reporting"
    /\ call[s] = NoCall
    /\ IF lost
       THEN End(s, "closed") /\ UNCHANGED call
       ELSE Send(s, "page", analysisOf[s]) /\ UNCHANGED <<at, result, collected, gone>>
    /\ UNCHANGED <<analysisOf, learned, appVars, reply, lost, engineVars>>

PageReturns(s) ==
    /\ at[s] = "reporting"
    /\ call[s].op = "page"
    /\ \/ /\ Replied(s)
          /\ reply[s].what = "page"
          /\ IF collected[s] + 1 = Pages
             THEN End(s, "scanned")
             ELSE collected' = [collected EXCEPT ![s] = @ + 1] /\ UNCHANGED <<at, result, gone>>
       \/ /\ Replied(s)
          /\ reply[s].what = "snapshotUnavailable"
          /\ End(s, "unavailable")
       \/ /\ lost /\ Hangs(s)
          /\ End(s, "closed")
       \/ /\ s \in gone
          /\ End(s, "gone")
    /\ Forget(s)
    /\ UNCHANGED <<analysisOf, learned, appVars, lost, engineVars>>

Scan(s) ==
    \/ StartReturns(s)
    \/ Await(s)
    \/ AwaitOutcome(s)
    \/ AwaitClosed(s)
    \/ AwaitGone(s)
    \/ CancelReturns(s)
    \/ AskPage(s)
    \/ PageReturns(s)

\* The browser disconnects.
GoAway(s) ==
    /\ s \notin gone
    /\ at[s] \notin {"idle", "done"}
    /\ gone' = gone \cup {s}
    /\ UNCHANGED <<at, analysisOf, learned, collected, result, appVars, clientVars, engineVars>>

-----------------------------------------------------------------------------
(* The client's read loop.                                                 *)

\* Mutant: an outcome wakes whoever waits, not the waiter of its analysis.
RecordOutcome_WakesAny(a, outcome) ==
    /\ heard' = heard \cup {a}
    /\ abandoned' = abandoned \ {a}
    /\ IF a \notin abandoned /\ \E b \in Analyses : waiters[b] # None
       THEN \E b \in Analyses :
               /\ waiters[b] # None
               /\ waiters' = [waiters EXCEPT ![b] = None]
               /\ channel' = [channel EXCEPT ![b] = outcome]
               /\ UNCHANGED finished
       ELSE /\ finished' = IF a \in abandoned THEN finished ELSE [finished EXCEPT ![a] = outcome]
            /\ UNCHANGED <<waiters, channel>>

\* Mutant: an outcome nobody waits for is dropped.
RecordOutcome_DropsEarly(a, outcome) ==
    /\ heard' = heard \cup {a}
    /\ abandoned' = abandoned \ {a}
    /\ waiters' = [waiters EXCEPT ![a] = None]
    /\ channel' = IF waiters[a] # None THEN [channel EXCEPT ![a] = outcome] ELSE channel
    /\ UNCHANGED finished

\* Mutant: the mark of an abandoned analysis is kept.
RecordOutcome_KeepsMark(a, outcome) ==
    /\ heard' = heard \cup {a}
    /\ waiters' = [waiters EXCEPT ![a] = None]
    /\ channel' = IF waiters[a] # None THEN [channel EXCEPT ![a] = outcome] ELSE channel
    /\ finished' = IF waiters[a] = None /\ a \notin abandoned
                   THEN [finished EXCEPT ![a] = outcome]
                   ELSE finished
    /\ UNCHANGED abandoned

RecordOutcome(a, outcome) ==
    /\ heard' = heard \cup {a}
    /\ IF a \in abandoned
       THEN /\ abandoned' = abandoned \ {a}
            /\ UNCHANGED <<waiters, channel, finished>>
       ELSE IF waiters[a] # None
       THEN /\ waiters' = [waiters EXCEPT ![a] = None]
            /\ channel' = [channel EXCEPT ![a] = outcome]
            /\ UNCHANGED <<finished, abandoned>>
       ELSE /\ finished' = [finished EXCEPT ![a] = outcome]
            /\ UNCHANGED <<waiters, channel, abandoned>>

\* A response whose call has returned is dropped.
Deliver ==
    /\ ~lost
    /\ stream # <<>>
    /\ stream' = Tail(stream)
    /\ LET message == Head(stream)
       IN  IF message.to = None
           THEN RecordOutcome(message.analysis, message.what) /\ UNCHANGED reply
           ELSE /\ reply' = IF Hangs(message.to)
                            THEN [reply EXCEPT ![message.to] = message]
                            ELSE reply
                /\ UNCHANGED appVars
    /\ UNCHANGED <<scanVars, call, lost, answer, stage, active, cancelled, decided,
                   published, emit>>

\* The client's read loop ends: with the stream, or at a frame it refuses.  What was not
\* written by then, and what lies behind that frame, is lost.
Disconnect ==
    /\ ~lost
    /\ lost' = TRUE
    /\ stream' = <<>>
    /\ answer' = [s \in Scans |-> NoReply]
    /\ UNCHANGED <<scanVars, appVars, call, reply, stage, active, cancelled, decided,
                   published, emit>>

-----------------------------------------------------------------------------
(* The engine.                                                             *)

Unanswered(s, op) ==
    /\ ~lost
    /\ call[s].op = op
    /\ answer[s] = NoReply
    /\ reply[s] = NoReply
    /\ \A i \in DOMAIN stream : stream[i].to # s

EngineStarts(s) ==
    /\ Unanswered(s, "start")
    /\ IF active # None
       THEN /\ answer' = [answer EXCEPT ![s] = Reply(s, "alreadyRunning", None)]
            /\ UNCHANGED <<stage, active>>
       ELSE \E a \in Analyses :
               /\ stage[a] = "unissued"
               /\ \A b \in Analyses : b < a => stage[b] # "unissued"
               /\ stage' = [stage EXCEPT ![a] = "registered"]
               /\ active' = a
               /\ answer' = [answer EXCEPT ![s] = Reply(s, "started", a)]
    /\ UNCHANGED <<scanVars, appVars, clientVars, cancelled, decided, published, emit, stream>>

EngineCancels(s) ==
    LET a == call[s].analysis
    IN  /\ Unanswered(s, "cancel")
        /\ cancelled' = IF decided[a] = "none" THEN cancelled \cup {a} ELSE cancelled
        /\ answer' = [answer EXCEPT ![s] = Reply(s, "cancelRequested", a)]
        /\ UNCHANGED <<scanVars, appVars, clientVars, stage, active, decided, published,
                       emit, stream>>

\* The snapshot of a is among the newest n publications.
Kept(a, n) == \E i \in DOMAIN published : published[i] = a /\ Len(published) - i < n

\* Mutant: a view keeps one snapshot.
EngineServesPage_KeepsOne(s) ==
    LET a == call[s].analysis
    IN  /\ Unanswered(s, "page")
        /\ answer' = [answer EXCEPT ![s] =
                         Reply(s, IF Kept(a, 1) THEN "page" ELSE "snapshotUnavailable", a)]
        /\ UNCHANGED <<scanVars, appVars, clientVars, stage, active, cancelled, decided,
                       published, emit, stream>>

EngineServesPage(s) ==
    LET a == call[s].analysis
    IN  /\ Unanswered(s, "page")
        /\ answer' = [answer EXCEPT ![s] =
                         Reply(s, IF Kept(a, RetainedSnapshotsPerView)
                                  THEN "page"
                                  ELSE "snapshotUnavailable", a)]
        /\ UNCHANGED <<scanVars, appVars, clientVars, stage, active, cancelled, decided,
                       published, emit, stream>>

\* A response is written; an accepted analysis is launched after it.
EngineResponds(s) ==
    /\ ~lost
    /\ answer[s] # NoReply
    /\ stream' = Append(stream, answer[s])
    /\ stage' = IF answer[s].what = "started"
                THEN [stage EXCEPT ![answer[s].analysis] = "running"]
                ELSE stage
    /\ answer' = [answer EXCEPT ![s] = NoReply]
    /\ UNCHANGED <<scanVars, appVars, clientVars, active, cancelled, decided, published, emit>>

\* The analysis ends and commits: cancelled, failed or published.  What the engine
\* does once its stream has ended nobody sees.
EngineCommits(a, decision) ==
    /\ ~lost
    /\ stage[a] = "running"
    /\ emit = None
    /\ decision = "cancelled" <=> a \in cancelled
    /\ emit' = a
    /\ stage' = [stage EXCEPT ![a] = "committed"]
    /\ active' = None
    /\ decided' = [decided EXCEPT ![a] = decision]
    /\ published' = IF decision = "published" THEN Append(published, a) ELSE published
    /\ UNCHANGED <<scanVars, appVars, clientVars, answer, cancelled, stream>>

EngineReports(a) ==
    /\ ~lost
    /\ stage[a] = "committed"
    /\ stream' = Append(stream, Outcome(a, decided[a]))
    /\ stage' = [stage EXCEPT ![a] = "reported"]
    /\ emit' = None
    /\ UNCHANGED <<scanVars, appVars, clientVars, answer, active, cancelled, decided, published>>

Commits(a) == \E decision \in {"published", "failed", "cancelled"} : EngineCommits(a, decision)

-----------------------------------------------------------------------------

\* No request is open and nothing is in transit.
Terminated ==
    /\ \A s \in Scans : at[s] \in {"idle", "done"}
    /\ stream = <<>>
    /\ UNCHANGED vars

Next ==
    \/ \E s \in Scans : Start(s) \/ Scan(s) \/ GoAway(s)
    \/ Deliver
    \/ Disconnect
    \/ \E s \in Scans : EngineStarts(s) \/ EngineCancels(s) \/ EngineServesPage(s) \/ EngineResponds(s)
    \/ \E a \in Analyses : Commits(a) \/ EngineReports(a)
    \/ Terminated

Spec == Init /\ [][Next]_vars

(***************************************************************************)
(* Fairness.  The goroutines of the adapter, the client and the engine run *)
(* when they can; the view runs one analysis at a time, and reports one    *)
(* outcome at a time.  A cancelled analysis ends ("WorkspaceAnalyzer stops *)
(* when its context is cancelled"); nothing is assumed of any other.       *)
(***************************************************************************)
FairSpec ==
    /\ Spec
    /\ WF_vars(Deliver)
    /\ \A s \in Scans :
          /\ WF_vars(Scan(s))
          /\ WF_vars(EngineStarts(s) \/ EngineCancels(s) \/ EngineServesPage(s) \/ EngineResponds(s))
    /\ WF_vars(\E a \in cancelled : Commits(a))
    /\ WF_vars(\E a \in Analyses : EngineReports(a))

-----------------------------------------------------------------------------
(* What the adapter promises.                                              *)

Decisions == {"published", "failed", "cancelled"}

Replies == [to : Scans, what : {"started", "alreadyRunning", "cancelRequested", "page",
                                "snapshotUnavailable"},
            analysis : Analyses \cup {None}]

Outcomes == [to : {None}, what : Decisions, analysis : Analyses]

Ends == {"none", "scanned", "failed", "conflict", "unavailable", "closed", "gone"}

ScanTypes ==
    /\ at \in [Scans -> {"idle", "starting", "accepted", "waiting", "cancelling",
                          "reporting", "done"}]
    /\ analysisOf \in [Scans -> Analyses \cup {None}]
    /\ learned \in [Scans -> Decisions \cup {"none"}]
    /\ collected \in [Scans -> 0..(Pages - 1)]
    /\ result \in [Scans -> Ends]
    /\ gone \subseteq Scans

AppTypes ==
    /\ waiters \in [Analyses -> Scans \cup {None}]
    /\ channel \in [Analyses -> Decisions \cup {"none"}]
    /\ finished \in [Analyses -> Decisions \cup {"none"}]
    /\ abandoned \subseteq Analyses
    /\ heard \subseteq Analyses

ClientTypes ==
    /\ call \in [Scans -> [op : {"none", "start", "cancel", "page"},
                            analysis : Analyses \cup {None}]]
    /\ reply \in [Scans -> Replies \cup {NoReply}]
    /\ lost \in BOOLEAN

EngineTypes ==
    /\ answer \in [Scans -> Replies \cup {NoReply}]
    /\ stage \in [Analyses -> {"unissued", "registered", "running", "committed", "reported"}]
    /\ active \in Analyses \cup {None}
    /\ cancelled \subseteq Analyses
    /\ decided \in [Analyses -> Decisions \cup {"none"}]
    /\ published \in Seq(Analyses)
    /\ emit \in Analyses \cup {None}
    /\ stream \in Seq(Replies \cup Outcomes)

TypeOK == ScanTypes /\ AppTypes /\ ClientTypes /\ EngineTypes

\* A scan learns the outcome of the analysis it started, also when the outcomes of
\* several analyses arrive while their scans are not yet waiting or already gone.
OwnOutcome ==
    \A s \in Scans : learned[s] # "none" => learned[s] = decided[analysisOf[s]]

\* An outcome that arrives before the scan that wants it is waiting is kept for it;
\* one that arrives while it waits is in its channel.
NoOutcomeLost ==
    \A s \in Scans :
        analysisOf[s] \in heard =>
            /\ at[s] = "accepted" => finished[analysisOf[s]] = decided[analysisOf[s]]
            /\ at[s] = "waiting"  => channel[analysisOf[s]] = decided[analysisOf[s]]

\* Scan s is about to look for the outcome of a.
Claims(s, a) == \/ at[s] = "accepted" /\ analysisOf[s] = a
                \/ at[s] = "starting" /\ reply[s].analysis = a

\* Neither map of the adapter grows.  An early outcome is kept only for a scan that
\* is about to take it.  An abandoned analysis is forgotten when its outcome arrives,
\* with one exception: a request that ends just when its outcome is in its channel
\* leaves a mark nothing removes (awaitAnalysis, recordOutcome).
RecordsAreClaimed ==
    /\ \A a \in Analyses : finished[a] # "none" => \E s \in Scans : Claims(s, a)
    /\ \A a \in abandoned \cap heard : channel[a] # "none"

\* A scan that published fails with snapshotUnavailable only if two other scans of
\* the view published while it collected its pages.
UnavailableNeedsTwoPublications ==
    \A s \in Scans :
        result[s] = "unavailable" =>
            \E i, j, k \in DOMAIN published :
                i < j /\ j < k /\ published[i] = analysisOf[s]

Requesting(s) == at[s] \notin {"idle", "done"} /\ s \notin gone

\* "A disconnected browser does not leave an analysis holding the view", whenever it
\* disconnects: when no request is waiting for a scan, the view becomes free.
GoneScanFreesView ==
    (\A s \in Scans : ~Requesting(s)) ~>
        (lost \/ active = None \/ \E s \in Scans : Requesting(s))

\* A scan ends once its analysis is decided, its request is gone or the engine is.
ScanEnds ==
    \A s \in Scans :
        ( /\ at[s] # "idle"
          /\ \/ lost
             \/ s \in gone
             \/ \E a \in Analyses : analysisOf[s] = a /\ decided[a] # "none" )
          ~> (at[s] = "done")
============================================================================
