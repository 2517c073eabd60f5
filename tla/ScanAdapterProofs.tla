-------------------------- MODULE ScanAdapterProofs --------------------------
(***************************************************************************)
(* Theorems about ScanAdapter, for any number of scans, analyses and       *)
(* pages.  Inductive is kept by every step; the promises follow from it.   *)
(***************************************************************************)
EXTENDS ScanAdapterInvariant, SequenceTheorems, TLAPS

-----------------------------------------------------------------------------
(* Types.                                                                  *)

\* A scan that ends keeps its types.
LEMMA EndTypes ==
    ASSUME ScanTypes, NEW s \in Scans, NEW how \in Ends, End(s, how),
           analysisOf' \in [Scans -> Analyses \cup {None}],
           learned' \in [Scans -> Decisions \cup {"none"}]
    PROVE  ScanTypes'
<1>1. 0 \in 0..(Pages - 1)
  BY ScanAssumption
<1>2. QED
  BY <1>1 DEF End, ScanTypes

\* A scan that learns an outcome keeps its types.
LEMMA LearnTypes ==
    ASSUME ScanTypes, NEW s \in Scans, NEW outcome \in Decisions, Learn(s, outcome),
           UNCHANGED analysisOf
    PROVE  ScanTypes'
<1>1. learned' \in [Scans -> Decisions \cup {"none"}] /\ analysisOf' \in [Scans -> Analyses \cup {None}]
  BY DEF Learn, ScanTypes
<1>2. CASE outcome = "published"
  BY <1>1, <1>2 DEF Learn, ScanTypes
<1>3. CASE outcome # "published"
  BY <1>1, <1>3, EndTypes DEF Learn, Ends
<1>4. QED
  BY <1>2, <1>3

\* Sending a request and forgetting a call keep the types of the client.
LEMMA SendTypes ==
    ASSUME ClientTypes, NEW s \in Scans, NEW op \in {"start", "cancel", "page"},
           NEW a \in Analyses \cup {None}, Send(s, op, a)
    PROVE  call' \in [Scans -> [op : {"none", "start", "cancel", "page"}, analysis : Analyses \cup {None}]]
<1>1. [op |-> op, analysis |-> a] \in [op : {"none", "start", "cancel", "page"},
                                        analysis : Analyses \cup {None}]
  OBVIOUS
<1>2. QED
  BY <1>1 DEF Send, ClientTypes

LEMMA ForgetTypes ==
    ASSUME ClientTypes, NEW s \in Scans, Forget(s), UNCHANGED lost
    PROVE  ClientTypes'
<1>1. NoCall \in [op : {"none", "start", "cancel", "page"}, analysis : Analyses \cup {None}]
  BY DEF NoCall
<1>2. QED
  BY <1>1 DEF Forget, ClientTypes

\* The steps of a scan keep the types.
LEMMA ScanStepTypes ==
    ASSUME TypeOK, NEW s \in Scans, Start(s) \/ Scan(s) \/ GoAway(s),
           at[s] \in {"accepted", "waiting"} => analysisOf[s] \in Analyses
    PROVE  TypeOK'
<1>0. ScanTypes /\ AppTypes /\ ClientTypes /\ EngineTypes
  BY DEF TypeOK
<1>1. ASSUME UNCHANGED engineVars
      PROVE  EngineTypes'
  BY <1>0, <1>1 DEF EngineTypes, engineVars
<1>2. ASSUME UNCHANGED appVars
      PROVE  AppTypes'
  BY <1>0, <1>2 DEF AppTypes, appVars
<1>3. CASE Start(s)
  <2>1. analysisOf' \in [Scans -> Analyses \cup {None}] /\ learned' \in [Scans -> Decisions \cup {"none"}]
    BY <1>0, <1>3 DEF Start, ScanTypes
  <2>2. ScanTypes' /\ ClientTypes'
    <3>1. CASE lost
      BY <1>0, <1>3, <2>1, <3>1, EndTypes DEF Start, ClientTypes, Ends
    <3>2. CASE ~lost
      <4>1. Send(s, "start", None)
        BY <1>3, <3>2 DEF Start
      <4>2. call' \in [Scans -> [op : {"none", "start", "cancel", "page"}, analysis : Analyses \cup {None}]]
        BY <1>0, <4>1, SendTypes
      <4>3. ClientTypes'
        BY <1>0, <1>3, <4>2 DEF Start, ClientTypes
      <4>4. ScanTypes'
        BY <1>0, <1>3, <2>1, <3>2 DEF Start, ScanTypes, Ends
      <4>5. QED
        BY <4>3, <4>4
    <3>3. QED
      BY <3>1, <3>2
  <2>3. QED
    BY <1>1, <1>2, <1>3, <2>2 DEF Start, TypeOK
<1>4. CASE StartReturns(s)
  <2>1. ClientTypes'
    BY <1>0, <1>4, ForgetTypes DEF StartReturns
  <2>2. ScanTypes'
    <3>1. CASE at' = [at EXCEPT ![s] = "accepted"]
      <4>1. reply[s].analysis \in Analyses \cup {None}
        BY <1>0 DEF ClientTypes, Replies, NoReply, Reply
      <4>2. analysisOf' \in [Scans -> Analyses \cup {None}] /\ UNCHANGED <<result, collected, gone>>
        BY <1>0, <1>4, <3>1, <4>1 DEF StartReturns, ScanTypes, End
      <4>3. QED
        BY <1>0, <1>4, <3>1, <4>2 DEF StartReturns, ScanTypes
    <3>2. CASE at' # [at EXCEPT ![s] = "accepted"]
      <4>1. \E how \in {"conflict", "closed"} : End(s, how)
        BY <1>4, <3>2 DEF StartReturns
      <4>2. UNCHANGED <<analysisOf, learned>>
        BY <1>4, <3>2 DEF StartReturns
      <4>3. analysisOf' \in [Scans -> Analyses \cup {None}] /\ learned' \in [Scans -> Decisions \cup {"none"}]
        BY <1>0, <4>2 DEF ScanTypes
      <4>4. QED
        BY <1>0, <4>1, <4>3, EndTypes DEF Ends
    <3>3. QED
      BY <3>1, <3>2
  <2>3. QED
    BY <1>1, <1>2, <1>4, <2>1, <2>2 DEF StartReturns, TypeOK
<1>5. CASE Await(s)
  <2> DEFINE a == analysisOf[s]
  <2>1. UNCHANGED <<call, reply, lost, engineVars>>
    BY <1>5 DEF Await, clientVars
  <2>2. ScanTypes'
    <3>1. CASE finished[a] # "none"
      <4>1. Learn(s, finished[a]) /\ UNCHANGED analysisOf
        BY <1>5, <3>1 DEF Await
      <4>2. finished[a] \in Decisions
        BY <1>0, <1>5, <3>1 DEF Await, AppTypes
      <4>3. QED
        BY <1>0, <4>1, <4>2, LearnTypes
    <3>2. CASE finished[a] = "none"
      BY <1>0, <1>5, <3>2 DEF Await, ScanTypes
    <3>3. QED
      BY <3>1, <3>2
  <2>3. AppTypes'
    BY <1>0, <1>5 DEF Await, AppTypes
  <2>4. QED
    BY <1>0, <1>1, <2>1, <2>2, <2>3 DEF TypeOK, ClientTypes
<1>6. CASE AwaitOutcome(s)
  <2> DEFINE a == analysisOf[s]
  <2>1. UNCHANGED <<call, reply, lost, engineVars>>
    BY <1>6 DEF AwaitOutcome, clientVars
  <2>2. a \in Analyses /\ Learn(s, channel[a]) /\ channel[a] \in Decisions
    BY <1>0, <1>6 DEF AwaitOutcome, AppTypes
  <2>3. ScanTypes'
    BY <1>0, <1>6, <2>2, LearnTypes DEF AwaitOutcome
  <2>4. AppTypes'
    BY <1>0, <1>6, <2>2 DEF AwaitOutcome, AppTypes
  <2>5. QED
    BY <1>0, <1>1, <2>1, <2>3, <2>4 DEF TypeOK, ClientTypes
<1>7. CASE AwaitClosed(s) \/ CancelReturns(s)
  <2>1. /\ \E how \in {"closed", "gone"} : End(s, how)
        /\ UNCHANGED <<analysisOf, learned, appVars, lost, engineVars>>
        /\ Forget(s) \/ UNCHANGED <<call, reply>>
    BY <1>7 DEF AwaitClosed, CancelReturns, clientVars
  <2>2. ScanTypes'
    <3>1. analysisOf' \in [Scans -> Analyses \cup {None}] /\ learned' \in [Scans -> Decisions \cup {"none"}]
      BY <1>0, <2>1 DEF ScanTypes
    <3>2. QED
      BY <1>0, <2>1, <3>1, EndTypes DEF Ends
  <2>3. ClientTypes'
    BY <1>0, <2>1, ForgetTypes DEF ClientTypes
  <2>4. QED
    BY <1>1, <1>2, <2>1, <2>2, <2>3 DEF TypeOK
<1>8. CASE AwaitGone(s)
  <2> DEFINE a == analysisOf[s]
  <2>1. /\ a \in Analyses
        /\ waiters' = [waiters EXCEPT ![a] = None]
        /\ abandoned' = abandoned \cup {a}
        /\ UNCHANGED <<analysisOf, learned, channel, finished, heard, reply, lost, engineVars>>
    BY <1>8 DEF AwaitGone
  <2>2. ScanTypes' /\ ClientTypes'
    <3>1. analysisOf' \in [Scans -> Analyses \cup {None}] /\ learned' \in [Scans -> Decisions \cup {"none"}]
      BY <1>0, <2>1 DEF ScanTypes
    <3>2. CASE lost
      BY <1>0, <1>8, <2>1, <3>1, <3>2, EndTypes DEF AwaitGone, Ends, ClientTypes
    <3>3. CASE ~lost
      <4>1. /\ Send(s, "cancel", a)
            /\ at' = [at EXCEPT ![s] = "cancelling"]
            /\ UNCHANGED <<result, collected, gone>>
        BY <1>8, <3>3 DEF AwaitGone
      <4>2. call' \in [Scans -> [op : {"none", "start", "cancel", "page"}, analysis : Analyses \cup {None}]]
        BY <1>0, <2>1, <4>1, SendTypes
      <4>3. QED
        BY <1>0, <2>1, <4>1, <4>2 DEF ScanTypes, ClientTypes
    <3>4. QED
      BY <3>2, <3>3
  <2>3. AppTypes'
    BY <1>0, <2>1 DEF AppTypes
  <2>4. QED
    BY <1>1, <2>1, <2>2, <2>3 DEF TypeOK
<1>9. CASE AskPage(s)
  <2>1. UNCHANGED <<analysisOf, learned, appVars, reply, lost, engineVars>>
    BY <1>9 DEF AskPage
  <2>2. ScanTypes' /\ ClientTypes'
    <3>1. analysisOf' \in [Scans -> Analyses \cup {None}] /\ learned' \in [Scans -> Decisions \cup {"none"}]
      BY <1>0, <2>1 DEF ScanTypes
    <3>2. CASE lost
      BY <1>0, <1>9, <2>1, <3>1, <3>2, EndTypes DEF AskPage, Ends, ClientTypes
    <3>3. CASE ~lost
      <4>1. Send(s, "page", analysisOf[s]) /\ UNCHANGED <<at, result, collected, gone>>
        BY <1>9, <3>3 DEF AskPage
      <4>2. analysisOf[s] \in Analyses \cup {None}
        BY <1>0 DEF ScanTypes
      <4>3. call' \in [Scans -> [op : {"none", "start", "cancel", "page"}, analysis : Analyses \cup {None}]]
        BY <1>0, <4>1, <4>2, SendTypes
      <4>4. QED
        BY <1>0, <2>1, <4>1, <4>3 DEF ScanTypes, ClientTypes
    <3>4. QED
      BY <3>2, <3>3
  <2>3. QED
    BY <1>1, <1>2, <2>1, <2>2 DEF TypeOK
<1>10. CASE PageReturns(s)
  <2>1. /\ Forget(s)
        /\ UNCHANGED <<analysisOf, learned, appVars, lost, engineVars>>
        /\ \/ \E how \in {"scanned", "unavailable", "closed", "gone"} : End(s, how)
           \/ /\ collected[s] + 1 # Pages
              /\ collected' = [collected EXCEPT ![s] = collected[s] + 1]
              /\ UNCHANGED <<at, result, gone>>
    BY <1>10 DEF PageReturns
  <2>2. ScanTypes'
    <3>1. analysisOf' \in [Scans -> Analyses \cup {None}] /\ learned' \in [Scans -> Decisions \cup {"none"}]
      BY <1>0, <2>1 DEF ScanTypes
    <3>2. CASE \E how \in {"scanned", "unavailable", "closed", "gone"} : End(s, how)
      BY <1>0, <3>1, <3>2, EndTypes DEF Ends
    <3>3. CASE /\ collected[s] + 1 # Pages
               /\ collected' = [collected EXCEPT ![s] = collected[s] + 1]
               /\ UNCHANGED <<at, result, gone>>
      <4>1. collected[s] \in 0..(Pages - 1) /\ collected \in [Scans -> 0..(Pages - 1)]
        BY <1>0 DEF ScanTypes
      <4>2. collected[s] + 1 \in 0..(Pages - 1)
        BY <3>3, <4>1, ScanAssumption
      <4>3. collected' \in [Scans -> 0..(Pages - 1)]
        BY <3>3, <4>1, <4>2
      <4>4. QED
        BY <1>0, <3>1, <3>3, <4>3 DEF ScanTypes
    <3>4. QED
      BY <2>1, <3>2, <3>3
  <2>3. QED
    BY <1>0, <1>1, <1>2, <2>1, <2>2, ForgetTypes DEF TypeOK
<1>11. CASE GoAway(s)
  BY <1>0, <1>1, <1>2, <1>11 DEF GoAway, TypeOK, ScanTypes, ClientTypes, clientVars
<1>12. QED
  BY <1>3, <1>4, <1>5, <1>6, <1>7, <1>8, <1>9, <1>10, <1>11 DEF Scan

\* The empty message is none of the responses.
LEMMA NoReplyIsNone == NoReply \notin Replies
BY ScanAssumption DEF NoReply, Reply, Replies

\* What the client reads: the oldest message.
LEMMA HeadOfStream ==
    ASSUME TypeOK, stream # <<>>, stream' = Tail(stream)
    PROVE  /\ Head(stream) = stream[1] /\ 1 \in DOMAIN stream
           /\ stream[1] \in Replies \cup Outcomes
           /\ stream' \in Seq(Replies \cup Outcomes)
           /\ \A i \in DOMAIN stream' : i + 1 \in DOMAIN stream /\ stream'[i] = stream[i + 1] /\ i \in Nat
           /\ \A i \in DOMAIN stream :
                 i \in Nat /\ (i # 1 => i - 1 \in DOMAIN stream' /\ stream'[i - 1] = stream[i])
<1>1. stream \in Seq(Replies \cup Outcomes)
  BY DEF TypeOK, EngineTypes
<1>2. /\ Len(stream) \in Nat \ {0}
      /\ stream' \in Seq(Replies \cup Outcomes) /\ Len(stream') = Len(stream) - 1
      /\ \A i \in 1..Len(stream') : stream'[i] = stream[i + 1]
  BY <1>1, HeadTailProperties, EmptySeq
<1>3. DOMAIN stream' = 1..Len(stream') /\ DOMAIN stream = 1..Len(stream)
  BY <1>1, <1>2, LenProperties
<1>4. stream[1] \in Replies \cup Outcomes /\ Head(stream) = stream[1]
  BY <1>1, <1>2, <1>3, ElementOfSeq
<1>5. QED
  BY <1>2, <1>3, <1>4

\* What the engine writes: the newest message.
LEMMA EndOfStream ==
    ASSUME TypeOK, NEW m \in Replies \cup Outcomes, stream' = Append(stream, m)
    PROVE  /\ stream' \in Seq(Replies \cup Outcomes)
           /\ Len(stream) + 1 \in DOMAIN stream' /\ stream'[Len(stream) + 1] = m
           /\ Len(stream) + 1 \notin DOMAIN stream
           /\ \A i \in DOMAIN stream : i \in DOMAIN stream' /\ stream'[i] = stream[i] /\ i < Len(stream) + 1
           /\ \A i \in DOMAIN stream' : i \in DOMAIN stream \/ i = Len(stream) + 1
<1>1. stream \in Seq(Replies \cup Outcomes)
  BY DEF TypeOK, EngineTypes
<1>2. /\ Len(stream) \in Nat
      /\ stream' \in Seq(Replies \cup Outcomes) /\ Len(stream') = Len(stream) + 1
      /\ \A i \in 1..Len(stream) : stream'[i] = stream[i]
      /\ stream'[Len(stream) + 1] = m
  BY <1>1, AppendProperties, LenProperties
<1>3. DOMAIN stream' = 1..Len(stream') /\ DOMAIN stream = 1..Len(stream)
  BY <1>1, <1>2, LenProperties
<1>4. QED
  BY <1>2, <1>3

\* Delivering a message and losing the connection keep the types.
LEMMA ClientStepTypes ==
    ASSUME TypeOK, Deliver \/ Disconnect
    PROVE  TypeOK'
<1>0. ScanTypes /\ AppTypes /\ ClientTypes /\ EngineTypes
  BY DEF TypeOK
<1>1. CASE Deliver
  <2> DEFINE m == stream[1]
  <2>1. /\ stream # <<>> /\ stream' = Tail(stream)
        /\ UNCHANGED <<scanVars, call, lost, answer, stage, active, cancelled, decided, published, emit>>
    BY <1>1 DEF Deliver
  <2>2. Head(stream) = m /\ m \in Replies \cup Outcomes /\ stream' \in Seq(Replies \cup Outcomes)
    BY <2>1, HeadOfStream
  <2>3. AppTypes' /\ ClientTypes'
    <3>1. CASE m.to = None
      <4>1. m.analysis \in Analyses /\ m.what \in Decisions
        BY <2>2, <3>1, ScanAssumption DEF Replies, Outcomes
      <4>2. RecordOutcome(m.analysis, m.what) /\ UNCHANGED reply
        BY <1>1, <2>2, <3>1 DEF Deliver
      <4>3. AppTypes'
        BY <1>0, <4>1, <4>2 DEF AppTypes, RecordOutcome
      <4>4. QED
        BY <1>0, <2>1, <4>2, <4>3 DEF ClientTypes
    <3>2. CASE m.to # None
      <4>1. m \in Replies
        BY <2>2, <3>2 DEF Outcomes
      <4>2. UNCHANGED appVars /\ (reply' = [reply EXCEPT ![m.to] = m] \/ reply' = reply)
        BY <1>1, <2>2, <3>2 DEF Deliver
      <4>3. QED
        BY <1>0, <2>1, <4>1, <4>2 DEF ClientTypes, AppTypes, appVars
    <3>3. QED
      BY <3>1, <3>2
  <2>4. ScanTypes' /\ EngineTypes'
    BY <1>0, <2>1, <2>2 DEF ScanTypes, EngineTypes, scanVars
  <2>5. QED
    BY <2>3, <2>4 DEF TypeOK
<1>2. CASE Disconnect
  BY <1>0, <1>2 DEF Disconnect, TypeOK, ScanTypes, AppTypes, ClientTypes, EngineTypes, scanVars, appVars
<1>3. QED
  BY <1>1, <1>2

\* The steps of the engine keep the types.
LEMMA EngineStepTypes ==
    ASSUME TypeOK, Calls, Starts, OutcomesTrue,
           \/ \E s \in Scans : EngineStarts(s) \/ EngineCancels(s) \/ EngineServesPage(s) \/ EngineResponds(s)
           \/ \E a \in Analyses : Commits(a) \/ EngineReports(a)
    PROVE  TypeOK'
<1>0. ScanTypes /\ AppTypes /\ ClientTypes /\ EngineTypes
  BY DEF TypeOK
<1>1. ScanTypes' /\ AppTypes' /\ ClientTypes'
  <2>1. UNCHANGED <<scanVars, appVars, clientVars>>
    BY DEF EngineStarts, EngineCancels, EngineServesPage, EngineResponds, Commits, EngineCommits,
           EngineReports
  <2>2. QED
    BY <1>0, <2>1 DEF ScanTypes, AppTypes, ClientTypes, scanVars, appVars, clientVars
<1>2. ASSUME NEW s \in Scans, NEW a \in Analyses \cup {None},
             NEW what \in {"started", "alreadyRunning", "cancelRequested", "page", "snapshotUnavailable"}
      PROVE  Reply(s, what, a) \in Replies
  BY DEF Reply, Replies
<1>3. ASSUME NEW s \in Scans, EngineStarts(s)
      PROVE  EngineTypes'
  <2>1. CASE active # None
    BY <1>0, <1>2, <1>3, <2>1 DEF EngineStarts, EngineTypes
  <2>2. CASE active = None
    BY <1>0, <1>2, <1>3, <2>2 DEF EngineStarts, EngineTypes
  <2>3. QED
    BY <2>1, <2>2
<1>4. ASSUME NEW s \in Scans, EngineCancels(s) \/ EngineServesPage(s)
      PROVE  EngineTypes'
  <2>1. call[s].analysis \in Analyses
    BY <1>4 DEF Calls, EngineCancels, EngineServesPage, Unanswered
  <2>2. \E what \in {"cancelRequested", "page", "snapshotUnavailable"} :
            answer' = [answer EXCEPT ![s] = Reply(s, what, call[s].analysis)]
    BY <1>4 DEF EngineCancels, EngineServesPage
  <2>3. answer' \in [Scans -> Replies \cup {NoReply}]
    BY <1>0, <1>2, <2>1, <2>2 DEF EngineTypes
  <2>4. cancelled' \subseteq Analyses
    BY <1>0, <1>4, <2>1 DEF EngineTypes, EngineCancels, EngineServesPage
  <2>5. QED
    BY <1>0, <1>4, <2>3, <2>4 DEF EngineTypes, EngineCancels, EngineServesPage
<1>5. ASSUME NEW s \in Scans, EngineResponds(s)
      PROVE  EngineTypes'
  <2>1. answer[s] \in Replies
    BY <1>0, <1>5 DEF EngineResponds, EngineTypes
  <2>2. stream' \in Seq(Replies \cup Outcomes)
    BY <1>5, <2>1, EndOfStream DEF EngineResponds
  <2>3. stage' \in [Analyses -> {"unissued", "registered", "running", "committed", "reported"}]
    BY <1>0, <1>5 DEF EngineResponds, EngineTypes, Starts, StartResponse
  <2>4. QED
    BY <1>0, <1>5, <2>2, <2>3 DEF EngineResponds, EngineTypes
<1>6. ASSUME NEW a \in Analyses, NEW decision \in Decisions, EngineCommits(a, decision)
      PROVE  EngineTypes'
  <2>1. published' \in Seq(Analyses)
    BY <1>0, <1>6, AppendProperties DEF EngineCommits, EngineTypes
  <2>2. QED
    BY <1>0, <1>6, <2>1 DEF EngineCommits, EngineTypes
<1>7. ASSUME NEW a \in Analyses, EngineReports(a)
      PROVE  EngineTypes'
  <2>1. Outcome(a, decided[a]) \in Outcomes
    BY <1>0, <1>7 DEF EngineReports, EngineTypes, OutcomesTrue, Outcome, Outcomes
  <2>2. stream' \in Seq(Replies \cup Outcomes)
    BY <1>7, <2>1, EndOfStream DEF EngineReports
  <2>3. QED
    BY <1>0, <1>7, <2>2 DEF EngineReports, EngineTypes
<1>8. QED
  BY <1>1, <1>3, <1>4, <1>5, <1>6, <1>7 DEF TypeOK, Commits, Decisions

-----------------------------------------------------------------------------
(* Every step of a scan keeps the invariant.  The first step of each proof *)
(* says what the action does to each scan and analysis, the second one     *)
(* what is known of the scan that takes it; the parts follow from those.   *)

\* A scan without a call has no response.
LEMMA NoCallNoReply ==
    ASSUME Calls, NEW s \in Scans, at[s] \notin {"starting", "cancelling", "reporting"},
           call[s].op \in {"none", "start", "cancel", "page"}
    PROVE  call[s].op = "none" /\ reply[s] = NoReply
BY DEF Calls

\* A step that neither reads nor writes a message, nor tells of an outcome.
LEMMA OutcomesFrame ==
    ASSUME OutcomesTrue, StartBeforeOutcome,
           UNCHANGED <<decided, stage, heard, finished, channel, stream>>,
           \A s \in Scans : learned'[s] # "none" => learned'[s] = learned[s] /\ analysisOf'[s] = analysisOf[s]
    PROVE  OutcomesTrue' /\ StartBeforeOutcome'
<1>1. \A s \in Scans : learned'[s] # "none" =>
          analysisOf'[s] \in Analyses /\ learned'[s] = decided[analysisOf'[s]]
  BY DEF OutcomesTrue
<1>2. OutcomesTrue'
  BY <1>1 DEF OutcomesTrue, OutcomeAt
<1>3. StartBeforeOutcome'
  BY DEF StartBeforeOutcome, OutcomeAt
<1>4. QED
  BY <1>2, <1>3

LEMMA StartKeeps ==
    ASSUME Inductive, NEW s \in Scans, Start(s)
    PROVE  Inductive'
<1> USE ScanAssumption
<1>0. /\ TypeOK /\ Calls /\ Transit /\ Starts /\ Issued /\ OutcomesTrue /\ StartBeforeOutcome
      /\ Waiters /\ Unwanted /\ Claimed /\ WantedAreKept /\ Refusals /\ RecordsAreClaimed
  BY DEF Inductive
<1>1. /\ \A t \in Scans \ {s} : /\ at'[t] = at[t] /\ analysisOf'[t] = analysisOf[t]
                                /\ learned'[t] = learned[t] /\ result'[t] = result[t]
                                /\ call'[t] = call[t]
      /\ analysisOf'[s] = None /\ learned'[s] = "none"
      /\ \/ lost /\ at'[s] = "done" /\ call'[s] = call[s]
         \/ at'[s] = "starting" /\ result'[s] = "none" /\ call'[s] = [op |-> "start", analysis |-> None]
      /\ result'[s] \in {"none", "closed"}
      /\ UNCHANGED <<appVars, reply, lost, engineVars>>
  BY <1>0 DEF Start, End, Send, TypeOK, ScanTypes, ClientTypes
<1>2. /\ at[s] \in {"idle", "done"} /\ call[s].op = "none" /\ reply[s] = NoReply /\ answer[s] = NoReply
      /\ \A i \in DOMAIN stream : stream[i].to # s
  <2>1. at[s] \in {"idle", "done"} /\ answer[s] = NoReply /\ \A i \in DOMAIN stream : stream[i].to # s
    BY DEF Start, Fresh
  <2>2. call[s].op \in {"none", "start", "cancel", "page"}
    BY <1>0 DEF TypeOK, ClientTypes
  <2>3. QED
    BY <1>0, <2>1, <2>2, NoCallNoReply
<1>3. TypeOK'
  BY <1>0, <1>2, ScanStepTypes
<1>4. Calls' /\ Transit'
  BY <1>0, <1>1, <1>2 DEF Calls, Transit, engineVars
<1>5. Starts'
  BY <1>0, <1>1, <1>2 DEF Starts, StartResponse, engineVars
<1>6. Issued'
  BY <1>0, <1>1 DEF Issued, Named, Answered, Streamed, Received, appVars, engineVars
<1>7. OutcomesTrue' /\ StartBeforeOutcome'
  <2>1. UNCHANGED <<decided, stage, heard, finished, channel, stream>>
    BY <1>1 DEF appVars, engineVars
  <2>2. \A t \in Scans : learned'[t] # "none" => learned'[t] = learned[t] /\ analysisOf'[t] = analysisOf[t]
    BY <1>1
  <2>3. QED
    BY <1>0, <2>1, <2>2, OutcomesFrame
<1>8. Waiters'
  BY <1>0, <1>1, <1>2 DEF Waiters, appVars
<1>9. Unwanted' /\ Claimed'
  BY <1>0, <1>1, <1>2 DEF Unwanted, Claimed, Awaits, Answered, Streamed, Received, appVars, engineVars
<1>10. WantedAreKept'
  BY <1>0, <1>1, <1>2 DEF WantedAreKept, Received, appVars, engineVars
<1>11. Refusals'
  BY <1>0, <1>1, <1>2 DEF Refusals, Evicted, NoReply, Reply, engineVars
<1>12. RecordsAreClaimed'
  BY <1>0, <1>1, <1>2 DEF RecordsAreClaimed, Claims, appVars, NoReply, Reply
<1>13. QED
  BY <1>3, <1>4, <1>5, <1>6, <1>7, <1>8, <1>9, <1>10, <1>11, <1>12 DEF Inductive

LEMMA StartReturnsKeeps ==
    ASSUME Inductive, NEW s \in Scans, StartReturns(s)
    PROVE  Inductive'
<1> USE ScanAssumption
<1>0. /\ TypeOK /\ Calls /\ Transit /\ Starts /\ Issued /\ OutcomesTrue /\ StartBeforeOutcome
      /\ Waiters /\ Unwanted /\ Claimed /\ WantedAreKept /\ Refusals /\ RecordsAreClaimed
  BY DEF Inductive
<1> DEFINE a == reply[s].analysis
           accepted == /\ reply[s].what = "started"
                       /\ at'[s] = "accepted" /\ analysisOf'[s] = a /\ result'[s] = result[s]
           refused  == /\ reply[s].what # "started" /\ reply[s].analysis = None
                       /\ at'[s] = "done" /\ analysisOf'[s] = analysisOf[s]
                       /\ result'[s] \in {"conflict", "closed"}
<1>1. /\ at[s] = "starting" /\ analysisOf[s] = None /\ learned[s] = "none" /\ result[s] = "none"
      /\ lost \/ reply[s] # NoReply
      /\ reply[s] # NoReply => answer[s] = NoReply /\ \A i \in DOMAIN stream : stream[i].to # s
      /\ lost => answer[s] = NoReply /\ stream = <<>>
  BY <1>0 DEF StartReturns, Hangs, Replied, Calls, Transit, OutcomesTrue
<1>2. /\ \A t \in Scans \ {s} : /\ at'[t] = at[t] /\ analysisOf'[t] = analysisOf[t]
                                /\ result'[t] = result[t] /\ call'[t] = call[t] /\ reply'[t] = reply[t]
      /\ call'[s] = NoCall /\ reply'[s] = NoReply
      /\ accepted \/ refused
      /\ UNCHANGED <<learned, appVars, lost, engineVars>>
  BY <1>0, <1>1 DEF StartReturns, End, Forget, Hangs, TypeOK, ScanTypes, ClientTypes, Starts,
                    StartResponse, NoReply, Reply
<1>3. /\ answer[s] = NoReply
      /\ \A i \in DOMAIN stream : stream[i].to # s
  BY <1>1
<1>4. TypeOK'
  BY <1>0, <1>1, ScanStepTypes DEF Scan
<1>5. Calls' /\ Transit'
  BY <1>0, <1>1, <1>2, <1>3 DEF Calls, Transit, Starts, StartResponse, engineVars, NoCall
<1>6. Starts'
  BY <1>0, <1>2, <1>3 DEF Starts, StartResponse, engineVars, NoReply, Reply
<1>7. Issued'
  BY <1>0, <1>1, <1>2, <1>3 DEF Issued, Named, Answered, Streamed, Received, appVars, engineVars, NoReply, Reply
<1>8. OutcomesTrue' /\ StartBeforeOutcome'
  <2>1. UNCHANGED <<decided, stage, heard, finished, channel, stream>>
    BY <1>2 DEF appVars, engineVars
  <2>2. \A t \in Scans : learned'[t] # "none" => learned'[t] = learned[t] /\ analysisOf'[t] = analysisOf[t]
    BY <1>1, <1>2
  <2>3. QED
    BY <1>0, <2>1, <2>2, OutcomesFrame
<1>9. Waiters'
  BY <1>0, <1>1, <1>2 DEF Waiters, appVars
<1>10. Unwanted' /\ Claimed'
  BY <1>0, <1>1, <1>2 DEF Unwanted, Claimed, Awaits, Answered, Streamed, Received, appVars, engineVars, NoReply, Reply
<1>11. WantedAreKept'
  BY <1>0, <1>1, <1>2 DEF WantedAreKept, Received, appVars, engineVars, NoReply, Reply
<1>12. Refusals'
  BY <1>0, <1>1, <1>2, <1>3 DEF Refusals, Evicted, NoReply, Reply, engineVars
<1>13. RecordsAreClaimed'
  <2>1. ASSUME NEW b \in Analyses, NEW t \in Scans,
               \/ at[t] = "accepted" /\ analysisOf[t] = b
               \/ at[t] = "starting" /\ reply[t].analysis = b
        PROVE  \/ at'[t] = "accepted" /\ analysisOf'[t] = b
               \/ at'[t] = "starting" /\ reply'[t].analysis = b
    BY <1>1, <1>2, <2>1
  <2>2. QED
    BY <1>0, <1>2, <2>1 DEF RecordsAreClaimed, Claims, appVars
<1>14. QED
  BY <1>4, <1>5, <1>6, <1>7, <1>8, <1>9, <1>10, <1>11, <1>12, <1>13 DEF Inductive

\* The scan that takes an outcome.
LEMMA LearnEffects ==
    ASSUME TypeOK, NEW s \in Scans, NEW outcome \in Decisions, Learn(s, outcome)
    PROVE  /\ \A t \in Scans \ {s} : at'[t] = at[t] /\ learned'[t] = learned[t] /\ result'[t] = result[t]
           /\ learned'[s] = outcome
           /\ \/ at'[s] = "reporting" /\ outcome = "published" /\ result'[s] = result[s]
              \/ at'[s] = "done" /\ result'[s] = "failed"
BY DEF Learn, End, TypeOK, ScanTypes

\* An analysis has one scan; a scan that is accepted, or waits, has an analysis.
LEMMA OneClaimant ==
    ASSUME Calls, Issued, OutcomesTrue, NEW s \in Scans, at[s] \in {"accepted", "waiting"}
    PROVE  /\ analysisOf[s] \in Analyses
           /\ \A t \in Scans : Named(t, analysisOf[s]) => t = s
           /\ analysisOf[s] \in heard => decided[analysisOf[s]] # "none"
BY DEF Calls, Issued, OutcomesTrue, Named

LEMMA AwaitKeeps ==
    ASSUME Inductive, NEW s \in Scans, Await(s)
    PROVE  Inductive'
<1> USE ScanAssumption
<1>0. /\ TypeOK /\ Calls /\ Transit /\ Starts /\ Issued /\ OutcomesTrue /\ StartBeforeOutcome
      /\ Waiters /\ Unwanted /\ Claimed /\ WantedAreKept /\ Refusals /\ RecordsAreClaimed
  BY DEF Inductive
<1> DEFINE a == analysisOf[s]
<1>1. /\ at[s] = "accepted" /\ a \in Analyses /\ call[s].op = "none" /\ result[s] = "none"
      /\ \A t \in Scans : Named(t, a) => t = s
      /\ a \in heard => finished[a] = decided[a] /\ decided[a] # "none"
      /\ finished[a] # "none" => finished[a] \in Decisions /\ a \in heard
  <2>1. at[s] = "accepted"
    BY DEF Await
  <2>2. call[s].op = "none"
    BY <1>0, <2>1, NoCallNoReply DEF TypeOK, ClientTypes
  <2>3. a \in Analyses /\ (\A t \in Scans : Named(t, a) => t = s) /\ (a \in heard => decided[a] # "none")
    BY <1>0, <2>1, OneClaimant
  <2>4. finished[a] \in Decisions \cup {"none"}
    BY <1>0, <2>3 DEF TypeOK, AppTypes
  <2>5. a \in heard => finished[a] = decided[a]
    BY <1>0, <2>1 DEF WantedAreKept
  <2>6. finished[a] # "none" => a \in heard
    BY <1>0, <2>3 DEF OutcomesTrue
  <2>7. result[s] = "none"
    BY <1>0, <2>1 DEF Calls
  <2>8. QED
    BY <2>1, <2>2, <2>3, <2>4, <2>5, <2>6, <2>7
<1>2. UNCHANGED <<analysisOf, channel, abandoned, heard, clientVars, engineVars>>
  BY DEF Await
<1>3. TypeOK'
  BY <1>0, <1>1, ScanStepTypes DEF Scan
<1>4. \/ /\ finished[a] = decided[a] /\ decided[a] # "none" /\ a \in heard
         /\ \A t \in Scans \ {s} : at'[t] = at[t] /\ learned'[t] = learned[t] /\ result'[t] = result[t]
         /\ learned'[s] = decided[a]
         /\ \/ at'[s] = "reporting" /\ learned'[s] = "published" /\ result'[s] = "none"
            \/ at'[s] = "done" /\ result'[s] = "failed"
         /\ \A b \in Analyses \ {a} : finished'[b] = finished[b]
         /\ finished'[a] = "none" /\ waiters' = waiters
      \/ /\ finished[a] = "none" /\ a \notin heard
         /\ \A t \in Scans \ {s} : at'[t] = at[t]
         /\ at'[s] = "waiting"
         /\ \A b \in Analyses \ {a} : waiters'[b] = waiters[b]
         /\ waiters'[a] = s /\ UNCHANGED <<learned, result, finished>>
  <2>1. CASE finished[a] # "none"
    <3>1. Learn(s, finished[a]) /\ finished' = [finished EXCEPT ![a] = "none"] /\ UNCHANGED waiters
      BY <2>1 DEF Await
    <3>2. (\A b \in Analyses \ {a} : finished'[b] = finished[b]) /\ finished'[a] = "none"
      BY <1>0, <1>1, <3>1 DEF TypeOK, AppTypes
    <3>3. QED
      BY <1>0, <1>1, <2>1, <3>1, <3>2, LearnEffects
  <2>2. CASE finished[a] = "none"
    BY <1>0, <1>1, <2>2 DEF Await, TypeOK, AppTypes, ScanTypes
  <2>3. QED
    BY <2>1, <2>2
<1>5. Calls' /\ Transit' /\ Starts'
  BY <1>0, <1>1, <1>2, <1>4 DEF Calls, Transit, Starts, StartResponse, clientVars, engineVars
<1>6. Issued' /\ StartBeforeOutcome'
  BY <1>0, <1>2 DEF Issued, Named, Answered, Streamed, Received, StartBeforeOutcome, OutcomeAt, clientVars, engineVars
<1>7. OutcomesTrue'
  <2>1. \A t \in Scans : learned'[t] # "none" =>
              \/ learned[t] # "none" /\ learned'[t] = learned[t]
              \/ t = s /\ learned'[t] = decided[a]
    BY <1>1, <1>4
  <2>2. \A b \in Analyses : finished'[b] # "none" => finished[b] # "none" /\ finished'[b] = finished[b]
    BY <1>1, <1>4
  <2>3. QED
    BY <1>0, <1>1, <1>2, <2>1, <2>2 DEF OutcomesTrue, OutcomeAt, engineVars
<1>8. Waiters'
  <2>1. ASSUME NEW b \in Analyses, NEW t \in Scans
        PROVE  /\ waiters'[b] = t /\ ~lost => at'[t] = "waiting" /\ analysisOf[t] = b
               /\ at'[t] = "waiting" /\ analysisOf[t] = b /\ b \notin heard => waiters'[b] = t
               /\ b \in heard => waiters'[b] # t
    <3>1. /\ waiters[b] = t /\ ~lost => at[t] = "waiting" /\ analysisOf[t] = b
          /\ at[t] = "waiting" /\ analysisOf[t] = b /\ b \notin heard => waiters[b] = t
          /\ b \in heard => waiters[b] # t
      BY <1>0 DEF Waiters
    <3>2. analysisOf[t] = a => t = s
      BY <1>1 DEF Named
    <3>3. CASE b = a
      BY <1>1, <1>4, <3>1, <3>2, <3>3
    <3>4. CASE b # a
      BY <1>1, <1>4, <3>1, <3>4
    <3>5. QED
      BY <3>3, <3>4
  <2>2. QED
    BY <1>2, <2>1 DEF Waiters, clientVars
<1>9. Unwanted' /\ Claimed'
  BY <1>0, <1>1, <1>2, <1>4 DEF Unwanted, Claimed, Awaits, Answered, Streamed, Received, clientVars, engineVars
<1>10. WantedAreKept'
  <2>1. \A t \in Scans \ {s} : ~Received(t, a) /\ analysisOf[t] # a
    BY <1>1 DEF Named
  <2>2. ~Received(s, a)
    BY <1>0, <1>1 DEF Received, Starts, StartResponse
  <2>3. ASSUME NEW t \in Scans, NEW b \in heard
        PROVE  /\ Received(t, b) => finished'[b] = decided[b]
               /\ at'[t] = "accepted" /\ analysisOf[t] = b => finished'[b] = decided[b]
               /\ at'[t] = "waiting" /\ analysisOf[t] = b => channel[b] = decided[b]
    <3>1. b \in Analyses
      BY <1>0 DEF TypeOK, AppTypes
    <3>2. CASE b = a
      BY <1>1, <1>4, <2>1, <2>2, <3>2
    <3>3. CASE b # a
      <4>1. finished'[b] = finished[b]
        BY <1>4, <3>1, <3>3
      <4>2. /\ at'[t] = "accepted" /\ analysisOf[t] = b => at[t] = "accepted"
            /\ at'[t] = "waiting" /\ analysisOf[t] = b => at[t] = "waiting"
        BY <1>4, <3>3
      <4>3. QED
        BY <1>0, <4>1, <4>2 DEF WantedAreKept
    <3>4. QED
      BY <3>2, <3>3
  <2>4. QED
    BY <1>2, <2>3 DEF WantedAreKept, Received, clientVars, engineVars
<1>11. Refusals'
  BY <1>0, <1>1, <1>2, <1>4 DEF Refusals, Evicted, clientVars, engineVars
<1>12. RecordsAreClaimed'
  BY <1>0, <1>1, <1>2, <1>4 DEF RecordsAreClaimed, Claims, clientVars
<1>13. QED
  BY <1>3, <1>5, <1>6, <1>7, <1>8, <1>9, <1>10, <1>11, <1>12 DEF Inductive

LEMMA AwaitOutcomeKeeps ==
    ASSUME Inductive, NEW s \in Scans, AwaitOutcome(s)
    PROVE  Inductive'
<1> USE ScanAssumption
<1>0. /\ TypeOK /\ Calls /\ Transit /\ Starts /\ Issued /\ OutcomesTrue /\ StartBeforeOutcome
      /\ Waiters /\ Unwanted /\ Claimed /\ WantedAreKept /\ Refusals /\ RecordsAreClaimed
  BY DEF Inductive
<1> DEFINE a == analysisOf[s]
<1>1. /\ at[s] = "waiting" /\ a \in Analyses /\ call[s].op = "none" /\ result[s] = "none"
      /\ \A t \in Scans : Named(t, a) => t = s
      /\ a \in heard \ abandoned /\ channel[a] = decided[a] /\ decided[a] # "none" /\ channel[a] \in Decisions
  <2>1. at[s] = "waiting" /\ channel[a] # "none"
    BY DEF AwaitOutcome
  <2>2. call[s].op = "none"
    BY <1>0, <2>1, NoCallNoReply DEF TypeOK, ClientTypes
  <2>3. a \in Analyses /\ (\A t \in Scans : Named(t, a) => t = s) /\ (a \in heard => decided[a] # "none")
    BY <1>0, <2>1, OneClaimant
  <2>4. channel[a] \in Decisions
    BY <1>0, <2>1, <2>3 DEF TypeOK, AppTypes
  <2>5. a \in heard /\ channel[a] = decided[a]
    BY <1>0, <2>1, <2>3 DEF OutcomesTrue
  <2>6. a \notin abandoned
    BY <1>0, <2>1 DEF Unwanted, Awaits
  <2>7. result[s] = "none"
    BY <1>0, <2>1 DEF Calls
  <2>8. QED
    BY <2>1, <2>2, <2>3, <2>4, <2>5, <2>6, <2>7
<1>2. /\ UNCHANGED <<analysisOf, waiters, finished, abandoned, heard, clientVars, engineVars>>
      /\ \A t \in Scans \ {s} : at'[t] = at[t] /\ learned'[t] = learned[t] /\ result'[t] = result[t]
      /\ learned'[s] = decided[a]
      /\ \/ at'[s] = "reporting" /\ learned'[s] = "published" /\ result'[s] = "none"
         \/ at'[s] = "done" /\ result'[s] = "failed"
      /\ \A b \in Analyses \ {a} : channel'[b] = channel[b]
      /\ channel'[a] = "none"
  <2>1. /\ Learn(s, channel[a]) /\ channel' = [channel EXCEPT ![a] = "none"]
        /\ UNCHANGED <<analysisOf, waiters, finished, abandoned, heard, clientVars, engineVars>>
    BY DEF AwaitOutcome
  <2>2. (\A b \in Analyses \ {a} : channel'[b] = channel[b]) /\ channel'[a] = "none"
    BY <1>0, <1>1, <2>1 DEF TypeOK, AppTypes
  <2>3. QED
    BY <1>0, <1>1, <2>1, <2>2, LearnEffects
<1>3. TypeOK'
  BY <1>0, <1>1, ScanStepTypes DEF Scan
<1>4. Calls' /\ Transit' /\ Starts'
  BY <1>0, <1>1, <1>2 DEF Calls, Transit, Starts, StartResponse, clientVars, engineVars
<1>5. Issued' /\ StartBeforeOutcome'
  <2>1. UNCHANGED <<analysisOf, abandoned, heard, clientVars, engineVars>>
    BY <1>2
  <2>2. Issued'
    BY <1>0, <2>1 DEF Issued, Named, Answered, Streamed, Received, clientVars, engineVars
  <2>3. UNCHANGED <<stream, heard>>
    BY <2>1 DEF engineVars
  <2>4. StartBeforeOutcome'
    BY <1>0, <2>3 DEF StartBeforeOutcome, OutcomeAt
  <2>5. QED
    BY <2>2, <2>4
<1>6. OutcomesTrue'
  <2>1. \A t \in Scans : learned'[t] # "none" =>
              \/ learned[t] # "none" /\ learned'[t] = learned[t]
              \/ t = s /\ learned'[t] = decided[a]
    BY <1>1, <1>2
  <2>2. \A b \in Analyses : channel'[b] # "none" => channel[b] # "none" /\ channel'[b] = channel[b]
    BY <1>1, <1>2
  <2>3. QED
    BY <1>0, <1>1, <1>2, <2>1, <2>2 DEF OutcomesTrue, OutcomeAt, engineVars
<1>7. Waiters'
  <2>1. ASSUME NEW b \in Analyses, NEW t \in Scans, waiters[b] = t, ~lost
        PROVE  t # s
    BY <1>0, <1>1, <2>1 DEF Waiters
  <2>2. QED
    BY <1>0, <1>1, <1>2, <2>1 DEF Waiters, clientVars
<1>8. Unwanted' /\ Claimed'
  BY <1>0, <1>1, <1>2 DEF Unwanted, Claimed, Awaits, Answered, Streamed, Received, clientVars, engineVars
<1>9. WantedAreKept'
  <2>1. ASSUME NEW t \in Scans, NEW b \in heard
        PROVE  /\ Received(t, b) => finished[b] = decided[b]
               /\ at'[t] = "accepted" /\ analysisOf[t] = b => finished[b] = decided[b]
               /\ at'[t] = "waiting" /\ analysisOf[t] = b => channel'[b] = decided[b]
    <3>1. b \in Analyses
      BY <1>0 DEF TypeOK, AppTypes
    <3>2. /\ at'[t] = "accepted" => at[t] = "accepted"
          /\ at'[t] = "waiting" => at[t] = "waiting" /\ t # s
      BY <1>2
    <3>3. at'[t] = "waiting" /\ analysisOf[t] = b => channel'[b] = channel[b]
      BY <1>1, <1>2, <3>1, <3>2 DEF Named
    <3>4. QED
      BY <1>0, <3>2, <3>3 DEF WantedAreKept
  <2>2. QED
    BY <1>2, <2>1 DEF WantedAreKept, Received, clientVars, engineVars
<1>10. Refusals'
  BY <1>0, <1>1, <1>2 DEF Refusals, Evicted, clientVars, engineVars
<1>11. RecordsAreClaimed'
  <2>1. \A t \in Scans, b \in Analyses : Claims(t, b) => Claims(t, b)'
    BY <1>1, <1>2 DEF Claims, clientVars
  <2>2. \A b \in abandoned \cap heard : b # a /\ b \in Analyses
    BY <1>0, <1>1 DEF TypeOK, AppTypes
  <2>3. \A b \in abandoned \cap heard : channel'[b] # "none"
    BY <1>0, <1>2, <2>2 DEF RecordsAreClaimed
  <2>4. UNCHANGED <<finished, abandoned, heard>>
    BY <1>2
  <2>5. QED
    BY <1>0, <2>1, <2>3, <2>4 DEF RecordsAreClaimed
<1>12. QED
  BY <1>3, <1>4, <1>5, <1>6, <1>7, <1>8, <1>9, <1>10, <1>11 DEF Inductive

LEMMA AwaitClosedKeeps ==
    ASSUME Inductive, NEW s \in Scans, AwaitClosed(s)
    PROVE  Inductive'
<1> USE ScanAssumption
<1>0. /\ TypeOK /\ Calls /\ Transit /\ Starts /\ Issued /\ OutcomesTrue /\ StartBeforeOutcome
      /\ Waiters /\ Unwanted /\ Claimed /\ WantedAreKept /\ Refusals /\ RecordsAreClaimed
  BY DEF Inductive
<1>1. /\ at[s] = "waiting" /\ lost /\ call[s].op = "none" /\ analysisOf[s] \in Analyses
      /\ at'[s] = "done" /\ result'[s] = "closed"
      /\ \A t \in Scans \ {s} : at'[t] = at[t] /\ result'[t] = result[t]
      /\ UNCHANGED <<analysisOf, learned, appVars, clientVars, engineVars>>
  <2>1. at[s] = "waiting" /\ lost
    BY DEF AwaitClosed
  <2>2. call[s].op = "none" /\ analysisOf[s] \in Analyses
    BY <1>0, <2>1, NoCallNoReply DEF TypeOK, ClientTypes, Calls
  <2>3. QED
    BY <1>0, <2>1, <2>2 DEF AwaitClosed, End, TypeOK, ScanTypes
<1>2. TypeOK'
  BY <1>0, <1>1, ScanStepTypes DEF Scan
<1>3. Calls' /\ Transit' /\ Starts'
  BY <1>0, <1>1 DEF Calls, Transit, Starts, StartResponse, clientVars, engineVars
<1>4. Issued' /\ StartBeforeOutcome' /\ OutcomesTrue'
  BY <1>0, <1>1 DEF Issued, Named, Answered, Streamed, Received, StartBeforeOutcome, OutcomesTrue,
                    OutcomeAt, appVars, clientVars, engineVars
<1>5. Waiters' /\ Unwanted' /\ Claimed' /\ WantedAreKept'
  <2>1. Waiters' /\ Claimed'
    BY <1>0, <1>1 DEF Waiters, Claimed, appVars, clientVars
  <2>2. Unwanted'
    BY <1>0, <1>1 DEF Unwanted, Awaits, Answered, Streamed, Received, appVars, clientVars, engineVars
  <2>3. WantedAreKept'
    BY <1>0, <1>1 DEF WantedAreKept, Received, appVars, clientVars, engineVars
  <2>4. QED
    BY <2>1, <2>2, <2>3
<1>6. Refusals'
  BY <1>0, <1>1 DEF Refusals, Evicted, clientVars, engineVars
<1>7. RecordsAreClaimed'
  <2>1. \A t \in Scans, b \in Analyses : Claims(t, b) => Claims(t, b)'
    BY <1>1 DEF Claims, clientVars
  <2>2. QED
    BY <1>0, <1>1, <2>1 DEF RecordsAreClaimed, appVars
<1>8. QED
  BY <1>2, <1>3, <1>4, <1>5, <1>6, <1>7 DEF Inductive

LEMMA AwaitGoneKeeps ==
    ASSUME Inductive, NEW s \in Scans, AwaitGone(s)
    PROVE  Inductive'
<1> USE ScanAssumption
<1>0. /\ TypeOK /\ Calls /\ Transit /\ Starts /\ Issued /\ OutcomesTrue /\ StartBeforeOutcome
      /\ Waiters /\ Unwanted /\ Claimed /\ WantedAreKept /\ Refusals /\ RecordsAreClaimed
  BY DEF Inductive
<1> DEFINE a == analysisOf[s]
<1>1. /\ at[s] = "waiting" /\ a \in Analyses /\ call[s].op = "none" /\ reply[s] = NoReply /\ result[s] = "none"
      /\ \A t \in Scans : Named(t, a) => t = s
      /\ a \in heard => channel[a] # "none"
      /\ stage[a] # "unissued"
  <2>1. at[s] = "waiting"
    BY DEF AwaitGone
  <2>2. call[s].op = "none" /\ reply[s] = NoReply
    BY <1>0, <2>1, NoCallNoReply DEF TypeOK, ClientTypes
  <2>3. a \in Analyses /\ (\A t \in Scans : Named(t, a) => t = s) /\ (a \in heard => decided[a] # "none")
    BY <1>0, <2>1, OneClaimant
  <2>4. a \in heard => channel[a] = decided[a]
    BY <1>0, <2>1 DEF WantedAreKept
  <2>5. stage[a] # "unissued"
    BY <1>0, <2>3 DEF Issued, Named
  <2>6. result[s] = "none"
    BY <1>0, <2>1 DEF Calls
  <2>7. QED
    BY <2>1, <2>2, <2>3, <2>4, <2>5, <2>6
<1>2. /\ UNCHANGED <<analysisOf, learned, channel, finished, heard, reply, lost, engineVars>>
      /\ \A t \in Scans \ {s} : at'[t] = at[t] /\ result'[t] = result[t] /\ call'[t] = call[t]
      /\ \/ lost /\ at'[s] = "done" /\ result'[s] = "gone" /\ call'[s] = call[s]
         \/ at'[s] = "cancelling" /\ result'[s] = "none" /\ call'[s] = [op |-> "cancel", analysis |-> a]
      /\ \A b \in Analyses \ {a} : waiters'[b] = waiters[b]
      /\ waiters'[a] = None
      /\ abandoned' = abandoned \cup {a}
  BY <1>0, <1>1 DEF AwaitGone, End, Send, TypeOK, ScanTypes, AppTypes, ClientTypes
<1>3. TypeOK'
  BY <1>0, <1>1, ScanStepTypes DEF Scan
<1>4. Calls' /\ Transit' /\ Starts'
  BY <1>0, <1>1, <1>2 DEF Calls, Transit, Starts, StartResponse, engineVars
<1>5. Issued' /\ StartBeforeOutcome' /\ OutcomesTrue'
  BY <1>0, <1>1, <1>2 DEF Issued, Named, Answered, Streamed, Received, StartBeforeOutcome, OutcomesTrue,
                    OutcomeAt, engineVars
<1>6. Waiters'
  <2>1. ASSUME NEW b \in Analyses, NEW t \in Scans
        PROVE  /\ waiters'[b] = t /\ ~lost => at'[t] = "waiting" /\ analysisOf[t] = b
               /\ at'[t] = "waiting" /\ analysisOf[t] = b /\ b \notin heard => waiters'[b] = t
               /\ b \in heard => waiters'[b] # t
    <3>1. /\ waiters[b] = t /\ ~lost => at[t] = "waiting" /\ analysisOf[t] = b
          /\ at[t] = "waiting" /\ analysisOf[t] = b /\ b \notin heard => waiters[b] = t
          /\ b \in heard => waiters[b] # t
      BY <1>0 DEF Waiters
    <3>2. analysisOf[t] = a => t = s
      BY <1>1 DEF Named
    <3>3. CASE b = a
      BY <1>1, <1>2, <3>1, <3>2, <3>3
    <3>4. CASE b # a
      BY <1>1, <1>2, <3>1, <3>4
    <3>5. QED
      BY <3>3, <3>4
  <2>2. QED
    BY <1>2, <2>1 DEF Waiters
<1>7. Unwanted'
  <2>1. \A t \in Scans : Awaits(t, a)' => FALSE
    BY <1>1, <1>2 DEF Awaits, Named
  <2>2. \A t \in Scans : Answered(t, a) \/ Streamed(t, a) \/ Received(t, a) => t = s
    BY <1>1 DEF Named
  <2>3. ~Answered(s, a) /\ ~Received(s, a) /\ ~Streamed(s, a)
    BY <1>0, <1>1 DEF Starts, StartResponse, Answered, Received, Streamed, Reply
  <2>4. \A t \in Scans, b \in Analyses : Awaits(t, b)' => Awaits(t, b)
    BY <1>1, <1>2 DEF Awaits
  <2>5. \A t \in Scans, b \in Analyses : /\ Answered(t, b)' <=> Answered(t, b)
                                         /\ Streamed(t, b)' <=> Streamed(t, b)
                                         /\ Received(t, b)' <=> Received(t, b)
    BY <1>2 DEF Answered, Received, Streamed, engineVars
  <2>6. abandoned' = abandoned \cup {a} /\ abandoned \subseteq Analyses
    BY <1>0, <1>2 DEF TypeOK, AppTypes
  <2>7. ASSUME NEW b \in abandoned', NEW t \in Scans
        PROVE  (~Awaits(t, b) /\ ~Answered(t, b) /\ ~Streamed(t, b) /\ ~Received(t, b))'
    <3>1. b \in Analyses
      BY <1>1, <2>6
    <3>2. CASE b = a
      <4>1. ~Awaits(t, a)'
        BY <2>1
      <4>2. ~Answered(t, a) /\ ~Streamed(t, a) /\ ~Received(t, a)
        BY <2>2, <2>3
      <4>3. QED
        BY <1>2, <3>2, <4>1, <4>2 DEF Awaits, Answered, Streamed, Received, engineVars
    <3>3. CASE b # a
      <4>1. ~Awaits(t, b) /\ ~Answered(t, b) /\ ~Streamed(t, b) /\ ~Received(t, b)
        BY <1>0, <2>6, <3>3 DEF Unwanted
      <4>2. QED
        BY <2>4, <2>5, <3>1, <4>1
    <3>4. QED
      BY <3>2, <3>3
  <2>8. QED
    BY <2>7 DEF Unwanted
<1>8. Claimed'
  <2>1. \A t \in Scans, b \in Analyses \ {a} : Awaits(t, b) => Awaits(t, b)'
    BY <1>1, <1>2 DEF Awaits
  <2>2. QED
    BY <1>0, <1>1, <1>2, <2>1 DEF Claimed, Received, Streamed, engineVars
<1>9. WantedAreKept'
  BY <1>0, <1>1, <1>2 DEF WantedAreKept, Received, engineVars
<1>10. Refusals'
  BY <1>0, <1>1, <1>2 DEF Refusals, Evicted, engineVars
<1>11. RecordsAreClaimed'
  <2>1. \A t \in Scans : at[t] \in {"accepted", "starting"} => at'[t] = at[t]
    BY <1>1, <1>2
  <2>2. QED
    BY <1>0, <1>1, <1>2, <2>1 DEF RecordsAreClaimed, Claims
<1>12. QED
  BY <1>3, <1>4, <1>5, <1>6, <1>7, <1>8, <1>9, <1>10, <1>11 DEF Inductive

\* A step of a scan that has, or will have, no use for an outcome: what is known of
\* outcomes and of who wants them stays.
LEMMA BystanderStep ==
    ASSUME Starts, Issued, OutcomesTrue, StartBeforeOutcome, Waiters, Unwanted, Claimed,
           WantedAreKept, RecordsAreClaimed,
           NEW s \in Scans,
           at[s] \notin {"starting", "accepted", "waiting"},
           at'[s] \notin {"starting", "accepted", "waiting"},
           \A t \in Scans \ {s} : at'[t] = at[t] /\ reply'[t] = reply[t],
           reply'[s] \in {reply[s], NoReply},
           UNCHANGED <<analysisOf, learned, appVars, lost, engineVars>>
    PROVE  /\ Issued' /\ OutcomesTrue' /\ StartBeforeOutcome' /\ Waiters' /\ Unwanted' /\ Claimed'
           /\ WantedAreKept' /\ RecordsAreClaimed'
<1>1. \A t \in Scans, a \in Analyses : (Awaits(t, a)' <=> Awaits(t, a)) /\ (Claims(t, a)' <=> Claims(t, a))
  BY DEF Awaits, Claims
<1>2. \A t \in Scans, a \in Analyses : Received(t, a)' <=> Received(t, a)
  BY DEF Received, Starts, StartResponse, NoReply, Reply
<1>3. \A t \in Scans, a \in Analyses : (Answered(t, a)' <=> Answered(t, a)) /\ (Streamed(t, a)' <=> Streamed(t, a))
  BY DEF Answered, Streamed, engineVars
<1>4. \A t \in Scans, a \in Analyses : Named(t, a)' <=> Named(t, a)
  BY <1>2, <1>3 DEF Named
<1>5. UNCHANGED <<abandoned, heard, finished, channel, waiters, stage, decided, stream>>
  BY DEF appVars, engineVars
<1>6. Issued'
  BY <1>3, <1>4, <1>5, ScanAssumption DEF Issued
<1>7. StartBeforeOutcome' /\ OutcomesTrue'
  BY <1>5 DEF StartBeforeOutcome, OutcomesTrue, OutcomeAt
<1>8. Waiters'
  BY <1>5 DEF Waiters
<1>9. Unwanted'
  <2>1. ASSUME NEW a \in abandoned, NEW t \in Scans
        PROVE  (~Awaits(t, a) /\ ~Answered(t, a) /\ ~Streamed(t, a) /\ ~Received(t, a))'
    <3>1. ~Awaits(t, a) /\ ~Answered(t, a) /\ ~Streamed(t, a) /\ ~Received(t, a)
      BY DEF Unwanted
    <3>2. ~Awaits(t, a)' /\ ~Received(t, a)'
      BY <3>1 DEF Awaits, Received, NoReply, Reply
    <3>3. ~Answered(t, a)' /\ ~Streamed(t, a)'
      BY <3>1 DEF Answered, Streamed, engineVars
    <3>4. QED
      BY <3>2, <3>3
  <2>2. QED
    BY <1>5, <2>1 DEF Unwanted
<1>10. Claimed'
  BY <1>1, <1>2, <1>3, <1>5 DEF Claimed
<1>11. WantedAreKept'
  BY <1>5 DEF WantedAreKept, Received, Starts, StartResponse, NoReply, Reply
<1>12. RecordsAreClaimed'
  BY <1>1, <1>5 DEF RecordsAreClaimed
<1>13. QED
  BY <1>6, <1>7, <1>8, <1>9, <1>10, <1>11, <1>12

LEMMA CancelReturnsKeeps ==
    ASSUME Inductive, NEW s \in Scans, CancelReturns(s)
    PROVE  Inductive'
<1> USE ScanAssumption
<1>0. /\ TypeOK /\ Calls /\ Transit /\ Starts /\ Issued /\ OutcomesTrue /\ StartBeforeOutcome
      /\ Waiters /\ Unwanted /\ Claimed /\ WantedAreKept /\ Refusals /\ RecordsAreClaimed
  BY DEF Inductive
<1>1. /\ at[s] = "cancelling" /\ analysisOf[s] \in Analyses /\ result[s] = "none"
      /\ \A b \in Analyses : ~Received(s, b)
  BY <1>0 DEF CancelReturns, Calls, Starts, StartResponse, Received
<1>2. /\ at'[s] = "done" /\ result'[s] = "gone" /\ call'[s] = NoCall /\ reply'[s] = NoReply
      /\ \A t \in Scans \ {s} : /\ at'[t] = at[t] /\ result'[t] = result[t]
                                /\ call'[t] = call[t] /\ reply'[t] = reply[t]
      /\ UNCHANGED <<analysisOf, learned, appVars, lost, engineVars>>
  BY <1>0 DEF CancelReturns, Forget, End, TypeOK, ScanTypes, ClientTypes
<1>3. TypeOK'
  BY <1>0, <1>1, ScanStepTypes DEF Scan
<1>4. Calls' /\ Transit'
  BY <1>0, <1>1, <1>2 DEF Calls, Transit, engineVars, NoCall
<1>5. Starts'
  BY <1>0, <1>1, <1>2 DEF Starts, StartResponse, engineVars, NoReply, Reply
<1>6. /\ Issued' /\ OutcomesTrue' /\ StartBeforeOutcome' /\ Waiters' /\ Unwanted' /\ Claimed'
     /\ WantedAreKept' /\ RecordsAreClaimed'
  BY <1>0, <1>1, <1>2, BystanderStep
<1>7. Refusals'
  BY <1>0, <1>1, <1>2 DEF Refusals, Evicted, engineVars, NoReply, Reply
<1>8. QED
  BY <1>3, <1>4, <1>5, <1>6, <1>7 DEF Inductive

LEMMA AskPageKeeps ==
    ASSUME Inductive, NEW s \in Scans, AskPage(s)
    PROVE  Inductive'
<1> USE ScanAssumption
<1>0. /\ TypeOK /\ Calls /\ Transit /\ Starts /\ Issued /\ OutcomesTrue /\ StartBeforeOutcome
      /\ Waiters /\ Unwanted /\ Claimed /\ WantedAreKept /\ Refusals /\ RecordsAreClaimed
  BY DEF Inductive
<1>1. /\ at[s] = "reporting" /\ analysisOf[s] \in Analyses /\ result[s] = "none"
      /\ call[s].op = "none" /\ reply[s] = NoReply
  BY <1>0 DEF AskPage, Calls, NoCall
<1>2. /\ \A t \in Scans \ {s} : /\ at'[t] = at[t] /\ result'[t] = result[t] /\ call'[t] = call[t]
      /\ \/ at'[s] = "done" /\ result'[s] = "closed" /\ call'[s] = call[s]
         \/ /\ at'[s] = "reporting" /\ result'[s] = "none"
            /\ call'[s] = [op |-> "page", analysis |-> analysisOf[s]]
      /\ UNCHANGED <<analysisOf, learned, appVars, reply, lost, engineVars>>
  BY <1>0, <1>1 DEF AskPage, Send, End, TypeOK, ScanTypes, ClientTypes
<1>3. TypeOK'
  BY <1>0, <1>1, ScanStepTypes DEF Scan
<1>4. Calls'
  BY <1>0, <1>1, <1>2 DEF Calls
<1>5. Transit' /\ Starts'
  BY <1>0, <1>1, <1>2 DEF Transit, Starts, StartResponse, engineVars
<1>6. /\ Issued' /\ OutcomesTrue' /\ StartBeforeOutcome' /\ Waiters' /\ Unwanted' /\ Claimed'
     /\ WantedAreKept' /\ RecordsAreClaimed'
  BY <1>0, <1>1, <1>2, BystanderStep
<1>7. Refusals'
  BY <1>0, <1>1, <1>2 DEF Refusals, Evicted, engineVars
<1>8. QED
  BY <1>3, <1>4, <1>5, <1>6, <1>7 DEF Inductive

LEMMA PageReturnsKeeps ==
    ASSUME Inductive, NEW s \in Scans, PageReturns(s)
    PROVE  Inductive'
<1> USE ScanAssumption
<1>0. /\ TypeOK /\ Calls /\ Transit /\ Starts /\ Issued /\ OutcomesTrue /\ StartBeforeOutcome
      /\ Waiters /\ Unwanted /\ Claimed /\ WantedAreKept /\ Refusals /\ RecordsAreClaimed
  BY DEF Inductive
<1>1. /\ at[s] = "reporting" /\ analysisOf[s] \in Analyses /\ result[s] = "none"
      /\ \A b \in Analyses : ~Received(s, b)
  BY <1>0 DEF PageReturns, Calls, Starts, StartResponse, Received
<1>2. /\ call'[s] = NoCall /\ reply'[s] = NoReply
      /\ \A t \in Scans \ {s} : /\ at'[t] = at[t] /\ result'[t] = result[t]
                                /\ call'[t] = call[t] /\ reply'[t] = reply[t]
      /\ \/ at'[s] = "reporting" /\ result'[s] = "none"
         \/ /\ at'[s] = "done" /\ result'[s] \in {"scanned", "unavailable", "closed", "gone"}
            /\ result'[s] = "unavailable" => reply[s].what = "snapshotUnavailable"
      /\ UNCHANGED <<analysisOf, learned, appVars, lost, engineVars>>
  BY <1>0, <1>1 DEF PageReturns, Forget, End, TypeOK, ScanTypes, ClientTypes
<1>3. TypeOK'
  BY <1>0, <1>1, ScanStepTypes DEF Scan
<1>4. Calls' /\ Transit'
  BY <1>0, <1>1, <1>2 DEF Calls, Transit, engineVars, NoCall
<1>5. Starts'
  BY <1>0, <1>1, <1>2 DEF Starts, StartResponse, engineVars, NoReply, Reply
<1>6. /\ Issued' /\ OutcomesTrue' /\ StartBeforeOutcome' /\ Waiters' /\ Unwanted' /\ Claimed'
     /\ WantedAreKept' /\ RecordsAreClaimed'
  BY <1>0, <1>1, <1>2, BystanderStep
<1>7. Refusals'
  BY <1>0, <1>1, <1>2 DEF Refusals, Evicted, engineVars, NoReply, Reply
<1>8. QED
  BY <1>3, <1>4, <1>5, <1>6, <1>7 DEF Inductive

\* A step that only the browser sees.
LEMMA GoAwayKeeps ==
    ASSUME Inductive, NEW s \in Scans, GoAway(s)
    PROVE  Inductive'
<1>0. /\ TypeOK /\ Calls /\ Transit /\ Starts /\ Issued /\ OutcomesTrue /\ StartBeforeOutcome
      /\ Waiters /\ Unwanted /\ Claimed /\ WantedAreKept /\ Refusals /\ RecordsAreClaimed
  BY DEF Inductive
<1>1. UNCHANGED <<at, analysisOf, learned, collected, result, appVars, clientVars, engineVars>>
  BY DEF GoAway
<1>2. TypeOK'
  BY <1>0, ScanStepTypes DEF Calls
<1>3. Calls' /\ Transit' /\ Starts'
  BY <1>0, <1>1 DEF Calls, Transit, Starts, StartResponse, clientVars, engineVars
<1>4. Issued'
  BY <1>0, <1>1 DEF Issued, Named, Answered, Streamed, Received, appVars, clientVars, engineVars
<1>5. OutcomesTrue' /\ StartBeforeOutcome'
  BY <1>0, <1>1 DEF OutcomesTrue, OutcomeAt, StartBeforeOutcome, appVars, engineVars
<1>6. Waiters' /\ Unwanted'
  BY <1>0, <1>1 DEF Waiters, Unwanted, Awaits, Answered, Streamed, Received, appVars, clientVars, engineVars
<1>7. Claimed' /\ WantedAreKept'
  BY <1>0, <1>1 DEF Claimed, WantedAreKept, Awaits, Streamed, Received, appVars, clientVars, engineVars
<1>8. Refusals' /\ RecordsAreClaimed'
  BY <1>0, <1>1 DEF Refusals, Evicted, RecordsAreClaimed, Claims, appVars, clientVars, engineVars
<1>9. QED
  BY <1>2, <1>3, <1>4, <1>5, <1>6, <1>7, <1>8 DEF Inductive

-----------------------------------------------------------------------------
(* The steps of the engine and of its stream.                              *)

LEMMA DisconnectKeeps ==
    ASSUME Inductive, Disconnect
    PROVE  Inductive'
<1>0. /\ TypeOK /\ Calls /\ Transit /\ Starts /\ Issued /\ OutcomesTrue /\ StartBeforeOutcome
      /\ Waiters /\ Unwanted /\ Claimed /\ WantedAreKept /\ Refusals /\ RecordsAreClaimed
  BY DEF Inductive
<1>1. /\ lost' /\ stream' = <<>>
      /\ answer' = [s \in Scans |-> NoReply]
      /\ UNCHANGED <<scanVars, appVars, call, reply, stage, decided, published>>
  BY DEF Disconnect
<1>2. TypeOK'
  BY <1>0, ClientStepTypes
<1>3. Calls' /\ Transit'
  BY <1>0, <1>1 DEF Calls, Transit, scanVars
<1>4. Starts'
  BY <1>0, <1>1 DEF Starts, StartResponse, scanVars, NoReply, Reply
<1>5. Issued'
  <2>1. \A t \in Scans, b \in Analyses : ~Answered(t, b)'
    BY <1>1 DEF Answered, NoReply, Reply
  <2>2. \A t \in Scans, b \in Analyses : Named(t, b)' => Named(t, b)
    BY <1>1, <2>1 DEF Named, Streamed, Received, scanVars
  <2>3. QED
    BY <1>0, <1>1, <2>1, <2>2 DEF Issued, appVars
<1>6. OutcomesTrue' /\ StartBeforeOutcome'
  BY <1>0, <1>1 DEF OutcomesTrue, OutcomeAt, StartBeforeOutcome, scanVars, appVars
<1>7. Waiters' /\ Claimed' /\ WantedAreKept'
  BY <1>0, <1>1 DEF Waiters, Claimed, WantedAreKept, Received, scanVars, appVars
<1>8. Unwanted'
  BY <1>0, <1>1 DEF Unwanted, Awaits, Answered, Streamed, Received, scanVars, appVars, NoReply, Reply
<1>9. Refusals'
  BY <1>0, <1>1 DEF Refusals, Evicted, scanVars, NoReply, Reply
<1>10. RecordsAreClaimed'
  BY <1>0, <1>1 DEF RecordsAreClaimed, Claims, scanVars, appVars
<1>11. QED
  BY <1>2, <1>3, <1>4, <1>5, <1>6, <1>7, <1>8, <1>9, <1>10 DEF Inductive

LEMMA EngineStartsKeeps ==
    ASSUME Inductive, NEW s \in Scans, EngineStarts(s)
    PROVE  Inductive'
<1> USE ScanAssumption
<1>0. /\ TypeOK /\ Calls /\ Transit /\ Starts /\ Issued /\ OutcomesTrue /\ StartBeforeOutcome
      /\ Waiters /\ Unwanted /\ Claimed /\ WantedAreKept /\ Refusals /\ RecordsAreClaimed
  BY DEF Inductive
<1>1. /\ at[s] = "starting" /\ ~lost /\ answer[s] = NoReply /\ reply[s] = NoReply
      /\ \A i \in DOMAIN stream : stream[i].to # s
  BY <1>0 DEF EngineStarts, Unanswered, Calls
<1>2. UNCHANGED <<scanVars, appVars, clientVars, decided, published, stream>>
  BY DEF EngineStarts
<1>3. TypeOK'
  BY <1>0, EngineStepTypes
<1>4. CASE active # None
  <2>1. /\ \A t \in Scans \ {s} : answer'[t] = answer[t]
        /\ answer'[s] = Reply(s, "alreadyRunning", None)
        /\ UNCHANGED stage
    BY <1>0, <1>4 DEF EngineStarts, TypeOK, EngineTypes
  <2>2. \A t \in Scans, b \in Analyses : Answered(t, b)' => Answered(t, b)
    BY <2>1 DEF Answered, Reply
  <2>3. Calls' /\ Transit' /\ Starts'
    BY <1>0, <1>1, <1>2, <2>1 DEF Calls, Transit, Starts, StartResponse, scanVars, clientVars, Reply
  <2>4. Issued'
    <3>1. \A t \in Scans, b \in Analyses : Named(t, b)' => Named(t, b)
      BY <1>2, <2>2 DEF Named, Streamed, Received, scanVars, clientVars
    <3>2. QED
      BY <1>0, <1>2, <2>1, <2>2, <3>1 DEF Issued, appVars
  <2>5. Unwanted'
    BY <1>0, <1>1, <1>2, <2>1 DEF Unwanted, Awaits, Answered, Streamed, Received, scanVars, appVars, clientVars, Reply
  <2>6. Refusals'
    BY <1>0, <1>2, <2>1 DEF Refusals, Evicted, scanVars, clientVars, Reply
  <2>7. OutcomesTrue' /\ StartBeforeOutcome'
    BY <1>0, <1>2, <2>1 DEF OutcomesTrue, OutcomeAt, StartBeforeOutcome, scanVars, appVars
  <2>8. Waiters' /\ Claimed' /\ WantedAreKept' /\ RecordsAreClaimed'
    BY <1>0, <1>2, <2>1 DEF Waiters, Claimed, WantedAreKept, RecordsAreClaimed, Claims, Awaits, Streamed, Received,
                            scanVars, appVars, clientVars
  <2>9. QED
    BY <1>3, <2>3, <2>4, <2>5, <2>6, <2>7, <2>8 DEF Inductive
<1>5. CASE active = None
  <2>1. PICK a \in Analyses : /\ stage[a] = "unissued"
                              /\ stage' = [stage EXCEPT ![a] = "registered"]
                              /\ answer' = [answer EXCEPT ![s] = Reply(s, "started", a)]
    BY <1>5 DEF EngineStarts
  <2>2. /\ \A t \in Scans \ {s} : answer'[t] = answer[t]
        /\ answer'[s] = Reply(s, "started", a)
        /\ \A b \in Analyses \ {a} : stage'[b] = stage[b]
        /\ stage'[a] = "registered"
    BY <1>0, <2>1 DEF TypeOK, EngineTypes
  <2>3. /\ \A t \in Scans : ~Named(t, a)
        /\ a \notin abandoned /\ a \notin heard /\ decided[a] = "none"
        /\ \A i \in DOMAIN stream : ~OutcomeAt(i, a)
    BY <1>0, <2>1 DEF Issued, OutcomesTrue
  <2>4. /\ \A t \in Scans, b \in Analyses : Answered(t, b)' <=> Answered(t, b) \/ (t = s /\ b = a)
        /\ \A t \in Scans, b \in Analyses : Awaits(t, b)' <=> Awaits(t, b)
        /\ \A t \in Scans, b \in Analyses : Streamed(t, b)' <=> Streamed(t, b)
        /\ \A t \in Scans, b \in Analyses : Received(t, b)' <=> Received(t, b)
    <3>1. \A b \in Analyses : ~Answered(s, b)
      BY <1>1 DEF Answered, NoReply, Reply
    <3>2. QED
      BY <1>2, <2>2, <3>1 DEF Answered, Awaits, Streamed, Received, scanVars, clientVars, Reply
  <2>5. \A t \in Scans, b \in Analyses : Named(t, b)' <=> Named(t, b) \/ (t = s /\ b = a)
    BY <1>2, <2>4 DEF Named, scanVars
  <2>6. Calls' /\ Transit' /\ Starts'
    BY <1>0, <1>1, <1>2, <2>2 DEF Calls, Transit, Starts, StartResponse, scanVars, clientVars, Reply
  <2>7. Issued'
    <3>1. \A b \in Analyses : \A t, u \in Scans : Named(t, b)' /\ Named(u, b)' => t = u
      BY <1>0, <2>3, <2>5 DEF Issued
    <3>2. \A b \in Analyses : \A t \in Scans :
             /\ Named(t, b)' => stage'[b] # "unissued"
             /\ Answered(t, b)' => stage'[b] = "registered"
      BY <1>0, <2>2, <2>4, <2>5 DEF Issued
    <3>3. \A b \in abandoned' : stage'[b] # "unissued"
      BY <1>0, <1>2, <2>1, <2>2 DEF Issued, appVars, TypeOK, AppTypes
    <3>4. QED
      BY <3>1, <3>2, <3>3 DEF Issued
  <2>8. OutcomesTrue'
    BY <1>0, <1>2, <2>2, <2>3 DEF OutcomesTrue, OutcomeAt, scanVars, appVars
  <2>9. StartBeforeOutcome'
    BY <1>0, <1>2 DEF OutcomeAt, StartBeforeOutcome, appVars
  <2>10. Unwanted'
    <3>1. abandoned \subseteq Analyses
      BY <1>0 DEF TypeOK, AppTypes
    <3>2. QED
      BY <1>0, <1>2, <2>3, <2>4, <3>1 DEF Unwanted, appVars
  <2>11. Claimed'
    BY <1>0, <1>2, <2>2, <2>4 DEF Claimed, appVars, clientVars
  <2>12. Waiters' /\ WantedAreKept' /\ RecordsAreClaimed'
    BY <1>0, <1>2 DEF Waiters, WantedAreKept, RecordsAreClaimed, Claims, Received, scanVars, appVars, clientVars
  <2>13. Refusals'
    BY <1>0, <1>2, <2>2 DEF Refusals, Evicted, scanVars, clientVars, Reply
  <2>14. QED
    BY <1>3, <2>6, <2>7, <2>8, <2>9, <2>10, <2>11, <2>12, <2>13 DEF Inductive
<1>6. QED
  BY <1>4, <1>5

\* An answer to a scan that knows its outcome.
LEMMA EngineAnswers ==
    ASSUME Inductive, TypeOK', NEW s \in Scans,
           NEW what \in {"cancelRequested", "page", "snapshotUnavailable"},
           at[s] \in {"cancelling", "reporting"}, answer[s] = NoReply, reply[s] = NoReply, ~lost,
           \A i \in DOMAIN stream : stream[i].to # s,
           what = "snapshotUnavailable" => Evicted(s),
           answer' = [answer EXCEPT ![s] = Reply(s, what, call[s].analysis)],
           UNCHANGED <<scanVars, appVars, clientVars, stage, decided, published, stream>>
    PROVE  Inductive'
<1>0. /\ TypeOK /\ Calls /\ Transit /\ Starts /\ Issued /\ OutcomesTrue /\ StartBeforeOutcome
      /\ Waiters /\ Unwanted /\ Claimed /\ WantedAreKept /\ Refusals /\ RecordsAreClaimed
  BY DEF Inductive
<1>1. /\ \A t \in Scans \ {s} : answer'[t] = answer[t]
      /\ answer'[s].to = s /\ answer'[s].what = what
  BY <1>0 DEF TypeOK, EngineTypes, Reply
<1>2. \A t \in Scans, b \in Analyses : Answered(t, b)' => Answered(t, b)
  BY <1>1 DEF Answered
<1>3. Calls' /\ Transit' /\ Starts'
  BY <1>0, <1>1 DEF Calls, Transit, Starts, StartResponse, scanVars, clientVars
<1>4. Issued'
  <2>1. \A t \in Scans, b \in Analyses : Named(t, b)' => Named(t, b)
    BY <1>2 DEF Named, Streamed, Received, scanVars, clientVars
  <2>2. QED
    BY <1>0, <1>2, <2>1 DEF Issued, appVars
<1>5. Unwanted'
  BY <1>0, <1>1 DEF Unwanted, Awaits, Answered, Streamed, Received, scanVars, appVars, clientVars
<1>6. Refusals'
  BY <1>0, <1>1 DEF Refusals, Evicted, scanVars, clientVars
<1>7. OutcomesTrue' /\ StartBeforeOutcome'
  BY <1>0 DEF OutcomesTrue, OutcomeAt, StartBeforeOutcome, scanVars, appVars
<1>8. Waiters' /\ Claimed' /\ WantedAreKept' /\ RecordsAreClaimed'
  BY <1>0 DEF Waiters, Claimed, WantedAreKept, RecordsAreClaimed, Claims, Awaits, Streamed, Received,
              scanVars, appVars, clientVars
<1>9. QED
  BY <1>3, <1>4, <1>5, <1>6, <1>7, <1>8 DEF Inductive

LEMMA EngineCancelsKeeps ==
    ASSUME Inductive, NEW s \in Scans, EngineCancels(s)
    PROVE  Inductive'
<1>1. Calls /\ TypeOK /\ Starts /\ OutcomesTrue
  BY DEF Inductive
<1>2. TypeOK'
  BY <1>1, EngineStepTypes
<1>3. /\ at[s] = "cancelling" /\ answer[s] = NoReply /\ reply[s] = NoReply /\ ~lost
      /\ \A i \in DOMAIN stream : stream[i].to # s
      /\ answer' = [answer EXCEPT ![s] = Reply(s, "cancelRequested", call[s].analysis)]
      /\ UNCHANGED <<scanVars, appVars, clientVars, stage, decided, published, stream>>
  BY <1>1 DEF EngineCancels, Unanswered, Calls
<1>4. QED
  BY <1>2, <1>3, EngineAnswers

\* A snapshot that is no longer kept was evicted by two publications.
LEMMA NotKept ==
    ASSUME TypeOK, OutcomesTrue, Refusals, NEW s \in Scans, at[s] = "reporting",
           ~Kept(analysisOf[s], RetainedSnapshotsPerView)
    PROVE  Evicted(s)
<1>1. published \in Seq(Analyses)
  BY DEF TypeOK, EngineTypes
<1>2. DOMAIN published = 1..Len(published) /\ Len(published) \in Nat
  BY <1>1, LenProperties
<1>3. PICK i \in DOMAIN published : published[i] = analysisOf[s]
  BY DEF Refusals, OutcomesTrue
<1>4. i \in Nat /\ ~(Len(published) - i < 2)
  BY <1>2, <1>3 DEF Kept, RetainedSnapshotsPerView
<1>5. i + 1 \in DOMAIN published /\ i + 2 \in DOMAIN published /\ i < i + 1 /\ i + 1 < i + 2
  BY <1>2, <1>4
<1>6. QED
  BY <1>3, <1>5 DEF Evicted

LEMMA EngineServesPageKeeps ==
    ASSUME Inductive, NEW s \in Scans, EngineServesPage(s)
    PROVE  Inductive'
<1>1. Calls /\ TypeOK /\ Starts /\ OutcomesTrue /\ Refusals
  BY DEF Inductive
<1>2. TypeOK'
  BY <1>1, EngineStepTypes
<1> DEFINE what == IF Kept(call[s].analysis, RetainedSnapshotsPerView) THEN "page" ELSE "snapshotUnavailable"
<1>3. /\ at[s] = "reporting" /\ answer[s] = NoReply /\ reply[s] = NoReply /\ ~lost
      /\ call[s].analysis = analysisOf[s]
      /\ \A i \in DOMAIN stream : stream[i].to # s
      /\ answer' = [answer EXCEPT ![s] = Reply(s, what, call[s].analysis)]
      /\ UNCHANGED <<scanVars, appVars, clientVars, stage, decided, published, stream>>
  BY <1>1 DEF EngineServesPage, Unanswered, Calls
<1>4. what = "snapshotUnavailable" => Evicted(s)
  BY <1>1, <1>3, NotKept
<1>5. what \in {"cancelRequested", "page", "snapshotUnavailable"}
  OBVIOUS
<1> HIDE DEF what
<1>6. QED
  BY <1>2, <1>3, <1>4, <1>5, EngineAnswers

LEMMA EngineRespondsKeeps ==
    ASSUME Inductive, NEW s \in Scans, EngineResponds(s)
    PROVE  Inductive'
<1> USE ScanAssumption
<1>0. /\ TypeOK /\ Calls /\ Transit /\ Starts /\ Issued /\ OutcomesTrue /\ StartBeforeOutcome
      /\ Waiters /\ Unwanted /\ Claimed /\ WantedAreKept /\ Refusals /\ RecordsAreClaimed
  BY DEF Inductive
<1> DEFINE m == answer[s]
           n == Len(stream) + 1
<1>1. /\ ~lost /\ m \in Replies /\ m.to = s /\ s # None /\ reply[s] = NoReply
      /\ \A i \in DOMAIN stream : stream[i].to # s
  BY <1>0 DEF EngineResponds, TypeOK, EngineTypes, Transit
<1>2. /\ UNCHANGED <<scanVars, appVars, clientVars, decided, published>>
      /\ \A t \in Scans \ {s} : answer'[t] = answer[t]
      /\ answer'[s] = NoReply
      /\ IF m.what = "started"
         THEN stage'[m.analysis] = "running" /\ \A b \in Analyses \ {m.analysis} : stage'[b] = stage[b]
         ELSE stage' = stage
      /\ stream' = Append(stream, m)
  BY <1>0 DEF EngineResponds, TypeOK, EngineTypes, Starts, StartResponse
<1>3. /\ n \in DOMAIN stream' /\ stream'[n] = m
      /\ \A i \in DOMAIN stream : i \in DOMAIN stream' /\ stream'[i] = stream[i] /\ i < n
      /\ \A i \in DOMAIN stream' : i \in DOMAIN stream \/ i = n
  BY <1>0, <1>1, <1>2, EndOfStream
<1> HIDE DEF n
<1>4. TypeOK'
  BY <1>0, EngineStepTypes
<1>5. /\ \A t \in Scans, b \in Analyses : Answered(t, b)' <=> t # s /\ Answered(t, b)
      /\ \A t \in Scans, b \in Analyses : Streamed(t, b)' <=> Streamed(t, b) \/ (t = s /\ Answered(t, b))
      /\ \A t \in Scans, b \in Analyses : Received(t, b)' <=> Received(t, b)
      /\ \A t \in Scans, b \in Analyses : Awaits(t, b)' <=> Awaits(t, b)
  <2>1. \A t \in Scans, b \in Analyses : Answered(t, b)' <=> t # s /\ Answered(t, b)
    BY <1>2 DEF Answered, NoReply, Reply
  <2>2. ASSUME NEW t \in Scans, NEW b \in Analyses
        PROVE  Streamed(t, b)' <=> Streamed(t, b) \/ (t = s /\ Answered(t, b))
    <3>1. m = Reply(t, "started", b) <=> t = s /\ m.what = "started" /\ m.analysis = b
      BY <1>1 DEF Reply, Replies
    <3>2. Streamed(t, b)' <=> \E i \in DOMAIN stream' : stream'[i] = Reply(t, "started", b)
      BY DEF Streamed
    <3>3. ASSUME NEW i \in DOMAIN stream', stream'[i] = Reply(t, "started", b)
          PROVE  Streamed(t, b) \/ (t = s /\ Answered(t, b))
      <4>1. CASE i \in DOMAIN stream
        <5>1. stream[i] = Reply(t, "started", b)
          BY <1>3, <3>3, <4>1
        <5>2. QED
          BY <4>1, <5>1 DEF Streamed
      <4>2. CASE i = n
        BY <1>3, <3>1, <3>3, <4>2 DEF Answered
      <4>3. QED
        BY <1>3, <4>1, <4>2
    <3>4. t = s /\ Answered(t, b) => Streamed(t, b)'
      BY <1>3, <3>1, <3>2 DEF Answered
    <3>5. Streamed(t, b) => Streamed(t, b)'
      BY <1>3, <3>2 DEF Streamed
    <3>6. QED
      BY <3>2, <3>3, <3>4, <3>5
  <2>3. \A t \in Scans, b \in Analyses : /\ Received(t, b)' <=> Received(t, b)
                                         /\ Awaits(t, b)' <=> Awaits(t, b)
    BY <1>2 DEF Received, Awaits, scanVars, clientVars
  <2>4. QED
    BY <2>1, <2>2, <2>3
<1>6. \A t \in Scans, b \in Analyses : Named(t, b)' => Named(t, b)
  BY <1>2, <1>5 DEF Named, scanVars
<1>7. \A b \in Analyses :
         \/ Answered(s, b) /\ stage[b] = "registered" /\ stage'[b] = "running"
         \/ ~Answered(s, b) /\ stage'[b] = stage[b]
  BY <1>0, <1>2 DEF Issued, Answered
<1>8. Calls'
  BY <1>0, <1>2 DEF Calls, scanVars, clientVars
<1>9. Transit'
  BY <1>0, <1>1, <1>2, <1>3 DEF Transit, clientVars
<1>10. Starts'
  BY <1>0, <1>1, <1>2, <1>3 DEF Starts, StartResponse, scanVars, clientVars, NoReply, Reply
<1>11. Issued'
  <2>1. \A b \in Analyses : \A t \in Scans :
           /\ Named(t, b)' => stage'[b] # "unissued"
           /\ Answered(t, b)' => stage'[b] = "registered"
    <3>1. ASSUME NEW b \in Analyses, NEW t \in Scans, Answered(t, b)'
          PROVE  stage'[b] = "registered"
      <4>1. Answered(t, b) /\ t # s
        BY <1>5, <3>1
      <4>2. ~Answered(s, b)
        BY <1>0, <4>1 DEF Issued, Named
      <4>3. QED
        BY <1>0, <1>7, <4>1, <4>2 DEF Issued
    <3>2. QED
      BY <1>0, <1>6, <1>7, <3>1 DEF Issued
  <2>2. \A b \in abandoned' : stage'[b] # "unissued"
    BY <1>0, <1>2, <1>7 DEF Issued, appVars, TypeOK, AppTypes
  <2>3. QED
    BY <1>0, <1>6, <2>1, <2>2 DEF Issued
<1>12. \A i \in DOMAIN stream', b \in Analyses : OutcomeAt(i, b)' => i \in DOMAIN stream /\ OutcomeAt(i, b)
  BY <1>1, <1>3 DEF OutcomeAt
<1>13. OutcomesTrue'
  <2>1. \A b \in Analyses :
           /\ stage'[b] \in {"committed", "reported"} <=> stage[b] \in {"committed", "reported"}
           /\ stage'[b] = "reported" <=> stage[b] = "reported"
    BY <1>7
  <2>2. \A b \in Analyses : \A i \in DOMAIN stream' :
           OutcomeAt(i, b)' => /\ stage'[b] = "reported"
                               /\ b \notin heard'
                               /\ stream'[i].what = decided'[b]
                               /\ \A j \in DOMAIN stream' : OutcomeAt(j, b)' => j = i
    <3>1. ASSUME NEW b \in Analyses, NEW i \in DOMAIN stream', OutcomeAt(i, b)'
          PROVE  /\ stage'[b] = "reported" /\ b \notin heard' /\ stream'[i].what = decided'[b]
                 /\ \A j \in DOMAIN stream' : OutcomeAt(j, b)' => j = i
      <4>1. i \in DOMAIN stream /\ OutcomeAt(i, b)
        BY <1>12, <3>1
      <4>2. /\ stage[b] = "reported" /\ b \notin heard /\ stream[i].what = decided[b]
            /\ \A j \in DOMAIN stream : OutcomeAt(j, b) => j = i
        BY <1>0, <4>1 DEF OutcomesTrue
      <4>3. \A j \in DOMAIN stream' : OutcomeAt(j, b)' => j = i
        BY <1>12, <4>2
      <4>4. QED
        BY <1>2, <1>3, <2>1, <4>1, <4>2, <4>3 DEF appVars
    <3>2. QED
      BY <3>1
  <2>3. QED
    BY <1>0, <1>2, <2>1, <2>2 DEF OutcomesTrue, scanVars, appVars
<1>14. StartBeforeOutcome'
  <2>1. ASSUME NEW t \in Scans, NEW b \in Analyses, NEW i \in DOMAIN stream', stream'[i] = Reply(t, "started", b)
        PROVE  b \notin heard /\ \A j \in DOMAIN stream' : OutcomeAt(j, b)' => i < j
    <3>1. CASE i \in DOMAIN stream
      BY <1>0, <1>3, <1>12, <2>1, <3>1 DEF StartBeforeOutcome
    <3>2. CASE i = n
      <4>1. Answered(s, b)
        BY <1>1, <1>3, <2>1, <3>2 DEF Answered, Reply
      <4>2. stage[b] = "registered"
        BY <1>7, <4>1
      <4>3. QED
        BY <1>0, <1>12, <4>2 DEF OutcomesTrue
    <3>3. QED
      BY <1>3, <3>1, <3>2
  <2>2. QED
    BY <1>2, <2>1 DEF StartBeforeOutcome, appVars
<1>15. Unwanted'
  <2>1. ASSUME NEW b \in abandoned, NEW t \in Scans
        PROVE  (~Awaits(t, b) /\ ~Answered(t, b) /\ ~Streamed(t, b) /\ ~Received(t, b))'
    <3>1. ~Awaits(t, b) /\ ~Answered(t, b) /\ ~Streamed(t, b) /\ ~Received(t, b)
      BY <1>0 DEF Unwanted
    <3>2. b \in Analyses
      BY <1>0 DEF TypeOK, AppTypes
    <3>3. QED
      BY <1>5, <3>1, <3>2
  <2>2. QED
    BY <1>2, <2>1 DEF Unwanted, appVars
<1>16. Claimed'
  <2>1. ASSUME NEW b \in Analyses, stage'[b] \in {"running", "committed", "reported"},
               b \notin heard \cup abandoned
        PROVE  \E t \in Scans : Awaits(t, b)' \/ Streamed(t, b)' \/ Received(t, b)'
    <3>1. CASE Answered(s, b)
      BY <1>5, <3>1
    <3>2. CASE ~Answered(s, b)
      <4>1. PICK t \in Scans : Awaits(t, b) \/ Streamed(t, b) \/ Received(t, b)
        BY <1>0, <1>1, <1>7, <2>1, <3>2 DEF Claimed
      <4>2. QED
        BY <1>5, <4>1
    <3>3. QED
      BY <3>1, <3>2
  <2>2. QED
    BY <1>2, <2>1 DEF Claimed, appVars, clientVars
<1>17. Waiters' /\ WantedAreKept' /\ RecordsAreClaimed'
  BY <1>0, <1>2 DEF Waiters, WantedAreKept, RecordsAreClaimed, Claims, Received, scanVars, appVars, clientVars
<1>18. Refusals'
  BY <1>0, <1>1, <1>2, <1>3 DEF Refusals, Evicted, scanVars, clientVars, NoReply, Reply
<1>19. QED
  BY <1>4, <1>8, <1>9, <1>10, <1>11, <1>13, <1>14, <1>15, <1>16, <1>17, <1>18 DEF Inductive

LEMMA CommitsKeeps ==
    ASSUME Inductive, NEW a \in Analyses, Commits(a)
    PROVE  Inductive'
<1> USE ScanAssumption
<1>0. /\ TypeOK /\ Calls /\ Transit /\ Starts /\ Issued /\ OutcomesTrue /\ StartBeforeOutcome
      /\ Waiters /\ Unwanted /\ Claimed /\ WantedAreKept /\ Refusals /\ RecordsAreClaimed
  BY DEF Inductive
<1>1. PICK decision \in {"published", "failed", "cancelled"} : EngineCommits(a, decision)
  BY DEF Commits
<1>2. TypeOK'
  BY <1>0, EngineStepTypes
<1>3. /\ stage[a] = "running" /\ stage'[a] = "committed"
      /\ \A b \in Analyses \ {a} : stage'[b] = stage[b] /\ decided'[b] = decided[b]
      /\ decided'[a] = decision
      /\ published' = IF decision = "published" THEN Append(published, a) ELSE published
      /\ UNCHANGED <<scanVars, appVars, clientVars, answer, stream>>
  BY <1>0, <1>1 DEF EngineCommits, TypeOK, EngineTypes
<1>4. /\ a \notin heard /\ decided[a] = "none"
      /\ \A i \in DOMAIN stream : ~OutcomeAt(i, a)
      /\ \A t \in Scans : learned[t] # "none" => analysisOf[t] # a
      /\ finished[a] = "none" /\ channel[a] = "none"
  BY <1>0, <1>3 DEF OutcomesTrue
\* Publishing appends: what was published is where it was.
<1>5. /\ \A i \in DOMAIN published : i \in DOMAIN published' /\ published'[i] = published[i]
      /\ decision = "published" => \E i \in DOMAIN published' : published'[i] = a
  <2>1. published \in Seq(Analyses)
    BY <1>0 DEF TypeOK, EngineTypes
  <2>2. CASE decision = "published"
    <3>1. /\ Len(published') = Len(published) + 1 /\ Len(published) \in Nat
          /\ \A i \in 1..Len(published) : published'[i] = published[i]
          /\ published'[Len(published) + 1] = a
          /\ published' \in Seq(Analyses)
      BY <1>3, <2>1, <2>2, AppendProperties, LenProperties
    <3>2. DOMAIN published = 1..Len(published) /\ DOMAIN published' = 1..Len(published')
      BY <2>1, <3>1, LenProperties
    <3>3. QED
      BY <3>1, <3>2
  <2>3. CASE decision # "published"
    BY <1>3, <2>3
  <2>4. QED
    BY <2>2, <2>3
<1>6. Calls' /\ Transit' /\ Starts' /\ Waiters'
  BY <1>0, <1>3 DEF Calls, Transit, Starts, StartResponse, Waiters, scanVars, appVars, clientVars
<1>7. Issued'
  <2>1. \A t \in Scans, b \in Analyses : (Named(t, b)' <=> Named(t, b)) /\ (Answered(t, b)' <=> Answered(t, b))
    BY <1>3 DEF Named, Answered, Streamed, Received, scanVars, clientVars
  <2>2. \A b \in Analyses : /\ stage[b] # "unissued" => stage'[b] # "unissued"
                            /\ stage[b] = "registered" => stage'[b] = "registered"
    BY <1>3
  <2>3. abandoned' = abandoned /\ abandoned \subseteq Analyses
    BY <1>0, <1>3 DEF TypeOK, AppTypes, appVars
  <2>4. QED
    BY <1>0, <2>1, <2>2, <2>3 DEF Issued
<1>8. OutcomesTrue'
  <2>1. UNCHANGED <<stream, heard, finished, channel, learned, analysisOf>>
    BY <1>3 DEF scanVars, appVars
  <2>2. \A b \in Analyses : /\ b # a => decided'[b] = decided[b] /\ stage'[b] = stage[b]
                            /\ b \in heard \/ finished[b] # "none" \/ channel[b] # "none" => b # a
    BY <1>3, <1>4
  <2>3. \A b \in Analyses :
          /\ decided'[b] # "none" <=> stage'[b] \in {"committed", "reported"}
          /\ b \in heard' => stage'[b] = "reported"
          /\ finished'[b] # "none" => b \in heard' /\ finished'[b] = decided'[b]
          /\ channel'[b] # "none" => b \in heard' /\ channel'[b] = decided'[b]
    BY <1>0, <1>3, <2>1, <2>2 DEF OutcomesTrue
  <2>4. \A b \in Analyses : \A i \in DOMAIN stream :
          OutcomeAt(i, b) => /\ stage'[b] = "reported"
                             /\ b \notin heard
                             /\ stream[i].what = decided'[b]
                             /\ \A j \in DOMAIN stream : OutcomeAt(j, b) => j = i
    BY <1>0, <1>4, <2>2 DEF OutcomesTrue
  <2>5. \A t \in Scans : learned[t] # "none" =>
          analysisOf[t] \in Analyses /\ learned[t] = decided'[analysisOf[t]]
    BY <1>0, <1>4, <2>2 DEF OutcomesTrue
  <2>6. QED
    BY <2>1, <2>3, <2>4, <2>5 DEF OutcomesTrue, OutcomeAt
<1>9. StartBeforeOutcome' /\ Unwanted'
  BY <1>0, <1>3 DEF StartBeforeOutcome, OutcomeAt, Unwanted, Awaits, Answered, Streamed, Received, scanVars,
                    appVars, clientVars
<1>10. Claimed'
  <2>1. \A b \in Analyses : stage'[b] \in {"running", "committed", "reported"} =>
                               stage[b] \in {"running", "committed", "reported"}
    BY <1>3
  <2>2. QED
    BY <1>0, <1>3, <2>1 DEF Claimed, Awaits, Streamed, Received, scanVars, appVars, clientVars
<1>11. WantedAreKept'
  <2>1. \A b \in heard : decided'[b] = decided[b]
    BY <1>0, <1>3, <1>4 DEF TypeOK, AppTypes
  <2>2. QED
    BY <1>0, <1>3, <2>1 DEF WantedAreKept, Received, scanVars, appVars, clientVars
<1>12. RecordsAreClaimed'
  BY <1>0, <1>3 DEF RecordsAreClaimed, Claims, scanVars, appVars, clientVars
<1>13. Refusals'
  <2>1. \A t \in Scans : Evicted(t) => Evicted(t)'
    <3>1. ASSUME NEW t \in Scans, Evicted(t)
          PROVE  Evicted(t)'
      <4>1. PICK i, j, k \in DOMAIN published : i < j /\ j < k /\ published[i] = analysisOf[t]
        BY <3>1 DEF Evicted
      <4>2. /\ i \in DOMAIN published' /\ j \in DOMAIN published' /\ k \in DOMAIN published'
            /\ published'[i] = analysisOf'[t]
        BY <1>3, <1>5, <4>1 DEF scanVars
      <4>3. QED
        BY <4>1, <4>2 DEF Evicted
    <3>2. QED
      BY <3>1
  <2>2. \A b \in Analyses : decided'[b] = "published" => \E i \in DOMAIN published' : published'[i] = b
    BY <1>0, <1>3, <1>5 DEF Refusals
  <2>3. QED
    BY <1>0, <1>3, <2>1, <2>2 DEF Refusals, scanVars, clientVars
<1>14. QED
  BY <1>2, <1>6, <1>7, <1>8, <1>9, <1>10, <1>11, <1>12, <1>13 DEF Inductive

LEMMA EngineReportsKeeps ==
    ASSUME Inductive, NEW a \in Analyses, EngineReports(a)
    PROVE  Inductive'
<1> USE ScanAssumption
<1>0. /\ TypeOK /\ Calls /\ Transit /\ Starts /\ Issued /\ OutcomesTrue /\ StartBeforeOutcome
      /\ Waiters /\ Unwanted /\ Claimed /\ WantedAreKept /\ Refusals /\ RecordsAreClaimed
  BY DEF Inductive
<1> DEFINE m == Outcome(a, decided[a])
           n == Len(stream) + 1
<1>1. /\ ~lost /\ stage[a] = "committed" /\ decided[a] \in Decisions /\ a \notin heard
      /\ \A i \in DOMAIN stream : ~OutcomeAt(i, a)
  BY <1>0 DEF EngineReports, OutcomesTrue, TypeOK, EngineTypes
<1>2. /\ UNCHANGED <<scanVars, appVars, clientVars, answer, decided, published>>
      /\ stage'[a] = "reported"
      /\ \A b \in Analyses \ {a} : stage'[b] = stage[b]
      /\ stream' = Append(stream, m)
  BY <1>0 DEF EngineReports, TypeOK, EngineTypes
<1>3. m \in Outcomes /\ m.to = None /\ m.what = decided[a] /\ m.analysis = a
  BY <1>1 DEF Outcome, Outcomes
<1>4. /\ n \in DOMAIN stream' /\ stream'[n] = m /\ n \notin DOMAIN stream
      /\ \A i \in DOMAIN stream : i \in DOMAIN stream' /\ stream'[i] = stream[i] /\ i < n
      /\ \A i \in DOMAIN stream' : i \in DOMAIN stream \/ i = n
  BY <1>0, <1>2, <1>3, EndOfStream
<1> HIDE DEF n, m
<1>5. TypeOK'
  BY <1>0, EngineStepTypes
<1>6. \A i \in DOMAIN stream', b \in Analyses :
         OutcomeAt(i, b)' <=> (i \in DOMAIN stream /\ OutcomeAt(i, b)) \/ (i = n /\ b = a)
  <2>1. ASSUME NEW i \in DOMAIN stream', NEW b \in Analyses
        PROVE  OutcomeAt(i, b)' <=> (i \in DOMAIN stream /\ OutcomeAt(i, b)) \/ (i = n /\ b = a)
    <3>1. CASE i = n
      BY <1>3, <1>4, <3>1 DEF OutcomeAt
    <3>2. CASE i # n
      BY <1>4, <3>2 DEF OutcomeAt
    <3>3. QED
      BY <3>1, <3>2
  <2>2. QED
    BY <2>1
<1>7. \A i \in DOMAIN stream' : stream'[i].to # None => i \in DOMAIN stream /\ stream'[i] = stream[i]
  BY <1>3, <1>4
<1>8. \A t \in Scans, b \in Analyses : Streamed(t, b)' <=> Streamed(t, b)
  <2>1. ASSUME NEW t \in Scans, NEW b \in Analyses
        PROVE  Streamed(t, b)' <=> Streamed(t, b)
    <3>1. Reply(t, "started", b).to # None
      BY DEF Reply
    <3>2. ASSUME NEW i \in DOMAIN stream', stream'[i] = Reply(t, "started", b)
          PROVE  i \in DOMAIN stream /\ stream[i] = Reply(t, "started", b)
      BY <1>7, <3>1, <3>2
    <3>3. QED
      BY <1>4, <3>2 DEF Streamed
  <2>2. QED
    BY <2>1
<1>9. \A t \in Scans, b \in Analyses : /\ Answered(t, b)' <=> Answered(t, b)
                                       /\ Received(t, b)' <=> Received(t, b)
                                       /\ Awaits(t, b)' <=> Awaits(t, b)
                                       /\ Named(t, b)' <=> Named(t, b)
  BY <1>2, <1>8 DEF Answered, Received, Awaits, Named, scanVars, clientVars
<1>10. Calls' /\ Waiters'
  BY <1>0, <1>2 DEF Calls, Waiters, scanVars, appVars, clientVars
<1>11. Transit' /\ Starts'
  BY <1>0, <1>1, <1>2, <1>7 DEF Transit, Starts, StartResponse, scanVars, clientVars
<1>12. Issued'
  <2>1. \A b \in Analyses : /\ stage[b] # "unissued" => stage'[b] # "unissued"
                            /\ stage[b] = "registered" => stage'[b] = "registered"
    BY <1>1, <1>2
  <2>2. abandoned' = abandoned /\ abandoned \subseteq Analyses
    BY <1>0, <1>2 DEF TypeOK, AppTypes, appVars
  <2>3. QED
    BY <1>0, <1>9, <2>1, <2>2 DEF Issued
<1>13. OutcomesTrue'
  <2>1. \A b \in Analyses :
           /\ stage'[b] \in {"committed", "reported"} <=> stage[b] \in {"committed", "reported"}
           /\ stage[b] = "reported" => stage'[b] = "reported"
    BY <1>1, <1>2
  <2>2. ASSUME NEW b \in Analyses, NEW i \in DOMAIN stream', OutcomeAt(i, b)'
        PROVE  /\ stage'[b] = "reported" /\ b \notin heard /\ stream'[i].what = decided[b]
               /\ \A j \in DOMAIN stream' : OutcomeAt(j, b)' => j = i
    <3>1. CASE i = n
      <4>1. b = a
        BY <1>4, <1>6, <2>2, <3>1
      <4>2. \A j \in DOMAIN stream' : OutcomeAt(j, b)' => j = i
        BY <1>1, <1>6, <3>1, <4>1
      <4>3. QED
        BY <1>1, <1>2, <1>3, <1>4, <3>1, <4>1, <4>2
    <3>2. CASE i # n
      <4>1. i \in DOMAIN stream /\ OutcomeAt(i, b)
        BY <1>6, <2>2, <3>2
      <4>2. /\ stage[b] = "reported" /\ b \notin heard /\ stream[i].what = decided[b]
            /\ \A j \in DOMAIN stream : OutcomeAt(j, b) => j = i
        BY <1>0, <4>1 DEF OutcomesTrue
      <4>3. b # a
        BY <1>1, <4>2
      <4>4. \A j \in DOMAIN stream' : OutcomeAt(j, b)' => j = i
        BY <1>6, <4>2, <4>3
      <4>5. QED
        BY <1>4, <2>1, <4>1, <4>2, <4>4
    <3>3. QED
      BY <3>1, <3>2
  <2>3. \A b \in Analyses : \A i \in DOMAIN stream' :
          OutcomeAt(i, b)' => /\ stage'[b] = "reported"
                              /\ b \notin heard'
                              /\ stream'[i].what = decided'[b]
                              /\ \A j \in DOMAIN stream' : OutcomeAt(j, b)' => j = i
    BY <1>2, <2>2 DEF appVars
  <2>4. QED
    BY <1>0, <1>2, <2>1, <2>3 DEF OutcomesTrue, scanVars, appVars
<1>14. StartBeforeOutcome'
  <2>1. ASSUME NEW t \in Scans, NEW b \in Analyses, NEW i \in DOMAIN stream', stream'[i] = Reply(t, "started", b)
        PROVE  b \notin heard /\ \A j \in DOMAIN stream' : OutcomeAt(j, b)' => i < j
    <3>1. i \in DOMAIN stream /\ stream[i] = Reply(t, "started", b)
      BY <1>7, <2>1 DEF Reply
    <3>2. b \notin heard /\ \A j \in DOMAIN stream : OutcomeAt(j, b) => i < j
      BY <1>0, <3>1 DEF StartBeforeOutcome
    <3>3. i < n
      BY <1>4, <3>1
    <3>4. QED
      BY <1>6, <3>2, <3>3
  <2>2. QED
    BY <1>2, <2>1 DEF StartBeforeOutcome, appVars
<1>15. Unwanted'
  <2>1. abandoned' = abandoned /\ abandoned \subseteq Analyses
    BY <1>0, <1>2 DEF TypeOK, AppTypes, appVars
  <2>2. QED
    BY <1>0, <1>8, <1>9, <2>1 DEF Unwanted
<1>16. Claimed'
  <2>1. \A b \in Analyses : stage'[b] \in {"running", "committed", "reported"} =>
                               stage[b] \in {"running", "committed", "reported"}
    BY <1>1, <1>2
  <2>2. QED
    BY <1>0, <1>2, <1>8, <1>9, <2>1 DEF Claimed, appVars, clientVars
<1>17. WantedAreKept' /\ RecordsAreClaimed'
  <2>1. UNCHANGED <<at, analysisOf, reply, heard, finished, channel, abandoned, decided>>
    BY <1>2 DEF scanVars, appVars, clientVars
  <2>2. WantedAreKept'
    BY <1>0, <2>1 DEF WantedAreKept, Received
  <2>3. RecordsAreClaimed'
    BY <1>0, <2>1 DEF RecordsAreClaimed, Claims
  <2>4. QED
    BY <2>2, <2>3
<1>18. Refusals'
  <2>1. \A i \in DOMAIN stream', t \in Scans : stream'[i].to = t => i \in DOMAIN stream /\ stream'[i] = stream[i]
    BY <1>7
  <2>2. UNCHANGED <<at, analysisOf, learned, result, answer, reply, decided, published>>
    BY <1>2 DEF scanVars, clientVars
  <2>3. \A t \in Scans : Evicted(t)' <=> Evicted(t)
    BY <2>2 DEF Evicted
  <2>4. QED
    BY <1>0, <2>1, <2>2, <2>3 DEF Refusals
<1>19. QED
  BY <1>5, <1>10, <1>11, <1>12, <1>13, <1>14, <1>15, <1>16, <1>17, <1>18 DEF Inductive

\* Reading a message moves the others one position forward, and shows none that was
\* not in transit before.
LEMMA DeliverStream ==
    ASSUME Inductive, Deliver
    PROVE  /\ 1 \in DOMAIN stream /\ stream[1] \in Replies \cup Outcomes /\ ~lost
           /\ \A i \in DOMAIN stream' : i + 1 \in DOMAIN stream /\ stream'[i] = stream[i + 1] /\ i \in Nat /\ i + 1 # 1
           /\ \A i \in DOMAIN stream : i \in Nat /\ (i # 1 => i - 1 \in DOMAIN stream' /\ stream'[i - 1] = stream[i])
           /\ UNCHANGED <<scanVars, call, lost, answer, stage, active, cancelled, decided, published, emit>>
           /\ IF stream[1].to = None
              THEN RecordOutcome(stream[1].analysis, stream[1].what) /\ UNCHANGED reply
              ELSE /\ reply' = IF Hangs(stream[1].to) THEN [reply EXCEPT ![stream[1].to] = stream[1]] ELSE reply
                   /\ UNCHANGED appVars
<1>1. TypeOK
  BY DEF Inductive
<1>2. stream # <<>> /\ stream' = Tail(stream) /\ ~lost
  BY DEF Deliver
<1>3. /\ Head(stream) = stream[1] /\ 1 \in DOMAIN stream
      /\ stream[1] \in Replies \cup Outcomes
      /\ \A i \in DOMAIN stream' : i + 1 \in DOMAIN stream /\ stream'[i] = stream[i + 1] /\ i \in Nat
      /\ \A i \in DOMAIN stream : i \in Nat /\ (i # 1 => i - 1 \in DOMAIN stream' /\ stream'[i - 1] = stream[i])
  BY <1>1, <1>2, HeadOfStream
<1>4. \A i \in DOMAIN stream' : i \in DOMAIN stream' => i + 1 # 1
  <2>1. stream \in Seq(Replies \cup Outcomes)
    BY <1>1 DEF TypeOK, EngineTypes
  <2>2. DOMAIN stream' = 1..Len(stream') /\ Len(stream') \in Nat
    BY <1>2, <2>1, HeadTailProperties, EmptySeq, LenProperties
  <2>3. QED
    BY <2>2
<1>5. QED
  BY <1>2, <1>3, <1>4 DEF Deliver

LEMMA DeliverReplyKeeps ==
    ASSUME Inductive, Deliver, stream[1].to # None
    PROVE  Inductive'
<1> USE ScanAssumption
<1>0. /\ TypeOK /\ Calls /\ Transit /\ Starts /\ Issued /\ OutcomesTrue /\ StartBeforeOutcome
      /\ Waiters /\ Unwanted /\ Claimed /\ WantedAreKept /\ Refusals /\ RecordsAreClaimed
  BY DEF Inductive
<1> DEFINE m == stream[1]
           s == m.to
<1>1. /\ 1 \in DOMAIN stream /\ m \in Replies \cup Outcomes /\ ~lost
      /\ \A i \in DOMAIN stream' : i + 1 \in DOMAIN stream /\ stream'[i] = stream[i + 1] /\ i \in Nat /\ i + 1 # 1
      /\ \A i \in DOMAIN stream : i \in Nat /\ (i # 1 => i - 1 \in DOMAIN stream' /\ stream'[i - 1] = stream[i])
      /\ UNCHANGED <<scanVars, appVars, call, lost, answer, stage, decided, published>>
      /\ reply' = IF Hangs(s) THEN [reply EXCEPT ![s] = m] ELSE reply
  BY DeliverStream
<1>2. s \in Scans /\ m \in Replies
  BY <1>1 DEF Replies, Outcomes
<1>3. /\ answer[s] = NoReply /\ reply[s] = NoReply
      /\ \A i \in DOMAIN stream : stream[i].to = s => i = 1
      /\ StartResponse(s, m)
  BY <1>0, <1>1, <1>2 DEF Transit, Starts
<1>4. /\ \A t \in Scans \ {s} : reply'[t] = reply[t]
      /\ reply'[s] \in {m, NoReply}
      /\ reply'[s] = m => call[s].op # "none"
      /\ reply'[s] # m => m.what # "started"
  <2>1. m.what = "started" => Hangs(s)
    BY <1>0, <1>2, <1>3 DEF StartResponse, Hangs, Calls
  <2>2. reply'[s] = m => Hangs(s)
    BY <1>1, <1>2, <1>3, NoReplyIsNone
  <2>3. QED
    BY <1>0, <1>1, <1>2, <1>3, <2>1, <2>2 DEF TypeOK, ClientTypes, Hangs
<1>5. TypeOK'
  BY <1>0, ClientStepTypes
<1> HIDE DEF m, s
<1>6. \A t \in Scans, b \in Analyses : m = Reply(t, "started", b) <=> t = s /\ m.what = "started" /\ m.analysis = b
  BY <1>2 DEF Reply, Replies, s
<1>7. /\ \A t \in Scans, b \in Analyses : Streamed(t, b)' => Streamed(t, b)
      /\ \A t \in Scans, b \in Analyses : Streamed(t, b) => Streamed(t, b)' \/ m = Reply(t, "started", b)
      /\ \A t \in Scans, b \in Analyses : Received(t, b)' <=> Received(t, b) \/ m = Reply(t, "started", b)
      /\ \A t \in Scans, b \in Analyses : m = Reply(t, "started", b) => Streamed(t, b)
  <2>1. ASSUME NEW t \in Scans, NEW b \in Analyses
        PROVE  /\ Streamed(t, b)' => Streamed(t, b)
               /\ Streamed(t, b) => Streamed(t, b)' \/ m = Reply(t, "started", b)
    <3>1. Streamed(t, b)' <=> \E i \in DOMAIN stream' : stream'[i] = Reply(t, "started", b)
      BY DEF Streamed
    <3>2. Streamed(t, b)' => Streamed(t, b)
      BY <1>1, <3>1 DEF Streamed
    <3>3. Streamed(t, b) => Streamed(t, b)' \/ m = Reply(t, "started", b)
      <4>1. ASSUME NEW i \in DOMAIN stream, stream[i] = Reply(t, "started", b), i # 1
            PROVE  i - 1 \in DOMAIN stream' /\ stream'[i - 1] = Reply(t, "started", b)
        BY <1>1, <4>1
      <4>2. QED
        BY <3>1, <4>1 DEF Streamed, m
    <3>4. QED
      BY <3>2, <3>3
  <2>2. \A t \in Scans, b \in Analyses : Received(t, b)' <=> Received(t, b) \/ m = Reply(t, "started", b)
    BY <1>3, <1>4, <1>6 DEF Received, NoReply, Reply
  <2>3. \A t \in Scans, b \in Analyses : m = Reply(t, "started", b) => Streamed(t, b)
    BY <1>1 DEF Streamed, m
  <2>4. QED
    BY <2>1, <2>2, <2>3
<1>8. \A t \in Scans, b \in Analyses : /\ Answered(t, b)' <=> Answered(t, b)
                                       /\ Awaits(t, b)' <=> Awaits(t, b)
  BY <1>1 DEF Answered, Awaits, scanVars
<1>9. \A t \in Scans, b \in Analyses : Named(t, b)' => Named(t, b)
  BY <1>1, <1>7, <1>8 DEF Named, scanVars
<1>10. \A i \in DOMAIN stream', b \in Analyses : OutcomeAt(i, b)' <=> OutcomeAt(i + 1, b)
  BY <1>1 DEF OutcomeAt
<1>11. Calls'
  BY <1>0, <1>1, <1>4 DEF Calls, scanVars
<1>12. Transit'
  <2>1. stream # <<>> /\ lost' = lost /\ answer' = answer
    BY <1>1
  <2>2. ASSUME NEW t \in Scans
        PROVE  /\ answer[t] # NoReply => answer[t].to = t /\ reply'[t] = NoReply
               /\ answer[t] # NoReply \/ reply'[t] # NoReply => \A i \in DOMAIN stream' : stream'[i].to # t
    <3>1. CASE t = s
      BY <1>1, <1>3, <1>4, <3>1
    <3>2. CASE t # s
      BY <1>0, <1>1, <1>4, <3>2 DEF Transit
    <3>3. QED
      BY <3>1, <3>2
  <2>3. \A t \in Scans : \A i, j \in DOMAIN stream' : stream'[i].to = t /\ stream'[j].to = t => i = j
    <3>1. ASSUME NEW t \in Scans, NEW i \in DOMAIN stream', NEW j \in DOMAIN stream',
                 stream'[i].to = t, stream'[j].to = t
          PROVE  i = j
      <4>1. i + 1 = j + 1
        BY <1>0, <1>1, <3>1 DEF Transit
      <4>2. QED
        BY <1>1, <4>1
    <3>2. QED
      BY <3>1
  <2>4. QED
    BY <1>1, <2>1, <2>2, <2>3 DEF Transit
<1>13. Starts'
  <2>1. ASSUME NEW t \in Scans
        PROVE  /\ StartResponse(t, answer[t]) /\ StartResponse(t, reply'[t])
               /\ \A i \in DOMAIN stream' : stream'[i].to = t => StartResponse(t, stream'[i])
    <3>1. /\ StartResponse(t, answer[t]) /\ StartResponse(t, reply[t])
          /\ \A i \in DOMAIN stream' : stream'[i].to = t => StartResponse(t, stream'[i])
      BY <1>0, <1>1 DEF Starts
    <3>2. StartResponse(t, reply'[t])
      BY <1>3, <1>4, <3>1
    <3>3. QED
      BY <3>1, <3>2
  <2>2. QED
    BY <1>1, <2>1 DEF Starts, StartResponse, scanVars
<1>14. Issued'
  BY <1>0, <1>1, <1>8, <1>9 DEF Issued, appVars
<1>15. OutcomesTrue'
  <2>1. ASSUME NEW b \in Analyses, NEW i \in DOMAIN stream', OutcomeAt(i, b)'
        PROVE  /\ stage[b] = "reported" /\ b \notin heard /\ stream'[i].what = decided[b]
               /\ \A j \in DOMAIN stream' : OutcomeAt(j, b)' => j = i
    <3>1. i + 1 \in DOMAIN stream /\ stream'[i] = stream[i + 1] /\ OutcomeAt(i + 1, b)
      BY <1>1, <1>10, <2>1
    <3>2. /\ stage[b] = "reported" /\ b \notin heard /\ stream'[i].what = decided[b]
          /\ \A j \in DOMAIN stream : OutcomeAt(j, b) => j = i + 1
      BY <1>0, <3>1 DEF OutcomesTrue
    <3>3. \A j \in DOMAIN stream' : OutcomeAt(j, b)' => j = i
      BY <1>1, <1>10, <3>2
    <3>4. QED
      BY <3>2, <3>3
  <2>2. \A b \in Analyses : \A i \in DOMAIN stream' :
          OutcomeAt(i, b)' => /\ stage'[b] = "reported"
                              /\ b \notin heard'
                              /\ stream'[i].what = decided'[b]
                              /\ \A j \in DOMAIN stream' : OutcomeAt(j, b)' => j = i
    BY <1>1, <2>1 DEF appVars
  <2>3. QED
    BY <1>0, <1>1, <2>2 DEF OutcomesTrue, scanVars, appVars
<1>16. StartBeforeOutcome'
  <2>1. ASSUME NEW t \in Scans, NEW b \in Analyses, NEW i \in DOMAIN stream', stream'[i] = Reply(t, "started", b)
        PROVE  b \notin heard /\ \A j \in DOMAIN stream' : OutcomeAt(j, b)' => i < j
    <3>1. b \notin heard /\ \A j \in DOMAIN stream : OutcomeAt(j, b) => i + 1 < j
      BY <1>0, <1>1, <2>1 DEF StartBeforeOutcome
    <3>2. QED
      BY <1>1, <1>10, <3>1
  <2>2. QED
    BY <1>1, <2>1 DEF StartBeforeOutcome, appVars
<1>17. Waiters'
  BY <1>0, <1>1 DEF Waiters, scanVars, appVars
<1>18. Unwanted'
  <2>1. abandoned' = abandoned /\ abandoned \subseteq Analyses
    BY <1>0, <1>1 DEF TypeOK, AppTypes, appVars
  <2>2. QED
    BY <1>0, <1>7, <1>8, <2>1 DEF Unwanted
<1>19. Claimed'
  BY <1>0, <1>1, <1>7, <1>8 DEF Claimed, appVars
<1>20. WantedAreKept'
  <2>1. ASSUME NEW t \in Scans, NEW b \in heard, Received(t, b)'
        PROVE  Received(t, b)
    <3>1. b \in Analyses
      BY <1>0 DEF TypeOK, AppTypes
    <3>2. m # Reply(t, "started", b)
      BY <1>0, <1>1, <3>1 DEF StartBeforeOutcome, m
    <3>3. QED
      BY <1>7, <2>1, <3>1, <3>2
  <2>2. UNCHANGED <<heard, finished, decided, at, analysisOf, channel>>
    BY <1>1 DEF scanVars, appVars
  <2>3. QED
    BY <1>0, <2>1, <2>2 DEF WantedAreKept
<1>21. Refusals'
  <2>1. ASSUME NEW t \in Scans
        PROVE  /\ reply'[t].what = "snapshotUnavailable" => Evicted(t)
               /\ \A i \in DOMAIN stream' :
                     stream'[i].to = t /\ stream'[i].what = "snapshotUnavailable" => Evicted(t)
    <3>1. m.to = t /\ m.what = "snapshotUnavailable" => Evicted(t)
      BY <1>0, <1>1 DEF Refusals, m
    <3>2. reply'[t].what = "snapshotUnavailable" => Evicted(t)
      BY <1>0, <1>4, <3>1 DEF Refusals, s, NoReply, Reply
    <3>3. QED
      BY <1>0, <1>1, <3>2 DEF Refusals
  <2>2. QED
    BY <1>0, <1>1, <2>1 DEF Refusals, Evicted, scanVars
<1>22. RecordsAreClaimed'
  <2>1. \A t \in Scans, b \in Analyses : Claims(t, b) => Claims(t, b)'
    BY <1>1, <1>3, <1>4 DEF Claims, scanVars, NoReply, Reply
  <2>2. QED
    BY <1>0, <1>1, <2>1 DEF RecordsAreClaimed, appVars
<1>23. QED
  BY <1>5, <1>11, <1>12, <1>13, <1>14, <1>15, <1>16, <1>17, <1>18, <1>19, <1>20, <1>21, <1>22 DEF Inductive

LEMMA DeliverOutcomeKeeps ==
    ASSUME Inductive, Deliver, stream[1].to = None
    PROVE  Inductive'
<1> USE ScanAssumption
<1>0. /\ TypeOK /\ Calls /\ Transit /\ Starts /\ Issued /\ OutcomesTrue /\ StartBeforeOutcome
      /\ Waiters /\ Unwanted /\ Claimed /\ WantedAreKept /\ Refusals /\ RecordsAreClaimed
  BY DEF Inductive
<1> DEFINE a == stream[1].analysis
           outcome == stream[1].what
<1>1. /\ 1 \in DOMAIN stream /\ stream[1] \in Replies \cup Outcomes /\ ~lost
      /\ \A i \in DOMAIN stream' : i + 1 \in DOMAIN stream /\ stream'[i] = stream[i + 1] /\ i \in Nat /\ i + 1 # 1
      /\ \A i \in DOMAIN stream : i \in Nat /\ (i # 1 => i - 1 \in DOMAIN stream' /\ stream'[i - 1] = stream[i])
      /\ UNCHANGED <<scanVars, call, reply, lost, answer, stage, decided, published>>
      /\ RecordOutcome(a, outcome)
  BY DeliverStream
<1>2. a \in Analyses /\ OutcomeAt(1, a)
  BY <1>1 DEF Replies, Outcomes, OutcomeAt
<1>3. /\ stage[a] = "reported" /\ a \notin heard /\ outcome = decided[a] /\ decided[a] # "none"
      /\ \A j \in DOMAIN stream : OutcomeAt(j, a) => j = 1
  <2>1. \A i \in DOMAIN stream :
          OutcomeAt(i, a) => /\ stage[a] = "reported"
                             /\ a \notin heard
                             /\ stream[i].what = decided[a]
                             /\ \A j \in DOMAIN stream : OutcomeAt(j, a) => j = i
    BY <1>0, <1>2 DEF OutcomesTrue
  <2>2. decided[a] # "none" <=> stage[a] \in {"committed", "reported"}
    BY <1>0, <1>2 DEF OutcomesTrue
  <2>3. QED
    BY <1>1, <1>2, <2>1, <2>2
<1> HIDE DEF a, outcome
<1>4. /\ \A t \in Scans, b \in Analyses : Streamed(t, b)' <=> Streamed(t, b)
      /\ \A t \in Scans : ~Streamed(t, a)
  <2>1. ASSUME NEW t \in Scans, NEW b \in Analyses
        PROVE  Streamed(t, b)' <=> Streamed(t, b)
    <3>1. Streamed(t, b)' <=> \E i \in DOMAIN stream' : stream'[i] = Reply(t, "started", b)
      BY DEF Streamed
    <3>2. stream[1] # Reply(t, "started", b)
      BY DEF Reply
    <3>3. ASSUME NEW i \in DOMAIN stream, stream[i] = Reply(t, "started", b)
          PROVE  i - 1 \in DOMAIN stream' /\ stream'[i - 1] = Reply(t, "started", b)
      BY <1>1, <3>2, <3>3
    <3>4. QED
      BY <1>1, <3>1, <3>3 DEF Streamed
  <2>2. ASSUME NEW t \in Scans, NEW i \in DOMAIN stream, stream[i] = Reply(t, "started", a)
        PROVE  FALSE
    <3>1. i < 1 /\ i \in Nat /\ i # 0
      <4>1. i < 1
        BY <1>0, <1>1, <1>2, <2>2 DEF StartBeforeOutcome
      <4>2. DOMAIN stream = 1..Len(stream) /\ Len(stream) \in Nat
        BY <1>0, LenProperties DEF TypeOK, EngineTypes
      <4>3. QED
        BY <4>1, <4>2
    <3>2. QED
      BY <3>1
  <2>3. QED
    BY <2>1, <2>2 DEF Streamed
<1>5. /\ heard' = heard \cup {a}
      /\ \A t \in Scans, b \in Analyses : /\ Awaits(t, b)' <=> Awaits(t, b)
                                          /\ Answered(t, b)' <=> Answered(t, b)
                                          /\ Received(t, b)' <=> Received(t, b)
                                          /\ Claims(t, b)' <=> Claims(t, b)
  <2>1. heard' = heard \cup {a}
    BY <1>1 DEF RecordOutcome
  <2>2. UNCHANGED <<at, analysisOf, answer, reply>>
    BY <1>1 DEF scanVars
  <2>3. QED
    BY <2>1, <2>2 DEF Awaits, Answered, Received, Claims
<1>6. \A t \in Scans, b \in Analyses : Named(t, b)' <=> Named(t, b)
  <2>1. analysisOf' = analysisOf
    BY <1>1 DEF scanVars
  <2>2. QED
    BY <1>4, <1>5, <2>1 DEF Named
\* What the three cases of recordOutcome leave behind.
<1>7. \/ /\ a \in abandoned /\ abandoned' = abandoned \ {a}
         /\ UNCHANGED <<waiters, channel, finished>>
      \/ /\ a \notin abandoned /\ waiters[a] # None
         /\ waiters'[a] = None /\ channel'[a] = decided[a]
         /\ \A b \in Analyses \ {a} : waiters'[b] = waiters[b] /\ channel'[b] = channel[b]
         /\ UNCHANGED <<finished, abandoned>>
      \/ /\ a \notin abandoned /\ waiters[a] = None
         /\ finished'[a] = decided[a]
         /\ \A b \in Analyses \ {a} : finished'[b] = finished[b]
         /\ UNCHANGED <<waiters, channel, abandoned>>
  BY <1>0, <1>1, <1>2, <1>3 DEF RecordOutcome, TypeOK, AppTypes
<1>8. /\ \A b \in Analyses : \/ finished'[b] = finished[b]
                             \/ b = a /\ finished'[b] = decided[a] /\ a \notin abandoned /\ waiters[a] = None
      /\ \A b \in Analyses : channel'[b] = channel[b] \/ (b = a /\ channel'[b] = decided[a])
      /\ \A b \in Analyses : waiters'[b] = waiters[b] \/ (b = a /\ waiters'[b] = None)
      /\ abandoned' = abandoned \ {a}
  <2>1. abandoned' = abandoned \ {a}
    BY <1>7
  <2>2. QED
    BY <1>2, <1>7, <2>1
<1>9. TypeOK'
  BY <1>0, ClientStepTypes
\* Who wants the outcome of a.
<1>10. /\ a \in abandoned => \A t \in Scans : ~Awaits(t, a) /\ ~Received(t, a)
       /\ a \notin abandoned => \E t \in Scans : Awaits(t, a) \/ Received(t, a)
       /\ \A t \in Scans : waiters[a] = t => at[t] = "waiting" /\ Awaits(t, a)
       /\ \A t \in Scans : Awaits(t, a) /\ at[t] = "waiting" => waiters[a] = t
       /\ \A t, u \in Scans : (Awaits(t, a) \/ Received(t, a)) /\ (Awaits(u, a) \/ Received(u, a)) => t = u
       /\ \A t \in Scans : Received(t, a) => at[t] = "starting" /\ Claims(t, a)
       /\ \A t \in Scans : Awaits(t, a) => at[t] = "waiting" \/ (at[t] = "accepted" /\ Claims(t, a))
       /\ waiters[a] # None => waiters[a] \in Scans
  <2>1. a \in abandoned => \A t \in Scans : ~Awaits(t, a) /\ ~Received(t, a)
    BY <1>0 DEF Unwanted
  <2>2. a \notin abandoned => \E t \in Scans : Awaits(t, a) \/ Received(t, a)
    BY <1>0, <1>1, <1>2, <1>3, <1>4 DEF Claimed
  <2>3. \A t \in Scans : waiters[a] = t => at[t] = "waiting" /\ Awaits(t, a)
    BY <1>0, <1>1, <1>2 DEF Waiters, Awaits
  <2>4. \A t \in Scans : Awaits(t, a) /\ at[t] = "waiting" => waiters[a] = t
    BY <1>0, <1>2, <1>3 DEF Waiters, Awaits
  <2>5. \A t \in Scans : Awaits(t, a) \/ Received(t, a) => Named(t, a)
    BY DEF Awaits, Named
  <2>6. \A t, u \in Scans : Named(t, a) /\ Named(u, a) => t = u
    BY <1>0, <1>2 DEF Issued
  <2>7. \A t \in Scans : Received(t, a) => at[t] = "starting" /\ Claims(t, a)
    BY <1>0 DEF Starts, StartResponse, Received, Claims
  <2>8. \A t \in Scans : Awaits(t, a) => at[t] = "waiting" \/ (at[t] = "accepted" /\ Claims(t, a))
    BY DEF Awaits, Claims
  <2>9. waiters[a] # None => waiters[a] \in Scans
    BY <1>0, <1>2 DEF TypeOK, AppTypes
  <2>10. QED
    BY <2>1, <2>2, <2>3, <2>4, <2>5, <2>6, <2>7, <2>8, <2>9
<1>11. Calls'
  BY <1>0, <1>1 DEF Calls, scanVars
<1>12. Transit'
  <2>1. \A t \in Scans : \A i, j \in DOMAIN stream' : stream'[i].to = t /\ stream'[j].to = t => i = j
    <3>1. ASSUME NEW t \in Scans, NEW i \in DOMAIN stream', NEW j \in DOMAIN stream',
                 stream'[i].to = t, stream'[j].to = t
          PROVE  i = j
      <4>1. i + 1 = j + 1
        BY <1>0, <1>1, <3>1 DEF Transit
      <4>2. QED
        BY <1>1, <4>1
    <3>2. QED
      BY <3>1
  <2>2. QED
    BY <1>0, <1>1, <2>1 DEF Transit
<1>13. Starts'
  BY <1>0, <1>1 DEF Starts, StartResponse, scanVars
<1>14. Issued'
  BY <1>0, <1>1, <1>5, <1>6, <1>8 DEF Issued
<1>15. \A i \in DOMAIN stream', b \in Analyses : OutcomeAt(i, b)' <=> OutcomeAt(i + 1, b)
  BY <1>1 DEF OutcomeAt
<1>16. OutcomesTrue'
  <2>1. ASSUME NEW b \in Analyses, NEW i \in DOMAIN stream', OutcomeAt(i, b)'
        PROVE  /\ stage[b] = "reported" /\ b \notin heard' /\ stream'[i].what = decided[b]
               /\ \A j \in DOMAIN stream' : OutcomeAt(j, b)' => j = i
    <3>1. i + 1 \in DOMAIN stream /\ stream'[i] = stream[i + 1] /\ OutcomeAt(i + 1, b)
      BY <1>1, <1>15, <2>1
    <3>2. /\ stage[b] = "reported" /\ b \notin heard /\ stream'[i].what = decided[b]
          /\ \A j \in DOMAIN stream : OutcomeAt(j, b) => j = i + 1
      BY <1>0, <3>1 DEF OutcomesTrue
    <3>3. b # a
      BY <1>1, <1>2, <3>2
    <3>4. \A j \in DOMAIN stream' : OutcomeAt(j, b)' => j = i
      BY <1>1, <1>15, <3>2
    <3>5. QED
      BY <1>5, <3>2, <3>3, <3>4
  <2>2. \A b \in Analyses : \A i \in DOMAIN stream' :
          OutcomeAt(i, b)' => /\ stage'[b] = "reported"
                              /\ b \notin heard'
                              /\ stream'[i].what = decided'[b]
                              /\ \A j \in DOMAIN stream' : OutcomeAt(j, b)' => j = i
    BY <1>1, <2>1
  <2>3. \A b \in Analyses :
          /\ decided'[b] # "none" <=> stage'[b] \in {"committed", "reported"}
          /\ b \in heard' => stage'[b] = "reported"
          /\ finished'[b] # "none" => b \in heard' /\ finished'[b] = decided'[b]
          /\ channel'[b] # "none" => b \in heard' /\ channel'[b] = decided'[b]
    BY <1>0, <1>1, <1>3, <1>5, <1>8 DEF OutcomesTrue
  <2>4. QED
    BY <1>0, <1>1, <2>2, <2>3 DEF OutcomesTrue, scanVars
<1>17. StartBeforeOutcome'
  <2>1. ASSUME NEW t \in Scans, NEW b \in Analyses, NEW i \in DOMAIN stream', stream'[i] = Reply(t, "started", b)
        PROVE  b \notin heard' /\ \A j \in DOMAIN stream' : OutcomeAt(j, b)' => i < j
    <3>1. b \notin heard /\ \A j \in DOMAIN stream : OutcomeAt(j, b) => i + 1 < j
      BY <1>0, <1>1, <2>1 DEF StartBeforeOutcome
    <3>2. b # a
      BY <1>1, <1>4, <2>1 DEF Streamed
    <3>3. QED
      BY <1>1, <1>5, <1>15, <3>1, <3>2
  <2>2. QED
    BY <2>1 DEF StartBeforeOutcome
<1>18. Waiters'
  <2>1. ASSUME NEW b \in Analyses, NEW t \in Scans
        PROVE  /\ waiters'[b] = t => at[t] = "waiting" /\ analysisOf[t] = b
               /\ at[t] = "waiting" /\ analysisOf[t] = b /\ b \notin heard' => waiters'[b] = t
               /\ b \in heard' => waiters'[b] # t
    <3>1. /\ waiters[b] = t => at[t] = "waiting" /\ analysisOf[t] = b
          /\ at[t] = "waiting" /\ analysisOf[t] = b /\ b \notin heard => waiters[b] = t
          /\ b \in heard => waiters[b] # t
      BY <1>0, <1>1 DEF Waiters
    <3>2. CASE b = a
      <4>1. waiters'[a] # t
        BY <1>7, <1>10
      <4>2. QED
        BY <1>5, <3>2, <4>1
    <3>3. CASE b # a
      BY <1>5, <1>8, <3>1, <3>3
    <3>4. QED
      BY <3>2, <3>3
  <2>2. QED
    BY <1>1, <2>1 DEF Waiters, scanVars
<1>19. Unwanted'
  <2>1. abandoned' \subseteq abandoned /\ abandoned \subseteq Analyses
    BY <1>0, <1>8 DEF TypeOK, AppTypes
  <2>2. QED
    BY <1>0, <1>4, <1>5, <2>1 DEF Unwanted
<1>20. Claimed'
  BY <1>0, <1>1, <1>4, <1>5, <1>8 DEF Claimed
<1>21. WantedAreKept'
  <2>1. ASSUME NEW t \in Scans, NEW b \in heard'
        PROVE  /\ Received(t, b) => finished'[b] = decided[b]
               /\ at[t] = "accepted" /\ analysisOf[t] = b => finished'[b] = decided[b]
               /\ at[t] = "waiting" /\ analysisOf[t] = b => channel'[b] = decided[b]
    <3>1. b \in Analyses
      BY <1>2, <1>0, <1>5 DEF TypeOK, AppTypes
    <3>2. CASE b = a
      <4>1. Received(t, a) \/ Awaits(t, a) => a \notin abandoned
        BY <1>10
      <4>2. (Received(t, a) \/ Awaits(t, a)) /\ at[t] # "waiting" => waiters[a] = None
        BY <1>10
      <4>3. Received(t, a) => at[t] # "waiting"
        BY <1>10
      <4>4. Awaits(t, a) /\ at[t] = "waiting" => waiters[a] # None
        BY <1>10
      <4>5. Awaits(t, a) <=> at[t] \in {"accepted", "waiting"} /\ analysisOf[t] = a
        BY DEF Awaits
      <4>6. QED
        BY <1>7, <3>2, <4>1, <4>2, <4>3, <4>4, <4>5
    <3>3. CASE b # a
      <4>1. b \in heard /\ finished'[b] = finished[b] /\ channel'[b] = channel[b]
        BY <1>5, <1>8, <3>1, <3>3
      <4>2. QED
        BY <1>0, <4>1 DEF WantedAreKept
    <3>4. QED
      BY <3>2, <3>3
  <2>2. QED
    BY <1>1, <2>1 DEF WantedAreKept, Received, scanVars
<1>22. Refusals'
  BY <1>0, <1>1 DEF Refusals, Evicted, scanVars
<1>23. RecordsAreClaimed'
  <2>1. ASSUME NEW b \in Analyses, finished'[b] # "none"
        PROVE  \E t \in Scans : Claims(t, b)'
    <3>1. CASE finished'[b] = finished[b]
      BY <1>0, <1>5, <2>1, <3>1 DEF RecordsAreClaimed
    <3>2. CASE finished'[b] # finished[b]
      <4>1. b = a /\ a \notin abandoned /\ waiters[a] = None
        BY <1>8, <3>2
      <4>2. \E t \in Scans : Claims(t, a)
        BY <1>10, <4>1
      <4>3. QED
        BY <1>2, <1>5, <4>1, <4>2
    <3>3. QED
      BY <3>1, <3>2
  <2>2. ASSUME NEW b \in abandoned' \cap heard'
        PROVE  channel'[b] # "none"
    <3>1. b \in abandoned \cap heard /\ b # a /\ b \in Analyses
      BY <1>0, <1>5, <1>8 DEF TypeOK, AppTypes
    <3>2. QED
      BY <1>0, <1>8, <3>1 DEF RecordsAreClaimed
  <2>3. QED
    BY <2>1, <2>2 DEF RecordsAreClaimed
<1>24. QED
  BY <1>9, <1>11, <1>12, <1>13, <1>14, <1>16, <1>17, <1>18, <1>19, <1>20, <1>21, <1>22, <1>23 DEF Inductive

-----------------------------------------------------------------------------
(* The invariant, and what follows from it.                                *)

LEMMA InitInductive == Init => Inductive
<1> SUFFICES ASSUME Init
             PROVE  Inductive
  OBVIOUS
<1> USE ScanAssumption
<1>1. TypeOK
  <2>1. NoCall \in [op : {"none", "start", "cancel", "page"}, analysis : Analyses \cup {None}]
    BY DEF NoCall
  <2>2. ScanTypes
    BY DEF Init, ScanTypes, Ends
  <2>3. AppTypes
    BY DEF Init, AppTypes
  <2>4. ClientTypes
    BY <2>1 DEF Init, ClientTypes
  <2>5. EngineTypes
    BY DEF Init, EngineTypes
  <2>6. QED
    BY <2>2, <2>3, <2>4, <2>5 DEF TypeOK
<1>2. Calls /\ Transit
  BY DEF Init, Calls, Transit, NoCall
<1>3. Starts
  BY DEF Init, Starts, StartResponse, NoReply, Reply
<1>4. Issued
  BY DEF Init, Issued, Named, Answered, Streamed, Received, NoReply, Reply
<1>5. OutcomesTrue /\ StartBeforeOutcome
  BY DEF Init, OutcomesTrue, OutcomeAt, StartBeforeOutcome
<1>6. Waiters /\ Unwanted /\ Claimed /\ WantedAreKept
  BY DEF Init, Waiters, Unwanted, Claimed, WantedAreKept
<1>7. Refusals
  BY DEF Init, Refusals, Evicted, NoReply, Reply
<1>8. RecordsAreClaimed
  BY DEF Init, RecordsAreClaimed
<1>9. QED
  BY <1>1, <1>2, <1>3, <1>4, <1>5, <1>6, <1>7, <1>8 DEF Inductive

LEMMA StutterKeeps ==
    ASSUME Inductive, UNCHANGED vars
    PROVE  Inductive'
<1>0. /\ TypeOK /\ Calls /\ Transit /\ Starts /\ Issued /\ OutcomesTrue /\ StartBeforeOutcome
      /\ Waiters /\ Unwanted /\ Claimed /\ WantedAreKept /\ Refusals /\ RecordsAreClaimed
  BY DEF Inductive
<1>1. UNCHANGED <<scanVars, appVars, clientVars, engineVars>>
  BY DEF vars
<1>2. TypeOK'
  BY <1>0, <1>1 DEF TypeOK, ScanTypes, AppTypes, ClientTypes, EngineTypes, scanVars, appVars, clientVars, engineVars
<1>3. Calls' /\ Transit' /\ Starts'
  BY <1>0, <1>1 DEF Calls, Transit, Starts, StartResponse, scanVars, clientVars, engineVars
<1>4. Issued'
  BY <1>0, <1>1 DEF Issued, Named, Answered, Streamed, Received, scanVars, appVars, clientVars, engineVars
<1>5. OutcomesTrue' /\ StartBeforeOutcome'
  BY <1>0, <1>1 DEF OutcomesTrue, OutcomeAt, StartBeforeOutcome, scanVars, appVars, engineVars
<1>6. Waiters' /\ Unwanted'
  BY <1>0, <1>1 DEF Waiters, Unwanted, Awaits, Answered, Streamed, Received, scanVars, appVars, clientVars, engineVars
<1>7. Claimed' /\ WantedAreKept'
  BY <1>0, <1>1 DEF Claimed, WantedAreKept, Awaits, Streamed, Received, scanVars, appVars, clientVars, engineVars
<1>8. Refusals' /\ RecordsAreClaimed'
  BY <1>0, <1>1 DEF Refusals, Evicted, RecordsAreClaimed, Claims, scanVars, appVars, clientVars, engineVars
<1>9. QED
  BY <1>2, <1>3, <1>4, <1>5, <1>6, <1>7, <1>8 DEF Inductive

\* Every step keeps the invariant.
LEMMA NextInductive == Inductive /\ [Next]_vars => Inductive'
<1> SUFFICES ASSUME Inductive, [Next]_vars
             PROVE  Inductive'
  OBVIOUS
<1>1. ASSUME NEW s \in Scans, Start(s)
      PROVE  Inductive'
  BY <1>1, StartKeeps
<1>2. ASSUME NEW s \in Scans, Scan(s)
      PROVE  Inductive'
  BY <1>2, StartReturnsKeeps, AwaitKeeps, AwaitOutcomeKeeps, AwaitClosedKeeps, AwaitGoneKeeps,
     CancelReturnsKeeps, AskPageKeeps, PageReturnsKeeps DEF Scan
<1>3. ASSUME NEW s \in Scans, GoAway(s)
      PROVE  Inductive'
  BY <1>3, GoAwayKeeps
<1>4. ASSUME Deliver
      PROVE  Inductive'
  BY <1>4, DeliverReplyKeeps, DeliverOutcomeKeeps
<1>5. ASSUME Disconnect
      PROVE  Inductive'
  BY <1>5, DisconnectKeeps
<1>6. ASSUME NEW s \in Scans, EngineStarts(s) \/ EngineCancels(s) \/ EngineServesPage(s) \/ EngineResponds(s)
      PROVE  Inductive'
  BY <1>6, EngineStartsKeeps, EngineCancelsKeeps, EngineServesPageKeeps, EngineRespondsKeeps
<1>7. ASSUME NEW a \in Analyses, Commits(a) \/ EngineReports(a)
      PROVE  Inductive'
  BY <1>7, CommitsKeeps, EngineReportsKeeps
<1>8. ASSUME UNCHANGED vars
      PROVE  Inductive'
  BY <1>8, StutterKeeps
<1>9. QED
  BY <1>1, <1>2, <1>3, <1>4, <1>5, <1>6, <1>7, <1>8 DEF Next, Terminated

\* Every reachable state satisfies the invariant.
THEOREM ScanInvariant == Spec => []Inductive
BY InitInductive, NextInductive, PTL DEF Spec

\* Every variable keeps its type, whatever the number of scans and pages.
THEOREM ScanTypeCorrect == Spec => []TypeOK
<1>1. Inductive => TypeOK
  BY DEF Inductive
<1>2. QED
  BY <1>1, ScanInvariant, PTL

\* A scan learns the outcome of its own analysis (awaitAnalysis, recordOutcome),
\* however its steps and the read loop's interleave with those of other scans.
THEOREM OutcomesAreOwn == Spec => []OwnOutcome
<1>1. Inductive => OwnOutcome
  BY DEF Inductive, OutcomesTrue, OwnOutcome
<1>2. QED
  BY <1>1, ScanInvariant, PTL

\* No outcome is lost between a start response and the wait for it: recordOutcome
\* leaves it where awaitAnalysis will look.
THEOREM NoOutcomeIsLost == Spec => []NoOutcomeLost
<1>1. Inductive => NoOutcomeLost
  BY DEF Inductive, WantedAreKept, NoOutcomeLost
<1>2. QED
  BY <1>1, ScanInvariant, PTL

\* App.finished holds only outcomes a scan is about to take, and App.abandoned only
\* analyses without an outcome, but for a request that ends just when its outcome is
\* in its channel.
THEOREM RecordsClaimed == Spec => []RecordsAreClaimed
<1>1. Inductive => RecordsAreClaimed
  BY DEF Inductive
<1>2. QED
  BY <1>1, ScanInvariant, PTL

\* A report is refused with snapshotUnavailable only after two later publications of
\* its view (retainedSnapshotsPerView).
THEOREM UnavailableAfterTwo == Spec => []UnavailableNeedsTwoPublications
<1>1. Inductive => UnavailableNeedsTwoPublications
  BY DEF Inductive, Refusals, Evicted, UnavailableNeedsTwoPublications
<1>2. QED
  BY <1>1, ScanInvariant, PTL
=============================================================================
