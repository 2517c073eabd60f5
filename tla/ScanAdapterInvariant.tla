------------------------ MODULE ScanAdapterInvariant ------------------------
(***************************************************************************)
(* The inductive invariant behind the safety properties of ScanAdapter, in *)
(* named parts: the calls of a scan, what is in transit to it, to whom an  *)
(* analysis was issued, what is known of its outcome, and who claims it.   *)
(***************************************************************************)
EXTENDS ScanAdapter

\* A start response that names analysis a: computed, written, received.
Answered(s, a) == answer[s].what = "started" /\ answer[s].analysis = a
Streamed(s, a) == \E i \in DOMAIN stream : stream[i] = Reply(s, "started", a)
Received(s, a) == reply[s].what = "started" /\ reply[s].analysis = a

\* Scan s was, or is about to be, told that a is its analysis.
Named(s, a) == analysisOf[s] = a \/ Answered(s, a) \/ Streamed(s, a) \/ Received(s, a)

\* Scan s still wants the outcome of a.
Awaits(s, a) == at[s] \in {"accepted", "waiting"} /\ analysisOf[s] = a

\* Position i of the stream is the outcome of a.
OutcomeAt(i, a) == stream[i].to = None /\ stream[i].analysis = a

\* A scan has the call outstanding that it is waiting for, and its analysis since it
\* was accepted.
Calls ==
    \A s \in Scans :
        /\ call[s].op = "start" <=> at[s] = "starting"
        /\ call[s].op = "cancel" => at[s] = "cancelling"
        /\ call[s].op = "page" => at[s] = "reporting"
        /\ at[s] = "starting" => analysisOf[s] = None
        /\ call[s].op \in {"cancel", "page"} => call[s].analysis = analysisOf[s]
        /\ at[s] \in {"accepted", "waiting", "cancelling", "reporting"} => analysisOf[s] \in Analyses
        /\ reply[s] # NoReply => call[s].op # "none"
        /\ at[s] # "done" => result[s] = "none"

\* At most one response to a scan is in transit, and none once the stream has ended.
Transit ==
    /\ lost => stream = <<>>
    /\ \A s \in Scans :
          /\ lost => answer[s] = NoReply
          /\ answer[s] # NoReply => answer[s].to = s /\ reply[s] = NoReply
          /\ answer[s] # NoReply \/ reply[s] # NoReply => \A i \in DOMAIN stream : stream[i].to # s
          /\ \A i, j \in DOMAIN stream : stream[i].to = s /\ stream[j].to = s => i = j

\* Only a scan that is starting is sent a start response; an accepted one names an
\* analysis, a refused one does not.
StartResponse(s, m) ==
    /\ m.what = "started" => at[s] = "starting" /\ m.analysis \in Analyses
    /\ m.what = "alreadyRunning" => m.analysis = None

Starts ==
    \A s \in Scans :
        /\ StartResponse(s, answer[s])
        /\ StartResponse(s, reply[s])
        /\ \A i \in DOMAIN stream : stream[i].to = s => StartResponse(s, stream[i])

\* An analysis is issued to one scan, and runs after its start response was written.
Issued ==
    /\ \A a \in Analyses : \A s, t \in Scans : Named(s, a) /\ Named(t, a) => s = t
    /\ \A a \in Analyses : \A s \in Scans :
          /\ Named(s, a) => stage[a] # "unissued"
          /\ Answered(s, a) => stage[a] = "registered"
    /\ \A a \in abandoned : stage[a] # "unissued"

\* Everything that is told of the outcome of an analysis is what commit decided, and is
\* told once.
OutcomesTrue ==
    /\ \A a \in Analyses :
          /\ decided[a] # "none" <=> stage[a] \in {"committed", "reported"}
          /\ a \in heard => stage[a] = "reported"
          /\ finished[a] # "none" => a \in heard /\ finished[a] = decided[a]
          /\ channel[a] # "none" => a \in heard /\ channel[a] = decided[a]
    /\ \A a \in Analyses : \A i \in DOMAIN stream :
          OutcomeAt(i, a) => /\ stage[a] = "reported"
                             /\ a \notin heard
                             /\ stream[i].what = decided[a]
                             /\ \A j \in DOMAIN stream : OutcomeAt(j, a) => j = i
    /\ \A s \in Scans : learned[s] # "none" =>
          analysisOf[s] \in Analyses /\ learned[s] = decided[analysisOf[s]]

\* The start response of an analysis is read before its outcome.
StartBeforeOutcome ==
    \A s \in Scans : \A a \in Analyses : \A i \in DOMAIN stream :
        stream[i] = Reply(s, "started", a) =>
            /\ a \notin heard
            /\ \A j \in DOMAIN stream : OutcomeAt(j, a) => i < j

\* The waiter of an analysis is the scan that waits for it, until the outcome is heard.
Waiters ==
    \A a \in Analyses : \A s \in Scans :
        /\ waiters[a] = s /\ ~lost => at[s] = "waiting" /\ analysisOf[s] = a
        /\ at[s] = "waiting" /\ analysisOf[s] = a /\ a \notin heard => waiters[a] = s
        /\ a \in heard => waiters[a] # s

\* Nobody wants the outcome of an abandoned analysis any more.
Unwanted ==
    \A a \in abandoned : \A s \in Scans :
        ~Awaits(s, a) /\ ~Answered(s, a) /\ ~Streamed(s, a) /\ ~Received(s, a)

\* As long as the engine is there, an outcome still to be heard is wanted or abandoned.
Claimed ==
    \A a \in Analyses :
        ~lost /\ stage[a] \in {"running", "committed", "reported"} /\ a \notin heard \cup abandoned
            => \E s \in Scans : Awaits(s, a) \/ Streamed(s, a) \/ Received(s, a)

\* An outcome that was heard is where the scan that wants it will look.
WantedAreKept ==
    \A s \in Scans : \A a \in heard :
        /\ Received(s, a) => finished[a] = decided[a]
        /\ at[s] = "accepted" /\ analysisOf[s] = a => finished[a] = decided[a]
        /\ at[s] = "waiting" /\ analysisOf[s] = a => channel[a] = decided[a]

\* Two analyses published after the one of scan s.
Evicted(s) ==
    \E i, j, k \in DOMAIN published : i < j /\ j < k /\ published[i] = analysisOf[s]

\* A page is refused, and reported as refused, only for an evicted snapshot.
Refusals ==
    /\ \A a \in Analyses : decided[a] = "published" => \E i \in DOMAIN published : published[i] = a
    /\ \A s \in Scans :
          /\ at[s] = "reporting" => learned[s] = "published"
          /\ result[s] = "unavailable" => Evicted(s)
          /\ answer[s].what = "snapshotUnavailable" => Evicted(s)
          /\ reply[s].what = "snapshotUnavailable" => Evicted(s)
          /\ \A i \in DOMAIN stream :
                stream[i].to = s /\ stream[i].what = "snapshotUnavailable" => Evicted(s)

Inductive ==
    /\ TypeOK
    /\ Calls
    /\ Transit
    /\ Starts
    /\ Issued
    /\ OutcomesTrue
    /\ StartBeforeOutcome
    /\ Waiters
    /\ Unwanted
    /\ Claimed
    /\ WantedAreKept
    /\ Refusals
    /\ RecordsAreClaimed
============================================================================
