--------------------------- MODULE ProtocolClient ---------------------------
(***************************************************************************)
(* The Go client of the engine protocol (internal/protocol/client.go):     *)
(* concurrent calls that share one connection, the read loop that hands    *)
(* each response to its call and runs the notification handlers, and the   *)
(* end of the stream.                                                      *)
(*                                                                         *)
(* The peer is an engine: it reads one request at a time, answers in any   *)
(* order or never, sends notifications in between, and may end either      *)
(* direction of the connection at any moment.  A write is a rendezvous: it *)
(* holds FrameWriter.mu until the peer reads the frame, as on an io.Pipe   *)
(* or a full operating-system pipe.                                        *)
(***************************************************************************)
EXTENDS Naturals, Sequences, FiniteSets

CONSTANTS
    Calls,     \* the goroutines, each with one Call to make
    Notices,   \* bound: notifications the engine sends
    Capacity,  \* bound: messages in transit towards the client
    None

ASSUME ClientAssumption ==
    /\ None \notin Calls
    /\ Notices \in Nat
    /\ Capacity \in Nat \ {0}

VARIABLES
    at,        \* where each call is
    id,        \* the identifier register issued to it
    nextID,    \* Client.nextID
    pending,   \* the calls whose channel is in Client.pending
    channel,   \* what was sent on a call's channel and not yet received
    released,  \* calls whose channel was closed by finish
    expired,   \* calls whose context has ended
    result,    \* how a call returned
    got,       \* the response a call returned with
    writer,    \* the call holding FrameWriter.mu
    reading,   \* the read loop: reading, delivering, ended
    inHand,    \* the response being delivered and the calls it is for (one at most)
    handling,  \* notifications whose handlers are running
    handled,   \* notifications whose handlers have run, in that order
    done,      \* Client.done is closed
    readErr,   \* Client.readErr: what Err tells and ErrClientClosed wraps
    received,  \* requests the engine has read
    answered,  \* requests the engine has answered
    noticed,   \* notifications the engine has sent
    stream,    \* messages on their way to the client
    ended,     \* the engine ended its output
    hungUp     \* the client's outbound stream is closed

callVars   == <<at, id, nextID, pending, channel, released, expired, result, got, writer>>
loopVars   == <<reading, inHand, handling, handled, done, readErr>>
engineVars == <<received, answered, noticed, stream, ended, hungUp>>
vars == <<callVars, loopVars, engineVars>>

-----------------------------------------------------------------------------

\* The response to call c carries the number of notifications sent before it.
Response(c) == [kind |-> "response", id |-> id[c], to |-> c, notices |-> noticed]

\* An engine answers a frame it cannot parse with a null identifier, here 0.
Unaddressed == [kind |-> "response", id |-> 0, to |-> None, notices |-> noticed]

Notification == [kind |-> "notification", id |-> 0, to |-> None, notices |-> noticed + 1]

\* A message json.Unmarshal refuses is skipped.
Malformed == [kind |-> "malformed", id |-> 0, to |-> None, notices |-> noticed]

\* A frame FrameReader.Read refuses: its headers are invalid, or it is a response above
\* MaxFrameBytes, which the engine's FrameWriter lets pass.
Refused == [kind |-> "refused", id |-> 0, to |-> None, notices |-> noticed]
Oversized(c) == [Response(c) EXCEPT !.kind = "refused"]

\* The beginning of a frame, of an engine that died while writing it.
Torn == [kind |-> "torn", id |-> 0, to |-> None, notices |-> noticed]

\* The entry of Client.pending under identifier n, if there is one.
Pending(n) == {c \in pending : id[c] = n}

Init ==
    /\ at = [c \in Calls |-> "idle"]
    /\ id = [c \in Calls |-> 0]
    /\ nextID = 0
    /\ pending = {}
    /\ channel = [c \in Calls |-> <<>>]
    /\ released = {}
    /\ expired = {}
    /\ result = [c \in Calls |-> "none"]
    /\ got = [c \in Calls |-> None]
    /\ writer = None
    /\ reading = "reading"
    /\ inHand = None
    /\ handling = <<>>
    /\ handled = <<>>
    /\ done = FALSE
    /\ readErr = "none"
    /\ received = {}
    /\ answered = {}
    /\ noticed = 0
    /\ stream = <<>>
    /\ ended = FALSE
    /\ hungUp = FALSE

-----------------------------------------------------------------------------
(* Call.                                                                   *)

\* Mutants of Register: the identifier is not fresh, or the end of the stream is
\* looked at before the lock is taken.
Register_SameID(c) ==
    /\ at[c] = "idle"
    /\ IF done
       THEN /\ at' = [at EXCEPT ![c] = "returned"]
            /\ result' = [result EXCEPT ![c] = "closed"]
            /\ UNCHANGED <<id, pending>>
       ELSE /\ id' = [id EXCEPT ![c] = 1]
            /\ pending' = (pending \ Pending(1)) \cup {c}
            /\ at' = [at EXCEPT ![c] = "registered"]
            /\ UNCHANGED result
    /\ UNCHANGED <<nextID, channel, released, expired, got, writer, loopVars, engineVars>>

Register_StaleCheck(c) ==
    /\ at[c] = "idle"
    /\ nextID' = nextID + 1
    /\ id' = [id EXCEPT ![c] = nextID + 1]
    /\ pending' = (pending \ Pending(nextID + 1)) \cup {c}
    /\ at' = [at EXCEPT ![c] = "registered"]
    /\ UNCHANGED <<result, channel, released, expired, got, writer, loopVars, engineVars>>

\* register: refused once the stream has ended, otherwise a channel of capacity one
\* under a fresh identifier (a map entry replaces one of the same identifier).
Register(c) ==
    /\ at[c] = "idle"
    /\ IF done
       THEN /\ at' = [at EXCEPT ![c] = "returned"]
            /\ result' = [result EXCEPT ![c] = "closed"]
            /\ UNCHANGED <<id, nextID, pending>>
       ELSE /\ nextID' = nextID + 1
            /\ id' = [id EXCEPT ![c] = nextID + 1]
            /\ pending' = (pending \ Pending(nextID + 1)) \cup {c}
            /\ at' = [at EXCEPT ![c] = "registered"]
            /\ UNCHANGED result
    /\ UNCHANGED <<channel, released, expired, got, writer, loopVars, engineVars>>

\* FrameWriter.Write: lock, then write.
BeginWrite(c) ==
    /\ at[c] = "registered"
    /\ writer = None
    /\ writer' = c
    /\ at' = [at EXCEPT ![c] = "writing"]
    /\ UNCHANGED <<id, nextID, pending, channel, released, expired, result, got,
                   loopVars, engineVars>>

\* The call is about to run its deferred unregister with this result.
Leave(c, how) ==
    /\ at' = [at EXCEPT ![c] = "leaving"]
    /\ result' = [result EXCEPT ![c] = how]

SendFails(c) ==
    /\ at[c] = "writing"
    /\ hungUp
    /\ writer' = None
    /\ Leave(c, "sendFailed")
    /\ UNCHANGED <<id, nextID, pending, channel, released, expired, got, loopVars, engineVars>>

\* The three ways out of the select.
ReceiveAnswer(c) ==
    /\ at[c] = "waiting"
    /\ channel[c] # <<>>
    /\ got' = [got EXCEPT ![c] = Head(channel[c])]
    /\ channel' = [channel EXCEPT ![c] = Tail(@)]
    /\ Leave(c, "answered")
    /\ UNCHANGED <<id, nextID, pending, released, expired, writer, loopVars, engineVars>>

ReceiveClosed(c) ==
    /\ at[c] = "waiting"
    /\ channel[c] = <<>>
    /\ c \in released
    /\ Leave(c, "closed")
    /\ UNCHANGED <<id, nextID, pending, channel, released, expired, got, writer,
                   loopVars, engineVars>>

\* Mutant of GiveUp: the context is looked at only once the connection is gone.
GiveUp_WhenDone(c) ==
    /\ at[c] = "waiting"
    /\ c \in expired
    /\ done
    /\ Leave(c, "cancelled")
    /\ UNCHANGED <<id, nextID, pending, channel, released, expired, got, writer,
                   loopVars, engineVars>>

GiveUp(c) ==
    /\ at[c] = "waiting"
    /\ c \in expired
    /\ Leave(c, "cancelled")
    /\ UNCHANGED <<id, nextID, pending, channel, released, expired, got, writer,
                   loopVars, engineVars>>

\* Mutant of Unregister: the identifier is the last one issued, not the call's own.
Unregister_Latest(c) ==
    /\ at[c] = "leaving"
    /\ pending' = pending \ Pending(nextID)
    /\ at' = [at EXCEPT ![c] = "returned"]
    /\ UNCHANGED <<id, nextID, channel, released, expired, result, got, writer,
                   loopVars, engineVars>>

Unregister(c) ==
    /\ at[c] = "leaving"
    /\ pending' = pending \ Pending(id[c])
    /\ at' = [at EXCEPT ![c] = "returned"]
    /\ UNCHANGED <<id, nextID, channel, released, expired, result, got, writer,
                   loopVars, engineVars>>

Caller(c) ==
    \/ Register(c)
    \/ BeginWrite(c)
    \/ SendFails(c)
    \/ ReceiveAnswer(c)
    \/ ReceiveClosed(c)
    \/ GiveUp(c)
    \/ Unregister(c)

\* The caller's context ends.
Expire(c) ==
    /\ c \notin expired
    /\ at[c] # "returned"
    /\ expired' = expired \cup {c}
    /\ UNCHANGED <<at, id, nextID, pending, channel, released, result, got, writer,
                   loopVars, engineVars>>

\* Client.Close, or the engine gives up its input; writes fail from then on.
Close ==
    /\ ~hungUp
    /\ hungUp' = TRUE
    /\ UNCHANGED <<callVars, loopVars, received, answered, noticed, stream, ended>>

-----------------------------------------------------------------------------
(* The read loop.                                                          *)

\* FrameReader.Read returns an error.
Unreadable(message) == message.kind \in {"refused", "torn"}

\* Mutant of ReadMessage: handlers run in goroutines of their own.
ReadMessage_ConcurrentHandlers ==
    /\ reading = "reading"
    /\ stream # <<>> /\ ~Unreadable(Head(stream))
    /\ stream' = Tail(stream)
    /\ LET message == Head(stream)
       IN  CASE message.kind = "response" ->
                  /\ reading' = "delivering"
                  /\ inHand' = [message |-> message, for |-> Pending(message.id)]
                  /\ pending' = pending \ Pending(message.id)
                  /\ UNCHANGED handling
             [] message.kind = "notification" ->
                  /\ handling' = Append(handling, message.notices)
                  /\ UNCHANGED <<reading, inHand, pending>>
             [] OTHER -> UNCHANGED <<reading, inHand, handling, pending>>
    /\ UNCHANGED <<at, id, nextID, channel, released, expired, result, got, writer,
                   handled, done, readErr, received, answered, noticed, ended, hungUp>>

\* Read a frame; deliver takes the call's channel out of pending under the lock.
ReadMessage ==
    /\ reading = "reading"
    /\ handling = <<>>
    /\ stream # <<>> /\ ~Unreadable(Head(stream))
    /\ stream' = Tail(stream)
    /\ LET message == Head(stream)
       IN  CASE message.kind = "response" ->
                  /\ reading' = "delivering"
                  /\ inHand' = [message |-> message, for |-> Pending(message.id)]
                  /\ pending' = pending \ Pending(message.id)
                  /\ UNCHANGED handling
             [] message.kind = "notification" ->
                  /\ handling' = Append(handling, message.notices)
                  /\ UNCHANGED <<reading, inHand, pending>>
             [] OTHER -> UNCHANGED <<reading, inHand, handling, pending>>
    /\ UNCHANGED <<at, id, nextID, channel, released, expired, result, got, writer,
                   handled, done, readErr, received, answered, noticed, ended, hungUp>>

\* The rest of deliver: send on the channel, which has room for one.
Deliver ==
    /\ reading = "delivering"
    /\ \A c \in inHand.for : Len(channel[c]) < 1
    /\ channel' = [c \in Calls |->
                      IF c \in inHand.for THEN Append(channel[c], inHand.message) ELSE channel[c]]
    /\ reading' = "reading"
    /\ inHand' = None
    /\ UNCHANGED <<at, id, nextID, pending, released, expired, result, got, writer,
                   handling, handled, done, readErr, engineVars>>

\* A notification's handlers return.
Handle(i) ==
    /\ handled' = Append(handled, handling[i])
    /\ handling' = SubSeq(handling, 1, i - 1) \o SubSeq(handling, i + 1, Len(handling))
    /\ UNCHANGED <<callVars, reading, inHand, done, readErr, engineVars>>

\* Mutants of Finish: what is still in transit is lost, or the channels stay open.
Finish_Discards ==
    /\ reading = "reading"
    /\ handling = <<>>
    /\ \/ ended /\ readErr' = "none"
       \/ stream # <<>> /\ Unreadable(Head(stream)) /\ readErr' = "framing"
    /\ released' = released \cup pending
    /\ pending' = {}
    /\ done' = TRUE
    /\ reading' = "ended"
    /\ UNCHANGED <<at, id, nextID, channel, expired, result, got, writer,
                   inHand, handling, handled, engineVars>>

Finish_KeepsChannels ==
    /\ reading = "reading"
    /\ handling = <<>>
    /\ \/ ended /\ stream = <<>> /\ readErr' = "none"
       \/ stream # <<>> /\ Unreadable(Head(stream)) /\ readErr' = "framing"
    /\ pending' = {}
    /\ done' = TRUE
    /\ reading' = "ended"
    /\ UNCHANGED <<at, id, nextID, channel, released, expired, result, got, writer,
                   inHand, handling, handled, engineVars>>

\* The error Read returns, as finish keeps it: none for io.EOF, which it is at the end of
\* the stream and may be in the middle of a frame.  What lies behind a frame that is
\* refused is never read.
ReadError ==
    \/ stream = <<>> /\ ended /\ readErr' = "none"
    \/ stream # <<>> /\ Unreadable(Head(stream)) /\ readErr' = "framing"
    \/ stream # <<>> /\ Head(stream).kind = "torn" /\ readErr' = "none"

\* finish: close the channel of every pending call, then Client.done.
Finish ==
    /\ reading = "reading"
    /\ handling = <<>>
    /\ ReadError
    /\ released' = released \cup pending
    /\ pending' = {}
    /\ done' = TRUE
    /\ reading' = "ended"
    /\ UNCHANGED <<at, id, nextID, channel, expired, result, got, writer,
                   inHand, handling, handled, engineVars>>

ReadLoop ==
    \/ ReadMessage
    \/ Deliver
    \/ \E i \in DOMAIN handling : Handle(i)
    \/ Finish

-----------------------------------------------------------------------------
(* The engine at the other end.                                            *)

\* The engine reads the frame being written, which ends the write.
Receive ==
    /\ ~hungUp
    /\ writer # None
    /\ received' = received \cup {writer}
    /\ at' = [at EXCEPT ![writer] = "waiting"]
    /\ writer' = None
    /\ UNCHANGED <<id, nextID, pending, channel, released, expired, result, got,
                   loopVars, answered, noticed, stream, ended, hungUp>>

Send(message) ==
    /\ ~ended
    /\ Len(stream) < Capacity
    /\ stream' = Append(stream, message)

Answer(c) ==
    /\ c \in received \ answered
    /\ Send(Response(c)) \/ Send(Oversized(c))
    /\ answered' = answered \cup {c}
    /\ UNCHANGED <<callVars, loopVars, received, noticed, ended, hungUp>>

Notify ==
    /\ noticed < Notices
    /\ Send(Notification)
    /\ noticed' = noticed + 1
    /\ UNCHANGED <<callVars, loopVars, received, answered, ended, hungUp>>

\* Bound: an unusable message is sent only while nothing else is in transit.
SendUnusable ==
    /\ stream = <<>>
    /\ Send(Unaddressed) \/ Send(Malformed) \/ Send(Refused)
    /\ UNCHANGED <<callVars, loopVars, received, answered, noticed, ended, hungUp>>

\* The engine ends between two frames or in the middle of one.
EndOutput ==
    /\ ~ended
    /\ ended' = TRUE
    /\ stream' \in {stream, Append(stream, Torn)}
    /\ UNCHANGED <<callVars, loopVars, received, answered, noticed, hungUp>>

Engine ==
    \/ Receive
    \/ \E c \in Calls : Answer(c)
    \/ Notify
    \/ SendUnusable
    \/ EndOutput

-----------------------------------------------------------------------------

\* Every call has returned and the read loop has ended.
Terminated ==
    /\ done
    /\ \A c \in Calls : at[c] = "returned"
    /\ UNCHANGED vars

Next ==
    \/ \E c \in Calls : Caller(c)
    \/ \E c \in Calls : Expire(c)
    \/ Close
    \/ ReadLoop
    \/ Engine
    \/ Terminated

Spec == Init /\ [][Next]_vars

(***************************************************************************)
(* Fairness.  The goroutines of the client run when they can.  Nothing is  *)
(* assumed of the engine: it may stop reading or answering without ending  *)
(* the stream.                                                             *)
(***************************************************************************)
FairSpec ==
    /\ Spec
    /\ WF_vars(ReadLoop)
    /\ \A c \in Calls : WF_vars(Caller(c))

-----------------------------------------------------------------------------
(* What the client promises its callers.                                   *)

Responses == [kind : {"response"}, id : Nat, to : Calls \cup {None}, notices : Nat]

Messages == [kind : {"response", "notification", "malformed", "refused", "torn"}, id : Nat,
             to : Calls \cup {None}, notices : Nat]

Deliveries == [message : Responses, for : SUBSET Calls]

TypeOK ==
    /\ at \in [Calls -> {"idle", "registered", "writing", "waiting", "leaving", "returned"}]
    /\ id \in [Calls -> Nat]
    /\ nextID \in Nat
    /\ pending \subseteq Calls
    /\ channel \in [Calls -> Seq(Responses)]
    /\ released \subseteq Calls
    /\ expired \subseteq Calls
    /\ result \in [Calls -> {"none", "answered", "closed", "sendFailed", "cancelled"}]
    /\ got \in [Calls -> Responses \cup {None}]
    /\ writer \in Calls \cup {None}
    /\ reading \in {"reading", "delivering", "ended"}
    /\ inHand \in Deliveries \cup {None}
    /\ reading = "delivering" => inHand \in Deliveries
    /\ handling \in Seq(Nat)
    /\ handled \in Seq(Nat)
    /\ done \in BOOLEAN
    /\ readErr \in {"none", "framing"}
    /\ received \subseteq Calls
    /\ answered \subseteq Calls
    /\ noticed \in Nat
    /\ stream \in Seq(Messages)
    /\ ended \in BOOLEAN
    /\ hungUp \in BOOLEAN

\* "Correlates responses by identifier, so callers may issue concurrent requests":
\* whatever order the engine answers in, and whoever gave up meanwhile, a call that
\* returns an answer returns the answer to its own request.
OwnAnswer == \A c \in Calls : result[c] = "answered" => got[c].to = c

\* The answer to call c is the frame the reader refused, or one behind it.
LostBehindError(c) ==
    /\ readErr = "framing"
    /\ stream # <<>> /\ Head(stream).kind = "refused"
    /\ \E i \in DOMAIN stream : stream[i].to = c

\* What was sent before the stream ended is delivered before the channels are closed: a
\* call fails with ErrClientClosed only if the engine never answered it, or if its answer was
\* refused or lies behind a frame that was, and then Err tells of the damage.
ClosedOnlyUnread ==
    \A c \in Calls : result[c] = "closed" => c \notin answered \/ LostBehindError(c)

\* "A crashed engine never leaves callers waiting": once the stream has ended, a
\* call that has not got its answer finds its channel closed, also one that
\* registered while the read loop was finishing.
NoCallStranded ==
    done => \A c \in Calls :
        at[c] \in {"registered", "writing", "waiting"} => channel[c] # <<>> \/ c \in released

\* Notification handlers run in arrival order, and those of the notifications that
\* preceded an answer have returned when the call gets it.
NoticesBeforeAnswer ==
    /\ \A i \in DOMAIN handled : handled[i] = i
    /\ \A c \in Calls : result[c] = "answered" => got[c].notices <= Len(handled)

\* When both directions of the connection end, every call returns.
CrashReleasesCallers == \A c \in Calls : (ended /\ hungUp) ~> (at[c] = "returned")

\* An answer that was sent reaches its caller, unless the call ends first: callers
\* that gave up and handlers that are running never block the read loop for good.
AnsweredCallReturns == \A c \in Calls : (c \in answered) ~> (at[c] = "returned")

\* "An unanswered call returns on cancellation", for calls the engine has read.
WaitingCallHonorsContext ==
    \A c \in Calls : (at[c] = "waiting" /\ c \in expired) ~> (at[c] = "returned")
============================================================================
