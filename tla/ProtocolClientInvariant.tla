---------------------- MODULE ProtocolClientInvariant ----------------------
(***************************************************************************)
(* The inductive invariant behind the safety theorems of ProtocolClient,   *)
(* in named parts: identifiers, the outbound lock, the state a pending     *)
(* call is in, where the answer to a call is, and the order of the stream. *)
(***************************************************************************)
EXTENDS ProtocolClient

\* Identifiers are fresh: two calls that registered never share one.
Identifiers ==
    \A c \in Calls :
        /\ id[c] <= nextID
        /\ at[c] = "idle" => id[c] = 0
        /\ at[c] \notin {"idle", "returned"} => id[c] # 0
        /\ \A d \in Calls \ {c} : id[c] # 0 => id[c] # id[d]

\* The outbound lock is held by the call that is writing.
OutboundLock == \A c \in Calls : at[c] = "writing" <=> writer = c

\* A pending call has an open, empty channel; a call that has not registered has
\* neither been received nor been released.
Pendings ==
    /\ \A c \in pending : id[c] # 0 /\ channel[c] = <<>> /\ c \notin released
    /\ \A c \in Calls : at[c] = "idle" => channel[c] = <<>> /\ c \notin released
    /\ \A c \in received : id[c] # 0 /\ at[c] \notin {"idle", "registered", "writing"}
    /\ answered \subseteq received

\* The response in hand was taken out of pending for the calls it is delivered to.
Delivering ==
    reading = "delivering" =>
        \A c \in inHand.for : /\ id[c] = inHand.message.id
                              /\ id[c] # 0
                              /\ channel[c] = <<>>
                              /\ c \notin pending \cup released

\* A call that may still wait is pending, or has its answer coming, or its channel closed.
Reachable ==
    \A c \in Calls :
        at[c] \in {"registered", "writing", "waiting"} =>
            \/ c \in pending \cup released
            \/ channel[c] # <<>>
            \/ reading = "delivering" /\ c \in inHand.for

\* What the reader refused stays where it was, before whatever the engine goes on to send.
Refusal == readErr = "framing" /\ stream # <<>> /\ Head(stream).kind = "refused"

\* finish leaves nothing behind, and runs only when the engine's output has ended or a
\* frame of it was refused.
Finished ==
    /\ done <=> reading = "ended"
    /\ done => pending = {} /\ (ended \/ Refusal)
    /\ released # {} => done

\* A message is addressed to the call whose identifier it has.
Addressed(message) ==
    IF message.to = None THEN message.id = 0
    ELSE message.id # 0 /\ message.id = id[message.to]

Addresses ==
    /\ \A i \in DOMAIN stream : Addressed(stream[i])
    /\ reading = "delivering" => Addressed(inHand.message)
    /\ \A c \in Calls : \A i \in DOMAIN channel[c] : channel[c][i].to = c
    /\ \A c \in Calls : result[c] = "answered" => got[c] \in Responses /\ got[c].to = c

\* The answer to a pending call is in the stream; closed calls were not answered, or their
\* answer is at or behind the frame that was refused.  Nothing follows a torn frame.
AnswersInTransit ==
    /\ \A c \in pending \cap answered :
          \E i \in DOMAIN stream : /\ stream[i].kind \in {"response", "refused"}
                                  /\ stream[i].to = c
    /\ \A c \in released \cap answered : LostBehindError(c)
    /\ \A c \in Calls : result[c] = "closed" => done /\ (c \notin answered \/ LostBehindError(c))
    /\ \A i \in DOMAIN stream : stream[i].kind = "torn" => ended /\ i = Len(stream)

\* The number of notifications sent before position i of the stream.
Before(i) == IF i = 1 THEN Len(handled) + Len(handling) ELSE stream[i - 1].notices

\* Messages carry the notification count of the moment they were sent; handlers run
\* one after the other.
StreamOrder ==
    /\ \A i \in DOMAIN stream :
          stream[i].notices = Before(i) + (IF stream[i].kind = "notification" THEN 1 ELSE 0)
    /\ noticed = Before(Len(stream) + 1)
    /\ Len(handling) <= 1
    /\ handling # <<>> => handling[1] = Len(handled) + 1 /\ reading = "reading"
    /\ \A i \in DOMAIN handled : handled[i] = i

\* A response that was read follows notifications that were handled.
ReadOrder ==
    /\ reading = "delivering" => inHand.message.notices <= Len(handled)
    /\ \A c \in Calls : \A i \in DOMAIN channel[c] : channel[c][i].notices <= Len(handled)
    /\ \A c \in Calls : result[c] = "answered" => got[c].notices <= Len(handled)

Inductive ==
    /\ TypeOK
    /\ Identifiers
    /\ OutboundLock
    /\ Pendings
    /\ Delivering
    /\ Reachable
    /\ Finished
    /\ Addresses
    /\ AnswersInTransit
    /\ StreamOrder
    /\ ReadOrder
============================================================================
