------------------------ MODULE ProtocolClientProofs ------------------------
(***************************************************************************)
(* Theorems about ProtocolClient, for any number of calls and any bounds.  *)
(* Inductive is kept by every step; the promises follow from it.           *)
(***************************************************************************)
EXTENDS ProtocolClientInvariant, SequenceTheorems, TLAPS

-----------------------------------------------------------------------------

\* Handlers run one at a time: the notification handled is the next one.
LEMMA HandleEffect ==
    ASSUME Inductive, NEW i \in DOMAIN handling, Handle(i)
    PROVE  /\ Len(handling) = 1
           /\ handling[1] = Len(handled) + 1
           /\ handled' = Append(handled, Len(handled) + 1)
           /\ handling' = <<>>
<1>1. handling \in Seq(Nat) /\ Len(handling) <= 1 /\ i \in 1..Len(handling)
  BY LenProperties DEF Inductive, TypeOK, StreamOrder
<1>2. Len(handling) = 1 /\ i = 1 /\ handling # <<>>
  BY <1>1, EmptySeq
<1>3. handled' = Append(handled, handling[1]) /\ handling[1] = Len(handled) + 1
  BY <1>2 DEF Inductive, StreamOrder, Handle
<1>4. handling' = SubSeq(handling, 1, 0) \o SubSeq(handling, 2, 1)
  BY <1>2 DEF Handle
<1>5. SubSeq(handling, 1, 0) = <<>> /\ SubSeq(handling, 2, 1) = <<>>
  BY <1>1
<1>6. <<>> \o <<>> = <<>>
  OBVIOUS
<1>7. QED
  BY <1>2, <1>3, <1>4, <1>5, <1>6

\* What the read loop reads: the oldest message, sent after Len(handled) notifications.
LEMMA HeadOfStream ==
    ASSUME Inductive, ReadMessage
    PROVE  /\ stream # <<>> /\ Head(stream) = stream[1]
           /\ Head(stream) \in Messages /\ Addressed(Head(stream))
           /\ stream' \in Seq(Messages)
           /\ Len(stream') = Len(stream) - 1 /\ Len(stream) \in Nat \ {0}
           /\ DOMAIN stream' = 1..Len(stream') /\ DOMAIN stream = 1..Len(stream)
           /\ \A i \in DOMAIN stream' : i + 1 \in DOMAIN stream /\ stream'[i] = stream[i + 1]
           /\ \A i \in DOMAIN stream :
                 i # 1 => i - 1 \in DOMAIN stream' /\ stream'[i - 1] = stream[i]
           /\ Len(handled') + Len(handling') = stream[1].notices
           /\ Len(handling') <= 1
           /\ handling' # <<>> => handling'[1] = Len(handled') + 1 /\ reading' = "reading"
           /\ reading' = "delivering" => inHand'.message.notices <= Len(handled')
<1>1. stream \in Seq(Messages) /\ stream # <<>> /\ stream' = Tail(stream)
  BY DEF Inductive, TypeOK, ReadMessage
<1>2. /\ Len(stream) \in Nat \ {0}
      /\ stream' \in Seq(Messages) /\ Len(stream') = Len(stream) - 1
      /\ \A i \in 1..Len(stream') : stream'[i] = stream[i + 1]
  BY <1>1, HeadTailProperties, EmptySeq
<1>3. /\ DOMAIN stream' = 1..Len(stream') /\ DOMAIN stream = 1..Len(stream)
      /\ 1 \in DOMAIN stream /\ Head(stream) = stream[1]
  BY <1>1, <1>2
<1>4. stream[1] \in Messages /\ Addressed(stream[1])
  BY <1>1, <1>2, <1>3, ElementOfSeq DEF Inductive, Addresses
<1>5. /\ handled \in Seq(Nat) /\ handled' = handled /\ handling = <<>> /\ Len(handling) = 0
      /\ stream[1].notices = Len(handled) + (IF stream[1].kind = "notification" THEN 1 ELSE 0)
  <2>1. handled \in Seq(Nat) /\ handled' = handled /\ handling = <<>> /\ Len(handling) = 0
    BY DEF Inductive, TypeOK, ReadMessage
  <2>2. stream[1].notices = Before(1) + (IF stream[1].kind = "notification" THEN 1 ELSE 0)
    BY <1>3 DEF Inductive, StreamOrder
  <2>3. Len(handled) \in Nat /\ Before(1) = Len(handled) + Len(handling)
    BY <2>1, LenProperties DEF Before
  <2>4. QED
    BY <2>1, <2>2, <2>3
<1>6. CASE stream[1].kind = "notification"
  <2>1. handling' = Append(<<>>, stream[1].notices) /\ reading' = "reading"
    BY <1>3, <1>5, <1>6 DEF ReadMessage
  <2>2. Len(handling') = 1 /\ handling'[1] = stream[1].notices
    BY <2>1
  <2>3. QED
    BY <1>1, <1>2, <1>3, <1>4, <1>5, <1>6, <2>1, <2>2
<1>7. CASE stream[1].kind # "notification"
  <2>1. handling' = <<>> /\ (reading' = "delivering" => inHand'.message = stream[1])
    BY <1>3, <1>5, <1>7 DEF ReadMessage
  <2>2. QED
    BY <1>1, <1>2, <1>3, <1>4, <1>5, <1>7, <2>1
<1>8. QED
  BY <1>6, <1>7

\* A message the engine sends joins the stream behind whatever was refused, and a call it
\* answers is either pending or released by a refusal.
LEMMA AppendKeepsAnswers ==
    ASSUME Inductive, NEW m \in Messages, ~ended, stream' = Append(stream, m),
           m.kind = "torn" => ended',
           answered \subseteq answered',
           \A c \in answered' \ answered : m.to = c /\ m.kind \in {"response", "refused"},
           UNCHANGED <<pending, released, result, done, readErr>>
    PROVE  AnswersInTransit' /\ (Refusal => Refusal')
<1>1. stream \in Seq(Messages) /\ Len(stream) \in Nat
  BY LenProperties DEF Inductive, TypeOK
<1>2. /\ DOMAIN stream = 1..Len(stream) /\ DOMAIN stream' = 1..(Len(stream) + 1)
      /\ Len(stream') = Len(stream) + 1 /\ stream' # <<>>
      /\ stream'[Len(stream) + 1] = m
      /\ \A i \in DOMAIN stream : i \in DOMAIN stream' /\ stream'[i] = stream[i]
  BY <1>1, AppendProperties
<1>3. stream # <<>> => 1 \in DOMAIN stream /\ Head(stream') = Head(stream)
  BY <1>1, <1>2, EmptySeq
<1>4. Refusal => Refusal'
  BY <1>2, <1>3 DEF Refusal
<1>5. \A c \in Calls : LostBehindError(c) => LostBehindError(c)'
  BY <1>2, <1>3 DEF LostBehindError
<1>6. \A c \in Calls : done /\ c \in answered' \ answered => LostBehindError(c)'
  <2>1. done => Refusal
    BY DEF Inductive, Finished
  <2>2. \A c \in Calls : c \in answered' \ answered => stream'[Len(stream) + 1].to = c
    BY <1>2
  <2>3. Len(stream) + 1 \in DOMAIN stream'
    BY <1>1, <1>2
  <2>4. QED
    BY <1>4, <2>1, <2>2, <2>3 DEF Refusal, LostBehindError
<1>7. ASSUME NEW c \in pending' \cap answered'
      PROVE  \E i \in DOMAIN stream' : stream'[i].kind \in {"response", "refused"} /\ stream'[i].to = c
  <2>1. CASE c \in answered
    BY <1>2, <1>7, <2>1 DEF Inductive, AnswersInTransit
  <2>2. CASE c \notin answered
    <3>1. Len(stream) + 1 \in DOMAIN stream'
      BY <1>1, <1>2
    <3>2. QED
      BY <1>2, <1>7, <2>2, <3>1
  <2>3. QED
    BY <2>1, <2>2
<1>8. \A c \in released' \cap answered' : LostBehindError(c)'
  <2>1. released' \subseteq Calls /\ (released # {} => done)
    BY DEF Inductive, TypeOK, Finished
  <2>2. QED
    BY <1>5, <1>6, <2>1 DEF Inductive, AnswersInTransit
<1>9. \A c \in Calls : result'[c] = "closed" => done' /\ (c \notin answered' \/ LostBehindError(c)')
  BY <1>5, <1>6 DEF Inductive, AnswersInTransit
<1>10. \A i \in DOMAIN stream' : stream'[i].kind = "torn" => ended' /\ i = Len(stream')
  <2>1. \A i \in DOMAIN stream : stream[i].kind # "torn"
    BY DEF Inductive, AnswersInTransit
  <2>2. \A i \in DOMAIN stream' : i \in DOMAIN stream \/ i = Len(stream) + 1
    BY <1>1, <1>2
  <2>3. QED
    BY <1>2, <2>1, <2>2
<1>11. QED
  BY <1>4, <1>7, <1>8, <1>9, <1>10 DEF AnswersInTransit

\* A message joins the stream with the number of notifications sent so far.
LEMMA AppendKeepsOrder ==
    ASSUME Inductive, NEW m \in Messages, stream' = Append(stream, m), noticed' = m.notices,
           m.notices = noticed + (IF m.kind = "notification" THEN 1 ELSE 0),
           UNCHANGED <<handled, handling, reading>>
    PROVE  StreamOrder'
<1>1. stream \in Seq(Messages) /\ Len(stream) \in Nat
  BY LenProperties DEF Inductive, TypeOK
<1>2. /\ DOMAIN stream = 1..Len(stream) /\ DOMAIN stream' = 1..(Len(stream) + 1)
      /\ Len(stream') = Len(stream) + 1
      /\ stream'[Len(stream) + 1] = m
      /\ \A i \in DOMAIN stream : stream'[i] = stream[i]
  BY <1>1, AppendProperties
<1>3. \A i \in 1..(Len(stream) + 1) : Before(i)' = Before(i)
  BY <1>1, <1>2 DEF Before
<1>4. noticed = Before(Len(stream) + 1)
  BY DEF Inductive, StreamOrder
<1>5. ASSUME NEW i \in DOMAIN stream'
      PROVE  stream'[i].notices = Before(i)' + (IF stream'[i].kind = "notification" THEN 1 ELSE 0)
  <2>1. CASE i = Len(stream) + 1
    <3>1. Before(i)' = noticed /\ stream'[i] = m
      BY <1>1, <1>2, <1>3, <1>4, <2>1
    <3>2. QED
      BY <3>1
  <2>2. CASE i # Len(stream) + 1
    <3>1. i \in DOMAIN stream /\ Before(i)' = Before(i) /\ stream'[i] = stream[i]
      BY <1>1, <1>2, <1>3, <1>5, <2>2
    <3>2. QED
      BY <3>1 DEF Inductive, StreamOrder
  <2>3. QED
    BY <2>1, <2>2
<1>6. noticed' = (Before(Len(stream) + 1))'
  BY <1>1, <1>2 DEF Before
<1>7. QED
  BY <1>5, <1>6 DEF Inductive, StreamOrder

\* Registering under a fresh identifier keeps the invariant.
LEMMA RegisterKeeps ==
    ASSUME Inductive, NEW c \in Calls, Register(c)
    PROVE  Inductive'
<1> USE ClientAssumption DEF Inductive
<1>1. TypeOK'
  <2>1. CASE done
    BY <2>1 DEF TypeOK, Register, loopVars, engineVars
  <2>2. CASE ~done
    <3>1. /\ at' = [at EXCEPT ![c] = "registered"]
          /\ id' = [id EXCEPT ![c] = nextID + 1] /\ nextID' = nextID + 1
          /\ pending' \subseteq pending \cup {c}
          /\ result' = result
      BY <2>2 DEF Register
    <3>2. id' \in [Calls -> Nat] /\ nextID' \in Nat
      BY <3>1 DEF TypeOK
    <3>3. QED
      BY <3>1, <3>2 DEF TypeOK, Register, loopVars, engineVars
  <2>3. QED
    BY <2>1, <2>2
<1>2. Identifiers'
  <2>1. CASE done
    BY <2>1 DEF Identifiers, TypeOK, Register
  <2>2. CASE ~done
    <3>1. /\ at' = [at EXCEPT ![c] = "registered"]
          /\ id' = [id EXCEPT ![c] = nextID + 1] /\ nextID' = nextID + 1
      BY <2>2 DEF Register
    <3>2. QED
      BY <3>1 DEF Identifiers, TypeOK
  <2>3. QED
    BY <2>1, <2>2
<1>3. OutboundLock'
  BY DEF OutboundLock, TypeOK, Register, Pending, loopVars, engineVars
<1>4. Pendings'
  BY DEF Pendings, TypeOK, Identifiers, Register, Pending, loopVars, engineVars
<1>5. Delivering'
  <2>1. reading = "delivering" => inHand.for \subseteq Calls \ {c}
    BY DEF Delivering, TypeOK, Deliveries, Identifiers, Register
  <2>2. /\ \A d \in Calls \ {c} : id'[d] = id[d]
        /\ pending' \subseteq pending \cup {c}
    BY DEF Register, TypeOK
  <2>3. QED
    BY <2>1, <2>2 DEF Delivering, Register, loopVars
<1>6. Reachable'
  <2>1. Pending(nextID + 1) = {}
    BY DEF Pending, Identifiers, TypeOK
  <2>2. QED
    BY <2>1 DEF Reachable, TypeOK, Register, loopVars
<1>7. Finished'
  BY DEF Finished, Refusal, Register, Pending, loopVars, engineVars
<1>8. Addresses'
  <2>1. \A d \in Calls : id[d] # 0 => id'[d] = id[d]
    BY DEF Identifiers, TypeOK, Register
  <2>2. /\ \A d \in Calls : result'[d] = "answered" => result[d] = "answered"
        /\ UNCHANGED <<stream, reading, inHand, channel, got>>
    BY DEF TypeOK, Register, loopVars, engineVars
  <2>3. \A m \in Messages : Addressed(m) => (m.to = None => m.id = 0) /\ (m.to # None => m.id # 0 /\ m.id = id'[m.to])
    BY <2>1 DEF Addressed, Messages
  <2>4. \A i \in DOMAIN stream : stream[i] \in Messages /\ Addressed(stream[i])
    BY ElementOfSeq DEF Addresses, TypeOK
  <2>5. reading = "delivering" => inHand.message \in Messages /\ Addressed(inHand.message)
    BY DEF Addresses, TypeOK, Deliveries, Responses, Messages
  <2>6. (\A i \in DOMAIN stream : Addressed(stream[i]))'
    BY <2>2, <2>3, <2>4 DEF Addressed
  <2>7. (reading = "delivering" => Addressed(inHand.message))'
    BY <2>2, <2>3, <2>5 DEF Addressed
  <2>8. QED
    BY <2>2, <2>6, <2>7 DEF Addresses
<1>9. AnswersInTransit'
  <2>1. /\ UNCHANGED <<answered, released, stream, ended, done, readErr>>
        /\ pending' \subseteq pending \cup {c} /\ c \notin answered
    BY DEF Pendings, Register, Pending, loopVars, engineVars
  <2>2. \A d \in Calls : result'[d] = "closed" => result[d] = "closed" \/ (d = c /\ done)
    BY DEF TypeOK, Register
  <2>3. \A d \in Calls : LostBehindError(d) => LostBehindError(d)'
    BY <2>1 DEF LostBehindError
  <2>4. QED
    BY <2>1, <2>2, <2>3 DEF AnswersInTransit, TypeOK
<1>10. StreamOrder'
  BY DEF StreamOrder, Before, Register, Pending, loopVars, engineVars
<1>11. ReadOrder'
  BY DEF ReadOrder, TypeOK, Pendings, Register, Pending, loopVars, engineVars
<1>12. QED
  BY <1>1, <1>2, <1>3, <1>4, <1>5, <1>6, <1>7, <1>8, <1>9, <1>10, <1>11

\* Taking the outbound lock keeps it.
LEMMA BeginWriteKeeps ==
    ASSUME Inductive, NEW c \in Calls, BeginWrite(c)
    PROVE  Inductive'
<1> USE ClientAssumption DEF Inductive
<1>1. TypeOK'
  BY DEF TypeOK, Responses, Messages, BeginWrite, loopVars, engineVars
<1>2. Identifiers'
  BY DEF Identifiers, BeginWrite, loopVars, engineVars
<1>3. OutboundLock'
  BY DEF OutboundLock, TypeOK, BeginWrite
<1>4. Pendings'
  BY DEF Pendings, BeginWrite, loopVars, engineVars
<1>5. Delivering'
  BY DEF Delivering, BeginWrite, loopVars, engineVars
<1>6. Reachable'
  BY DEF Reachable, BeginWrite, loopVars, engineVars
<1>7. Finished'
  BY DEF Finished, Refusal, BeginWrite, loopVars, engineVars
<1>8. Addresses'
  BY DEF Addresses, Addressed, BeginWrite, loopVars, engineVars
<1>9. AnswersInTransit'
  BY DEF AnswersInTransit, LostBehindError, BeginWrite, loopVars, engineVars
<1>10. StreamOrder'
  BY DEF StreamOrder, Before, BeginWrite, loopVars, engineVars
<1>11. ReadOrder'
  BY DEF ReadOrder, BeginWrite, loopVars, engineVars
<1>12. QED
  BY <1>1, <1>2, <1>3, <1>4, <1>5, <1>6, <1>7, <1>8, <1>9, <1>10, <1>11

\* A write that fails keeps it.
LEMMA SendFailsKeeps ==
    ASSUME Inductive, NEW c \in Calls, SendFails(c)
    PROVE  Inductive'
<1> USE ClientAssumption DEF Inductive
<1>1. TypeOK'
  BY DEF TypeOK, Responses, Messages, SendFails, Leave, loopVars, engineVars
<1>2. Identifiers'
  BY DEF Identifiers, SendFails, Leave, loopVars, engineVars
<1>3. OutboundLock'
  BY DEF OutboundLock, TypeOK, SendFails, Leave
<1>4. Pendings'
  BY DEF Pendings, SendFails, Leave, loopVars, engineVars
<1>5. Delivering'
  BY DEF Delivering, SendFails, Leave, loopVars, engineVars
<1>6. Reachable'
  BY DEF Reachable, SendFails, Leave, loopVars, engineVars
<1>7. Finished'
  BY DEF Finished, Refusal, SendFails, Leave, loopVars, engineVars
<1>8. Addresses'
  BY DEF Addresses, Addressed, SendFails, Leave, loopVars, engineVars
<1>9. AnswersInTransit'
  BY DEF AnswersInTransit, LostBehindError, SendFails, Leave, loopVars, engineVars
<1>10. StreamOrder'
  BY DEF StreamOrder, Before, SendFails, Leave, loopVars, engineVars
<1>11. ReadOrder'
  BY DEF ReadOrder, SendFails, Leave, loopVars, engineVars
<1>12. QED
  BY <1>1, <1>2, <1>3, <1>4, <1>5, <1>6, <1>7, <1>8, <1>9, <1>10, <1>11

\* A call that receives its answer keeps it.
LEMMA ReceiveAnswerKeeps ==
    ASSUME Inductive, NEW c \in Calls, ReceiveAnswer(c)
    PROVE  Inductive'
<1> USE ClientAssumption DEF Inductive
<1>1. TypeOK'
  <2>1. /\ Head(channel[c]) \in Responses
        /\ Tail(channel[c]) \in Seq(Responses)
    BY HeadTailProperties DEF TypeOK, ReceiveAnswer
  <2>2. /\ got' \in [Calls -> Responses \cup {None}]
        /\ channel' \in [Calls -> Seq(Responses)]
    BY <2>1 DEF TypeOK, ReceiveAnswer
  <2>3. QED
    BY <2>2 DEF TypeOK, ReceiveAnswer, Leave, loopVars, engineVars
<1>2. Identifiers'
  BY DEF Identifiers, ReceiveAnswer, Leave, loopVars, engineVars
<1>3. OutboundLock'
  BY DEF OutboundLock, ReceiveAnswer, Leave, loopVars, engineVars
<1>4. Pendings'
  BY DEF Pendings, ReceiveAnswer, Leave, loopVars, engineVars
<1>5. Delivering'
  BY DEF Delivering, ReceiveAnswer, Leave, loopVars, engineVars
<1>6. Reachable'
  BY DEF Reachable, TypeOK, ReceiveAnswer, Leave, loopVars, engineVars
<1>7. Finished'
  BY DEF Finished, Refusal, ReceiveAnswer, Leave, loopVars, engineVars
<1>8. Addresses'
  <2>1. Head(channel[c]).to = c /\ Head(channel[c]) \in Responses
    BY HeadTailProperties DEF Addresses, TypeOK, ReceiveAnswer
  <2>2. \A i \in DOMAIN Tail(channel[c]) : Tail(channel[c])[i].to = c
    BY HeadTailProperties DEF Addresses, TypeOK, ReceiveAnswer
  <2>3. got' = [got EXCEPT ![c] = Head(channel[c])]
    BY DEF ReceiveAnswer
  <2>4. \A d \in Calls : result'[d] = "answered" => got'[d] \in Responses /\ got'[d].to = d
    BY <2>1, <2>3 DEF Addresses, TypeOK, ReceiveAnswer, Leave
  <2>5. \A d \in Calls : \A i \in DOMAIN channel'[d] : channel'[d][i].to = d
    BY <2>2 DEF Addresses, TypeOK, ReceiveAnswer
  <2>6. QED
    BY <2>4, <2>5 DEF Addresses, Addressed, ReceiveAnswer, loopVars, engineVars
<1>9. AnswersInTransit'
  BY DEF AnswersInTransit, LostBehindError, ReceiveAnswer, Leave, loopVars, engineVars
<1>10. StreamOrder'
  BY DEF StreamOrder, Before, ReceiveAnswer, Leave, loopVars, engineVars
<1>11. ReadOrder'
  <2>1. Head(channel[c]).notices <= Len(handled)
    BY HeadTailProperties DEF ReadOrder, TypeOK, ReceiveAnswer
  <2>2. \A i \in DOMAIN Tail(channel[c]) : Tail(channel[c])[i].notices <= Len(handled)
    BY HeadTailProperties DEF ReadOrder, TypeOK, ReceiveAnswer
  <2>3. \A d \in Calls : result'[d] = "answered" => got'[d].notices <= Len(handled)
    BY <2>1 DEF ReadOrder, TypeOK, ReceiveAnswer, Leave
  <2>4. \A d \in Calls : \A i \in DOMAIN channel'[d] : channel'[d][i].notices <= Len(handled)
    BY <2>2 DEF ReadOrder, TypeOK, ReceiveAnswer
  <2>5. QED
    BY <2>3, <2>4 DEF ReadOrder, ReceiveAnswer, loopVars, engineVars
<1>12. QED
  BY <1>1, <1>2, <1>3, <1>4, <1>5, <1>6, <1>7, <1>8, <1>9, <1>10, <1>11

\* A call that finds its channel closed keeps it.
LEMMA ReceiveClosedKeeps ==
    ASSUME Inductive, NEW c \in Calls, ReceiveClosed(c)
    PROVE  Inductive'
<1> USE ClientAssumption DEF Inductive
<1>1. TypeOK'
  BY DEF TypeOK, Responses, Messages, ReceiveClosed, Leave, loopVars, engineVars
<1>2. Identifiers'
  BY DEF Identifiers, ReceiveClosed, Leave, loopVars, engineVars
<1>3. OutboundLock'
  BY DEF OutboundLock, ReceiveClosed, Leave, loopVars, engineVars
<1>4. Pendings'
  BY DEF Pendings, ReceiveClosed, Leave, loopVars, engineVars
<1>5. Delivering'
  BY DEF Delivering, ReceiveClosed, Leave, loopVars, engineVars
<1>6. Reachable'
  BY DEF Reachable, ReceiveClosed, Leave, loopVars, engineVars
<1>7. Finished'
  BY DEF Finished, Refusal, ReceiveClosed, Leave, loopVars, engineVars
<1>8. Addresses'
  BY DEF Addresses, Addressed, ReceiveClosed, Leave, loopVars, engineVars
<1>9. AnswersInTransit'
  <2>1. /\ UNCHANGED <<answered, released, pending, stream, ended, done, readErr>>
        /\ c \in released
    BY DEF ReceiveClosed, loopVars, engineVars
  <2>2. \A d \in Calls : result'[d] = "closed" => result[d] = "closed" \/ d = c
    BY DEF TypeOK, ReceiveClosed, Leave
  <2>3. \A d \in Calls : LostBehindError(d) => LostBehindError(d)'
    BY <2>1 DEF LostBehindError
  <2>4. done /\ (c \notin answered \/ LostBehindError(c))
    BY <2>1 DEF Finished, AnswersInTransit
  <2>5. QED
    BY <2>1, <2>2, <2>3, <2>4 DEF AnswersInTransit, TypeOK
<1>10. StreamOrder'
  BY DEF StreamOrder, Before, ReceiveClosed, Leave, loopVars, engineVars
<1>11. ReadOrder'
  BY DEF ReadOrder, ReceiveClosed, Leave, loopVars, engineVars
<1>12. QED
  BY <1>1, <1>2, <1>3, <1>4, <1>5, <1>6, <1>7, <1>8, <1>9, <1>10, <1>11

\* A call that gives up keeps it.
LEMMA GiveUpKeeps ==
    ASSUME Inductive, NEW c \in Calls, GiveUp(c)
    PROVE  Inductive'
<1> USE ClientAssumption DEF Inductive
<1>1. TypeOK'
  BY DEF TypeOK, Responses, Messages, GiveUp, Leave, loopVars, engineVars
<1>2. Identifiers'
  BY DEF Identifiers, GiveUp, Leave, loopVars, engineVars
<1>3. OutboundLock'
  BY DEF OutboundLock, GiveUp, Leave, loopVars, engineVars
<1>4. Pendings'
  BY DEF Pendings, GiveUp, Leave, loopVars, engineVars
<1>5. Delivering'
  BY DEF Delivering, GiveUp, Leave, loopVars, engineVars
<1>6. Reachable'
  BY DEF Reachable, GiveUp, Leave, loopVars, engineVars
<1>7. Finished'
  BY DEF Finished, Refusal, GiveUp, Leave, loopVars, engineVars
<1>8. Addresses'
  BY DEF Addresses, Addressed, GiveUp, Leave, loopVars, engineVars
<1>9. AnswersInTransit'
  BY DEF AnswersInTransit, LostBehindError, GiveUp, Leave, loopVars, engineVars
<1>10. StreamOrder'
  BY DEF StreamOrder, Before, GiveUp, Leave, loopVars, engineVars
<1>11. ReadOrder'
  BY DEF ReadOrder, GiveUp, Leave, loopVars, engineVars
<1>12. QED
  BY <1>1, <1>2, <1>3, <1>4, <1>5, <1>6, <1>7, <1>8, <1>9, <1>10, <1>11

\* Unregistering removes the call's own entry only.
LEMMA UnregisterKeeps ==
    ASSUME Inductive, NEW c \in Calls, Unregister(c)
    PROVE  Inductive'
<1> USE ClientAssumption DEF Inductive
<1>1. TypeOK'
  BY DEF TypeOK, Responses, Messages, Unregister, Pending, loopVars, engineVars
<1>2. Identifiers'
  BY DEF Identifiers, Unregister, Pending, loopVars, engineVars
<1>3. OutboundLock'
  BY DEF OutboundLock, Unregister, Pending, loopVars, engineVars
<1>4. Pendings'
  BY DEF Pendings, Unregister, Pending, loopVars, engineVars
<1>5. Delivering'
  BY DEF Delivering, Unregister, Pending, loopVars, engineVars
<1>6. Reachable'
  BY DEF Reachable, Identifiers, TypeOK, Unregister, Pending, loopVars, engineVars
<1>7. Finished'
  BY DEF Finished, Refusal, Unregister, Pending, loopVars, engineVars
<1>8. Addresses'
  BY DEF Addresses, Addressed, Unregister, Pending, loopVars, engineVars
<1>9. AnswersInTransit'
  BY DEF AnswersInTransit, LostBehindError, Unregister, Pending, loopVars, engineVars
<1>10. StreamOrder'
  BY DEF StreamOrder, Before, Unregister, Pending, loopVars, engineVars
<1>11. ReadOrder'
  BY DEF ReadOrder, Unregister, Pending, loopVars, engineVars
<1>12. QED
  BY <1>1, <1>2, <1>3, <1>4, <1>5, <1>6, <1>7, <1>8, <1>9, <1>10, <1>11

\* The engine reads a request, which ends its write.
LEMMA ReceiveKeeps ==
    ASSUME Inductive, Receive
    PROVE  Inductive'
<1> USE ClientAssumption DEF Inductive
<1>1. TypeOK'
  BY DEF TypeOK, Responses, Messages, Receive, loopVars
<1>2. Identifiers'
  BY DEF Identifiers, TypeOK, OutboundLock, Receive, loopVars
<1>3. OutboundLock'
  BY DEF OutboundLock, TypeOK, Receive, loopVars
<1>4. Pendings'
  BY DEF Pendings, TypeOK, OutboundLock, Identifiers, Receive, loopVars
<1>5. Delivering'
  BY DEF Delivering, Receive, loopVars
<1>6. Reachable'
  BY DEF Reachable, TypeOK, OutboundLock, Receive, loopVars
<1>7. Finished'
  BY DEF Finished, Refusal, Receive, loopVars
<1>8. Addresses'
  BY DEF Addresses, Addressed, Receive, loopVars
<1>9. AnswersInTransit'
  BY DEF AnswersInTransit, LostBehindError, Receive, loopVars
<1>10. StreamOrder'
  BY DEF StreamOrder, Before, Receive, loopVars
<1>11. ReadOrder'
  BY DEF ReadOrder, Receive, loopVars
<1>12. QED
  BY <1>1, <1>2, <1>3, <1>4, <1>5, <1>6, <1>7, <1>8, <1>9, <1>10, <1>11

\* The engine answers a request it has read.
LEMMA AnswerKeeps ==
    ASSUME Inductive, NEW c \in Calls, Answer(c)
    PROVE  Inductive'
<1> USE ClientAssumption DEF Inductive
<1>0. PICK m \in Messages :
          /\ stream' = Append(stream, m) /\ ~ended
          /\ m.kind \in {"response", "refused"} /\ m.to = c /\ m.id = id[c] /\ m.notices = noticed
  <2>1. Response(c) \in Messages /\ Oversized(c) \in Messages
    BY DEF TypeOK, Messages, Response, Oversized
  <2>2. /\ Response(c).kind = "response" /\ Response(c).to = c
        /\ Response(c).id = id[c] /\ Response(c).notices = noticed
    BY DEF Response
  <2>3. /\ Oversized(c).kind = "refused" /\ Oversized(c).to = c
        /\ Oversized(c).id = id[c] /\ Oversized(c).notices = noticed
    BY DEF Response, Oversized
  <2>4. (stream' = Append(stream, Response(c)) \/ stream' = Append(stream, Oversized(c))) /\ ~ended
    BY DEF Answer, Send
  <2>5. QED
    BY <2>1, <2>2, <2>3, <2>4
<1>1. TypeOK'
  <2>1. stream' \in Seq(Messages)
    BY <1>0, AppendProperties DEF TypeOK
  <2>2. QED
    BY <2>1 DEF TypeOK, Answer, callVars, loopVars
<1>2. Identifiers'
  BY DEF Identifiers, Answer, callVars, loopVars
<1>3. OutboundLock'
  BY DEF OutboundLock, Answer, callVars, loopVars
<1>4. Pendings'
  BY DEF Pendings, Answer, callVars, loopVars
<1>5. Delivering'
  BY DEF Delivering, Answer, callVars, loopVars
<1>6. Reachable'
  BY DEF Reachable, Answer, callVars, loopVars
<1>7. Finished'
  <2>1. Refusal => Refusal'
    BY <1>0, AppendKeepsAnswers DEF Answer, callVars, loopVars
  <2>2. QED
    BY <2>1 DEF Finished, Answer, callVars, loopVars
<1>8. Addresses'
  <2>1. UNCHANGED <<id, reading, inHand, channel, result, got>> /\ id[c] # 0 /\ c # None
    BY DEF Pendings, Answer, callVars, loopVars
  <2>2. \A i \in DOMAIN stream' : (i \in DOMAIN stream /\ stream'[i] = stream[i]) \/ stream'[i] = m
    <3>1. stream \in Seq(Messages)
      BY DEF TypeOK
    <3>2. /\ DOMAIN stream = 1..Len(stream) /\ DOMAIN stream' = 1..(Len(stream) + 1)
          /\ Len(stream) \in Nat /\ stream'[Len(stream) + 1] = m
          /\ \A i \in 1..Len(stream) : stream'[i] = stream[i]
      BY <1>0, <3>1, AppendProperties
    <3>3. QED
      BY <3>2
  <2>3. QED
    BY <1>0, <2>1, <2>2 DEF Addresses, Addressed
<1>9. AnswersInTransit'
  <2>1. /\ answered' = answered \cup {c}
        /\ UNCHANGED <<pending, released, result, done, readErr>>
    BY DEF Answer, callVars, loopVars
  <2>2. QED
    BY <1>0, <2>1, AppendKeepsAnswers
<1>10. StreamOrder'
  BY <1>0, AppendKeepsOrder DEF TypeOK, Answer, callVars, loopVars
<1>11. ReadOrder'
  BY DEF ReadOrder, Answer, callVars, loopVars
<1>12. QED
  BY <1>1, <1>2, <1>3, <1>4, <1>5, <1>6, <1>7, <1>8, <1>9, <1>10, <1>11

\* The engine sends a notification.
LEMMA NotifyKeeps ==
    ASSUME Inductive, Notify
    PROVE  Inductive'
<1> USE ClientAssumption DEF Inductive
<1>0. Notification \in Messages /\ stream' = Append(stream, Notification) /\ ~ended
  BY DEF TypeOK, Messages, Notification, Notify, Send
<1>a. AnswersInTransit' /\ (Refusal => Refusal')
  BY <1>0, AppendKeepsAnswers DEF Notification, Notify, callVars, loopVars
<1>1. TypeOK'
  <2>1. Notification \in Messages
    BY DEF TypeOK, Messages, Notification
  <2>2. stream' \in Seq(Messages)
    BY <2>1, AppendProperties DEF TypeOK, Notify, Send
  <2>3. QED
    BY <2>2 DEF TypeOK, Notify, Send, callVars, loopVars
<1>2. Identifiers'
  BY DEF Identifiers, Notify, Send, Notification, callVars, loopVars
<1>3. OutboundLock'
  BY DEF OutboundLock, Notify, Send, Notification, callVars, loopVars
<1>4. Pendings'
  BY DEF Pendings, Notify, Send, Notification, callVars, loopVars
<1>5. Delivering'
  BY DEF Delivering, Notify, Send, Notification, callVars, loopVars
<1>6. Reachable'
  BY DEF Reachable, Notify, Send, Notification, callVars, loopVars
<1>7. Finished'
  BY <1>a DEF Finished, Notify, callVars, loopVars
<1>8. Addresses'
  BY DEF Addresses, Addressed, Notify, Send, Notification, callVars, loopVars
<1>9. AnswersInTransit'
  BY <1>a
<1>10. StreamOrder'
  BY <1>0, AppendKeepsOrder DEF Notification, Notify, callVars, loopVars
<1>11. ReadOrder'
  BY DEF ReadOrder, Notify, Send, Notification, callVars, loopVars
<1>12. QED
  BY <1>1, <1>2, <1>3, <1>4, <1>5, <1>6, <1>7, <1>8, <1>9, <1>10, <1>11

\* The engine sends a message that no call gets.
LEMMA SendUnusableKeeps ==
    ASSUME Inductive, SendUnusable
    PROVE  Inductive'
<1> USE ClientAssumption DEF Inductive
<1>0. PICK m \in Messages :
          /\ stream' = Append(stream, m) /\ ~ended
          /\ m.kind \in {"response", "malformed", "refused"}
          /\ m.to = None /\ m.id = 0 /\ m.notices = noticed
  <2>1. Unaddressed \in Messages /\ Malformed \in Messages /\ Refused \in Messages
    BY DEF TypeOK, Messages, Unaddressed, Malformed, Refused
  <2>2. \A m \in {Unaddressed, Malformed, Refused} :
           /\ m.kind \in {"response", "malformed", "refused"}
           /\ m.to = None /\ m.id = 0 /\ m.notices = noticed
    BY DEF Unaddressed, Malformed, Refused
  <2>3. \E m \in {Unaddressed, Malformed, Refused} : stream' = Append(stream, m) /\ ~ended
    BY DEF SendUnusable, Send
  <2>4. QED
    BY <2>1, <2>2, <2>3
<1>a. AnswersInTransit' /\ (Refusal => Refusal')
  BY <1>0, AppendKeepsAnswers DEF SendUnusable, callVars, loopVars
<1>1. TypeOK'
  <2>1. stream' \in Seq(Messages)
    BY <1>0, AppendProperties DEF TypeOK
  <2>2. QED
    BY <2>1 DEF TypeOK, SendUnusable, callVars, loopVars
<1>2. Identifiers'
  BY DEF Identifiers, SendUnusable, callVars, loopVars
<1>3. OutboundLock'
  BY DEF OutboundLock, SendUnusable, callVars, loopVars
<1>4. Pendings'
  BY DEF Pendings, SendUnusable, callVars, loopVars
<1>5. Delivering'
  BY DEF Delivering, SendUnusable, callVars, loopVars
<1>6. Reachable'
  BY DEF Reachable, SendUnusable, callVars, loopVars
<1>7. Finished'
  BY <1>a DEF Finished, SendUnusable, callVars, loopVars
<1>8. Addresses'
  BY <1>0 DEF Addresses, Addressed, TypeOK, SendUnusable, callVars, loopVars
<1>9. AnswersInTransit'
  BY <1>a
<1>10. StreamOrder'
  BY <1>0, AppendKeepsOrder DEF TypeOK, SendUnusable, callVars, loopVars
<1>11. ReadOrder'
  BY DEF ReadOrder, SendUnusable, callVars, loopVars
<1>12. QED
  BY <1>1, <1>2, <1>3, <1>4, <1>5, <1>6, <1>7, <1>8, <1>9, <1>10, <1>11

\* The read loop takes the oldest message.
LEMMA ReadMessageKeeps ==
    ASSUME Inductive, ReadMessage
    PROVE  Inductive'
<1> USE ClientAssumption DEF Inductive
<1>1. TypeOK'
  <2>1. stream' \in Seq(Messages) /\ Head(stream) \in Messages
    BY HeadOfStream
  <2>2. CASE Head(stream).kind = "response"
    <3>1. Head(stream) \in Responses
      BY <2>1, <2>2 DEF Messages, Responses
    <3>2. inHand' \in Deliveries /\ pending' \subseteq Calls
      BY <2>2, <3>1 DEF TypeOK, ReadMessage, Pending, Deliveries
    <3>3. UNCHANGED handling /\ reading' = "delivering"
      BY <2>2 DEF ReadMessage
    <3>4. QED
      BY <2>1, <3>2, <3>3 DEF TypeOK, ReadMessage
  <2>3. CASE Head(stream).kind = "notification"
    <3>1. Head(stream).notices \in Nat
      BY <2>1 DEF Messages
    <3>2. handling' = Append(handling, Head(stream).notices) /\ UNCHANGED <<reading, inHand, pending>>
      BY <2>3 DEF ReadMessage
    <3>3. handling' \in Seq(Nat)
      BY <3>1, <3>2, AppendProperties DEF TypeOK
    <3>4. QED
      BY <2>1, <3>2, <3>3 DEF TypeOK, ReadMessage
  <2>4. CASE Head(stream).kind \notin {"response", "notification"}
    BY <2>1, <2>4 DEF TypeOK, ReadMessage
  <2>5. QED
    BY <2>2, <2>3, <2>4
<1>2. Identifiers'
  BY DEF Identifiers, ReadMessage, Pending
<1>3. OutboundLock'
  BY DEF OutboundLock, ReadMessage, Pending
<1>4. Pendings'
  BY DEF Pendings, ReadMessage, Pending
<1>5. Delivering'
  <2>1. CASE Head(stream).kind = "response"
    <3>1. /\ inHand' = [message |-> Head(stream), for |-> Pending(Head(stream).id)]
          /\ pending' = pending \ Pending(Head(stream).id)
          /\ UNCHANGED <<id, channel, released>>
      BY <2>1 DEF ReadMessage
    <3>2. QED
      BY <3>1 DEF Delivering, Pendings, Pending
  <2>2. CASE Head(stream).kind # "response"
    <3>1. reading' = "reading"
      BY <2>2 DEF ReadMessage
    <3>2. QED
      BY <3>1 DEF Delivering
  <2>3. QED
    BY <2>1, <2>2
<1>6. Reachable'
  <2>1. CASE Head(stream).kind = "response"
    <3>1. /\ inHand' = [message |-> Head(stream), for |-> Pending(Head(stream).id)]
          /\ pending' = pending \ Pending(Head(stream).id)
          /\ reading' = "delivering"
          /\ UNCHANGED <<at, channel, released>>
      BY <2>1 DEF ReadMessage
    <3>2. QED
      BY <3>1 DEF Reachable, ReadMessage
  <2>2. CASE Head(stream).kind # "response"
    <3>1. UNCHANGED <<at, reading, inHand, pending, channel, released>>
      BY <2>2 DEF ReadMessage
    <3>2. QED
      BY <3>1 DEF Reachable
  <2>3. QED
    BY <2>1, <2>2
<1>7. Finished'
  BY DEF Finished, Refusal, ReadMessage, Pending
<1>8. Addresses'
  <2>1. /\ Addressed(Head(stream))
        /\ \A i \in DOMAIN stream' : i + 1 \in DOMAIN stream /\ stream'[i] = stream[i + 1]
    BY HeadOfStream
  <2>2. UNCHANGED <<id, channel, result, got>>
    BY DEF ReadMessage
  <2>3. reading' = "delivering" => inHand'.message = Head(stream)
    BY DEF ReadMessage
  <2>4. QED
    BY <2>1, <2>2, <2>3 DEF Addresses, Addressed
<1>9. AnswersInTransit'
  <2>1. /\ stream # <<>> /\ Head(stream) = stream[1] /\ Addressed(Head(stream))
        /\ \A i \in DOMAIN stream : i # 1 => i - 1 \in DOMAIN stream' /\ stream'[i - 1] = stream[i]
    BY HeadOfStream
  <2>2. UNCHANGED <<answered, released, result, ended, done>> /\ pending' \subseteq pending
    BY DEF ReadMessage
  <2>3. ASSUME NEW c \in pending' \cap answered'
        PROVE  \E i \in DOMAIN stream' : stream'[i].kind \in {"response", "refused"} /\ stream'[i].to = c
    <3>1. PICK i \in DOMAIN stream : stream[i].kind \in {"response", "refused"} /\ stream[i].to = c
      BY <2>2, <2>3 DEF AnswersInTransit
    <3>2. i # 1
      <4>1. SUFFICES ASSUME i = 1 PROVE FALSE
        OBVIOUS
      <4>a. stream[1].kind = "response"
        BY <2>1, <3>1, <4>1 DEF ReadMessage, Unreadable
      <4>2. pending' = pending \ Pending(stream[1].id)
        BY <2>1, <4>a DEF ReadMessage
      <4>3. id[c] = stream[1].id
        BY <2>1, <2>2, <2>3, <3>1, <4>1 DEF Addressed, TypeOK
      <4>4. QED
        BY <2>2, <2>3, <4>2, <4>3 DEF Pending
    <3>3. QED
      BY <2>1, <3>1, <3>2
  <2>4. released = {} /\ ~done
    BY DEF Finished, ReadMessage
  <2>5. \A i \in DOMAIN stream' : stream'[i].kind = "torn" => ended /\ i = Len(stream')
    BY HeadOfStream DEF AnswersInTransit
  <2>6. QED
    BY <2>2, <2>3, <2>4, <2>5 DEF AnswersInTransit
<1>10. StreamOrder'
  <2>1. /\ Len(stream') = Len(stream) - 1 /\ Len(stream) \in Nat \ {0}
        /\ \A i \in DOMAIN stream' : i + 1 \in DOMAIN stream /\ stream'[i] = stream[i + 1]
        /\ DOMAIN stream' = 1..Len(stream') /\ DOMAIN stream = 1..Len(stream)
    BY HeadOfStream
  <2>2. Len(handled') + Len(handling') = stream[1].notices
    BY HeadOfStream
  <2>3. \A i \in 1..Len(stream) : Before(i)' = Before(i + 1)
    BY <2>1, <2>2 DEF Before
  <2>4. UNCHANGED <<handled, noticed>>
    BY DEF ReadMessage
  <2>5. ASSUME NEW i \in DOMAIN stream'
        PROVE  stream'[i].notices = Before(i)' + (IF stream'[i].kind = "notification" THEN 1 ELSE 0)
    <3>1. i + 1 \in DOMAIN stream /\ stream'[i] = stream[i + 1] /\ i \in 1..Len(stream)
      BY <2>1, <2>5
    <3>2. QED
      BY <2>3, <3>1 DEF StreamOrder
  <2>6. noticed = (Before(Len(stream) + 1))'
    <3>1. noticed = stream[Len(stream)].notices
      BY <2>1 DEF StreamOrder, Before
    <3>2. CASE Len(stream) = 1
      BY <2>1, <2>2, <3>1, <3>2 DEF Before
    <3>3. CASE Len(stream) # 1
      <4>1. Len(stream') \in DOMAIN stream' /\ Len(stream') + 1 = Len(stream)
        BY <2>1, <3>3
      <4>2. stream'[Len(stream')] = stream[Len(stream)]
        BY <2>1, <4>1
      <4>3. QED
        BY <2>1, <3>1, <3>3, <4>1, <4>2 DEF Before
    <3>4. QED
      BY <3>2, <3>3
  <2>7. /\ Len(handling') <= 1
        /\ handling' # <<>> => handling'[1] = Len(handled') + 1 /\ reading' = "reading"
    BY HeadOfStream
  <2>8. QED
    BY <2>4, <2>5, <2>6, <2>7 DEF StreamOrder
<1>11. ReadOrder'
  <2>1. reading' = "delivering" => inHand'.message.notices <= Len(handled')
    BY HeadOfStream
  <2>2. UNCHANGED <<handled, channel, result, got>>
    BY DEF ReadMessage
  <2>3. QED
    BY <2>1, <2>2 DEF ReadOrder
<1>12. QED
  BY <1>1, <1>2, <1>3, <1>4, <1>5, <1>6, <1>7, <1>8, <1>9, <1>10, <1>11

\* The read loop hands a response to its call.
LEMMA DeliverKeeps ==
    ASSUME Inductive, Deliver
    PROVE  Inductive'
<1> USE ClientAssumption DEF Inductive
<1>1. TypeOK'
  <2>1. inHand.message \in Responses /\ inHand.for \subseteq Calls
    BY DEF TypeOK, Deliveries, Deliver
  <2>2. \A c \in Calls : Append(channel[c], inHand.message) \in Seq(Responses)
    BY <2>1, AppendProperties DEF TypeOK
  <2>3. channel' \in [Calls -> Seq(Responses)]
    BY <2>2 DEF TypeOK, Deliver
  <2>4. QED
    BY <2>3 DEF TypeOK, Deliver, engineVars
<1>2. Identifiers'
  BY DEF Identifiers, Deliver, engineVars
<1>3. OutboundLock'
  BY DEF OutboundLock, Deliver, engineVars
<1>4. Pendings'
  BY DEF Pendings, Delivering, Identifiers, TypeOK, Deliver, engineVars
<1>5. Delivering'
  BY DEF Delivering, Deliver, engineVars
<1>6. Reachable'
  <2>1. inHand.message \in Responses /\ channel \in [Calls -> Seq(Responses)]
    BY DEF TypeOK, Deliveries, Deliver
  <2>2. \A d \in Calls : d \in inHand.for => channel'[d] # <<>>
    BY <2>1, AppendProperties DEF Deliver
  <2>3. \A d \in Calls \ inHand.for : channel'[d] = channel[d]
    BY DEF Deliver
  <2>4. QED
    BY <2>2, <2>3 DEF Reachable, Deliver
<1>7. Finished'
  BY DEF Finished, Refusal, Deliver, engineVars
<1>8. Addresses'
  <2>1. /\ inHand.message \in Responses /\ inHand.for \subseteq Calls
        /\ \A d \in inHand.for : id[d] = inHand.message.id /\ id[d] # 0 /\ channel[d] = <<>>
        /\ Addressed(inHand.message)
    BY DEF TypeOK, Deliveries, Delivering, Addresses, Deliver
  <2>2. \A d \in inHand.for : inHand.message.to = d
    BY <2>1 DEF Addressed, Identifiers, Responses
  <2>3. ASSUME NEW d \in Calls, NEW i \in DOMAIN channel'[d] PROVE channel'[d][i].to = d
    <3>1. CASE d \in inHand.for
      <4>1. channel'[d] = Append(<<>>, inHand.message)
        BY <2>1, <3>1 DEF Deliver
      <4>2. QED
        BY <2>2, <2>3, <3>1, <4>1
    <3>2. CASE d \notin inHand.for
      BY <2>3, <3>2 DEF Deliver, Addresses
    <3>3. QED
      BY <3>1, <3>2
  <2>4. QED
    BY <2>3 DEF Addresses, Addressed, Deliver, engineVars
<1>9. AnswersInTransit'
  BY DEF AnswersInTransit, LostBehindError, Deliver, engineVars
<1>10. StreamOrder'
  BY DEF StreamOrder, Before, Deliver, engineVars
<1>11. ReadOrder'
  <2>1. inHand.message.notices <= Len(handled)
    BY DEF ReadOrder, Deliver
  <2>2. ASSUME NEW d \in Calls, NEW i \in DOMAIN channel'[d]
        PROVE  channel'[d][i].notices <= Len(handled)
    <3>1. CASE d \in inHand.for
      <4>1. channel'[d] = Append(<<>>, inHand.message)
        BY <3>1 DEF Delivering, Deliver
      <4>2. QED
        BY <2>1, <2>2, <4>1
    <3>2. CASE d \notin inHand.for
      BY <2>2, <3>2 DEF Deliver, ReadOrder
    <3>3. QED
      BY <3>1, <3>2
  <2>3. QED
    BY <2>2 DEF ReadOrder, Deliver
<1>12. QED
  BY <1>1, <1>2, <1>3, <1>4, <1>5, <1>6, <1>7, <1>8, <1>9, <1>10, <1>11

\* The handlers of a notification return.
LEMMA HandleKeeps ==
    ASSUME Inductive, NEW i \in DOMAIN handling, Handle(i)
    PROVE  Inductive'
<1> USE ClientAssumption DEF Inductive
<1>1. TypeOK'
  <2>1. /\ handled \in Seq(Nat) /\ Len(handled) + 1 \in Nat
        /\ handling' = <<>> /\ handled' = Append(handled, Len(handled) + 1) /\ Len(handling) = 1
    BY HandleEffect DEF TypeOK
  <2>2. handling' \in Seq(Nat) /\ handled' \in Seq(Nat)
    BY <2>1, AppendProperties, EmptySeq
  <2>3. QED
    BY <2>2 DEF TypeOK, Handle, callVars, engineVars
<1>2. Identifiers'
  BY DEF Identifiers, Handle, callVars, engineVars
<1>3. OutboundLock'
  BY DEF OutboundLock, Handle, callVars, engineVars
<1>4. Pendings'
  BY DEF Pendings, Handle, callVars, engineVars
<1>5. Delivering'
  BY DEF Delivering, Handle, callVars, engineVars
<1>6. Reachable'
  BY DEF Reachable, Handle, callVars, engineVars
<1>7. Finished'
  BY DEF Finished, Refusal, Handle, callVars, engineVars
<1>8. Addresses'
  BY DEF Addresses, Addressed, Handle, callVars, engineVars
<1>9. AnswersInTransit'
  BY DEF AnswersInTransit, LostBehindError, Handle, callVars, engineVars
<1>10. StreamOrder'
  <2>1. /\ handled \in Seq(Nat) /\ Len(handled) + 1 \in Nat
        /\ handling' = <<>> /\ handled' = Append(handled, Len(handled) + 1) /\ Len(handling) = 1
    BY HandleEffect DEF TypeOK
  <2>2. /\ handling' = <<>> /\ Len(handled') = Len(handled) + Len(handling)
        /\ \A j \in 1..Len(handled) : handled'[j] = handled[j]
        /\ handled'[Len(handled) + 1] = Len(handled) + 1
    BY <2>1, AppendProperties
  <2>3. \A j \in DOMAIN handled' : handled'[j] = j
    BY <2>1, <2>2, HandleEffect DEF StreamOrder
  <2>4. Len(handled') + Len(handling') = Len(handled) + Len(handling)
    BY <2>1, <2>2, HandleEffect
  <2>5. UNCHANGED <<stream, noticed, reading>>
    BY DEF Handle, engineVars
  <2>6. QED
    BY <2>2, <2>3, <2>4, <2>5 DEF StreamOrder, Before
<1>11. ReadOrder'
  <2>1. handled \in Seq(Nat) /\ Len(handled') = Len(handled) + 1
    BY HandleEffect DEF TypeOK
  <2>2. \A m \in Responses : m.notices <= Len(handled) => m.notices <= Len(handled')
    BY <2>1 DEF Responses
  <2>3. reading = "delivering" => inHand.message \in Responses
    BY DEF TypeOK, Deliveries
  <2>4. \A c \in Calls : \A j \in DOMAIN channel[c] : channel[c][j] \in Responses
    BY ElementOfSeq DEF TypeOK
  <2>5. UNCHANGED <<reading, inHand, channel, result, got>>
    BY DEF Handle, callVars
  <2>6. QED
    BY <2>2, <2>3, <2>4, <2>5 DEF ReadOrder, Addresses
<1>12. QED
  BY <1>1, <1>2, <1>3, <1>4, <1>5, <1>6, <1>7, <1>8, <1>9, <1>10, <1>11

\* The read loop ends and closes what is pending.
LEMMA FinishKeeps ==
    ASSUME Inductive, Finish
    PROVE  Inductive'
<1> USE ClientAssumption DEF Inductive
<1>0. \/ ended
      \/ readErr' = "framing" /\ stream # <<>> /\ Head(stream).kind = "refused"
  <2>1. ASSUME stream # <<>>, Head(stream).kind = "torn" PROVE ended
    <3>1. Head(stream) = stream[1] /\ 1 \in DOMAIN stream
      BY <2>1, EmptySeq DEF TypeOK
    <3>2. QED
      BY <2>1, <3>1 DEF AnswersInTransit
  <2>2. QED
    BY <2>1 DEF Finish, ReadError, Unreadable
<1>1. TypeOK'
  BY DEF TypeOK, Responses, Messages, Finish, ReadError, engineVars
<1>2. Identifiers'
  BY DEF Identifiers, Finish, engineVars
<1>3. OutboundLock'
  BY DEF OutboundLock, Finish, engineVars
<1>4. Pendings'
  BY DEF Pendings, Finished, Identifiers, TypeOK, Finish, engineVars
<1>5. Delivering'
  BY DEF Delivering, Finish, engineVars
<1>6. Reachable'
  BY DEF Reachable, Finish, engineVars
<1>7. Finished'
  <2>1. ended \/ Refusal'
    BY <1>0 DEF Refusal, Finish, engineVars
  <2>2. QED
    BY <2>1 DEF Finished, Finish, engineVars
<1>8. Addresses'
  BY DEF Addresses, Addressed, Finish, engineVars
<1>9. AnswersInTransit'
  <2>1. /\ pending' = {} /\ released' = pending /\ done' /\ ~done
        /\ UNCHANGED <<stream, result, answered, ended>>
    BY DEF Finished, Finish, engineVars
  <2>2. \A c \in pending \cap answered : LostBehindError(c)'
    <3>1. SUFFICES ASSUME NEW c \in pending \cap answered PROVE LostBehindError(c)'
      OBVIOUS
    <3>2. PICK i \in DOMAIN stream : stream[i].kind \in {"response", "refused"} /\ stream[i].to = c
      BY <3>1 DEF AnswersInTransit
    <3>3. stream # <<>> /\ Head(stream).kind # "torn"
      <4>1. stream \in Seq(Messages) /\ stream # <<>> /\ Head(stream) = stream[1] /\ 1 \in DOMAIN stream
        BY <3>2, EmptySeq DEF TypeOK
      <4>2. ASSUME stream[1].kind = "torn" PROVE FALSE
        <5>1. Len(stream) = 1
          BY <4>1, <4>2 DEF AnswersInTransit
        <5>2. i = 1
          BY <3>2, <4>1, <5>1
        <5>3. QED
          BY <3>2, <4>2, <5>2
      <4>3. QED
        BY <4>1, <4>2
    <3>4. readErr' = "framing" /\ Head(stream).kind = "refused"
      BY <3>3 DEF Finish, ReadError, Unreadable
    <3>5. QED
      BY <2>1, <3>2, <3>3, <3>4 DEF LostBehindError
  <2>3. QED
    BY <2>1, <2>2 DEF AnswersInTransit
<1>10. StreamOrder'
  BY DEF StreamOrder, Before, Finish, engineVars
<1>11. ReadOrder'
  BY DEF ReadOrder, Finish, engineVars
<1>12. QED
  BY <1>1, <1>2, <1>3, <1>4, <1>5, <1>6, <1>7, <1>8, <1>9, <1>10, <1>11

\* The engine's output ends, between two frames or in the middle of one.
LEMMA EndOutputKeeps ==
    ASSUME Inductive, EndOutput
    PROVE  Inductive'
<1> USE ClientAssumption DEF Inductive
<1>1. CASE stream' = stream
  <2>1. UNCHANGED <<at, id, nextID, pending, channel, released, expired, result, got, writer,
                    loopVars, received, answered, noticed, stream, hungUp>> /\ ended'
    BY <1>1 DEF EndOutput, callVars
  <2>2. TypeOK' /\ Identifiers' /\ OutboundLock' /\ Pendings' /\ Delivering' /\ Reachable'
    BY <2>1 DEF TypeOK, Identifiers, OutboundLock, Pendings, Delivering, Reachable, EndOutput, loopVars
  <2>3. Finished' /\ Addresses' /\ StreamOrder' /\ ReadOrder'
    BY <2>1 DEF Finished, Refusal, Addresses, Addressed, StreamOrder, Before, ReadOrder, loopVars
  <2>4. AnswersInTransit'
    BY <2>1 DEF AnswersInTransit, LostBehindError, loopVars
  <2>5. QED
    BY <2>2, <2>3, <2>4
<1>2. CASE stream' = Append(stream, Torn)
  <2>1. /\ UNCHANGED <<at, id, nextID, pending, channel, released, expired, result, got, writer,
                       loopVars, received, answered, noticed, hungUp>>
        /\ ended' /\ ~ended
    BY DEF EndOutput, callVars
  <2>2. Torn \in Messages
    BY DEF Torn, Messages, TypeOK
  <2>3. stream' \in Seq(Messages)
    BY <1>2, <2>2, AppendProperties DEF TypeOK
  <2>4. TypeOK' /\ Identifiers' /\ OutboundLock' /\ Pendings' /\ Delivering' /\ Reachable' /\ ReadOrder'
    BY <2>1, <2>3 DEF TypeOK, Identifiers, OutboundLock, Pendings, Delivering, Reachable, ReadOrder,
                      EndOutput, loopVars
  <2>5. AnswersInTransit'
    BY <1>2, <2>1, <2>2, AppendKeepsAnswers DEF loopVars
  <2>6. Finished'
    BY <2>1 DEF Finished, loopVars
  <2>7. Addresses'
    BY <1>2, <2>1 DEF Addresses, Addressed, TypeOK, Torn, loopVars
  <2>8. StreamOrder'
    <3>1. Torn.notices = noticed /\ Torn.kind = "torn" /\ noticed \in Nat
      BY DEF Torn, TypeOK
    <3>2. noticed' = Torn.notices /\ Torn.notices = noticed + 0
      BY <2>1, <3>1
    <3>3. QED
      BY <1>2, <2>1, <2>2, <3>1, <3>2, AppendKeepsOrder DEF loopVars
  <2>9. QED
    BY <2>4, <2>5, <2>6, <2>7, <2>8
<1>3. QED
  BY <1>1, <1>2 DEF EndOutput

\* The steps of the environment that only set a flag keep the invariant.
LEMMA FlagsKeep ==
    ASSUME Inductive, Close \/ (\E c \in Calls : Expire(c)) \/ UNCHANGED vars
    PROVE  Inductive'
<1>1. /\ UNCHANGED <<at, id, nextID, pending, channel, released, result, got, writer, loopVars,
                     received, answered, noticed, stream, ended>>
      /\ hungUp' \in BOOLEAN /\ expired' \subseteq Calls
  BY DEF Inductive, TypeOK, Close, Expire, vars, callVars, loopVars, engineVars
<1>2. TypeOK'
  BY <1>1 DEF Inductive, TypeOK, loopVars
<1>3. Identifiers' /\ OutboundLock' /\ Pendings' /\ Delivering' /\ Reachable' /\ Finished'
  BY <1>1 DEF Inductive, Identifiers, OutboundLock, Pendings, Delivering, Reachable, Finished, Refusal, loopVars
<1>4. Addresses' /\ AnswersInTransit' /\ StreamOrder' /\ ReadOrder'
  BY <1>1 DEF Inductive, Addresses, Addressed, AnswersInTransit, LostBehindError,
            StreamOrder, Before, ReadOrder, loopVars
<1>5. QED
  BY <1>2, <1>3, <1>4 DEF Inductive

-----------------------------------------------------------------------------

\* The invariant holds of a client that has just been made.
LEMMA InitInductive == Init => Inductive
<1> SUFFICES ASSUME Init PROVE Inductive
  OBVIOUS
<1>1. TypeOK
  <2>1. <<>> \in Seq(Responses) /\ <<>> \in Seq(Messages) /\ <<>> \in Seq(Nat)
    BY EmptySeq
  <2>2. QED
    BY <2>1 DEF Init, TypeOK
<1>2. Identifiers /\ OutboundLock /\ Pendings /\ Delivering /\ Reachable /\ Finished
  BY ClientAssumption
     DEF Init, Identifiers, OutboundLock, Pendings, Delivering, Reachable, Finished
<1>3. Addresses /\ AnswersInTransit /\ StreamOrder /\ ReadOrder
  BY EmptySeq DEF Init, Addresses, AnswersInTransit, StreamOrder, Before, ReadOrder
<1>4. QED
  BY <1>1, <1>2, <1>3 DEF Inductive

\* Every step keeps it.
LEMMA NextInductive == Inductive /\ [Next]_vars => Inductive'
<1> SUFFICES ASSUME Inductive, [Next]_vars PROVE Inductive'
  OBVIOUS
<1>1. CASE \E c \in Calls : Caller(c)
  BY <1>1, RegisterKeeps, BeginWriteKeeps, SendFailsKeeps, ReceiveAnswerKeeps, ReceiveClosedKeeps,
     GiveUpKeeps, UnregisterKeeps DEF Caller
<1>2. CASE ReadLoop
  BY <1>2, ReadMessageKeeps, DeliverKeeps, HandleKeeps, FinishKeeps DEF ReadLoop
<1>3. CASE Receive \/ (\E c \in Calls : Answer(c)) \/ Notify \/ SendUnusable
  BY <1>3, ReceiveKeeps, AnswerKeeps, NotifyKeeps, SendUnusableKeeps
<1>4. CASE EndOutput
  BY <1>4, EndOutputKeeps
<1>5. CASE Close \/ (\E c \in Calls : Expire(c)) \/ UNCHANGED vars
  BY <1>5, FlagsKeep
<1>6. QED
  BY <1>1, <1>2, <1>3, <1>4, <1>5 DEF Next, Engine, Terminated

\* The invariant holds in every state the client can be in.
THEOREM ClientInvariant == Spec => []Inductive
<1>1. QED
  BY InitInductive, NextInductive, PTL DEF Spec

-----------------------------------------------------------------------------

\* Type correctness of the client and its connection.
THEOREM ClientTypeCorrect == Spec => []TypeOK
<1>1. Inductive => TypeOK
  BY DEF Inductive
<1>2. QED
  BY <1>1, ClientInvariant, PTL

\* A call that returns an answer returns the answer to its own request, in whatever
\* order the engine answers and whichever calls gave up: register, deliver, unregister.
THEOREM AnswersAreOwn == Spec => []OwnAnswer
<1>1. Inductive => OwnAnswer
  BY DEF Inductive, Addresses, OwnAnswer
<1>2. QED
  BY <1>1, ClientInvariant, PTL

\* ErrClientClosed is returned only for requests the engine never answered, or whose answer
\* the reader refused or never came to because it refused a frame before it: finish runs
\* after everything that could be read has been delivered.
THEOREM ClosedMeansUnread == Spec => []ClosedOnlyUnread
<1>1. Inductive => ClosedOnlyUnread
  BY DEF Inductive, AnswersInTransit, ClosedOnlyUnread
<1>2. QED
  BY <1>1, ClientInvariant, PTL

\* Once the read loop has ended no call waits on a channel nobody will use: register
\* and finish exclude each other.
THEOREM NobodyStranded == Spec => []NoCallStranded
<1>1. Inductive => NoCallStranded
  BY DEF Inductive, Reachable, Finished, NoCallStranded
<1>2. QED
  BY <1>1, ClientInvariant, PTL

\* Handlers run in arrival order and before the calls whose answers follow: notify
\* and deliver run on the read loop.
THEOREM NoticesPrecedeAnswers == Spec => []NoticesBeforeAnswer
<1>1. Inductive => NoticesBeforeAnswer
  BY DEF Inductive, StreamOrder, ReadOrder, NoticesBeforeAnswer
<1>2. QED
  BY <1>1, ClientInvariant, PTL
============================================================================
