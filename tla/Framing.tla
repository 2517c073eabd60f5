------------------------------ MODULE Framing ------------------------------
(***************************************************************************)
(* Content-Length framing (internal/protocol/framing.go) from the writers  *)
(* of one end to what the other end makes of the end of the stream         *)
(* (Serve and Client.finish).                                              *)
(*                                                                         *)
(* The stream is a sequence of units: header lines, the blank line, and    *)
(* the bytes of payloads, each tagged with its frame and position.  The    *)
(* stream may be cut between any two units or inside a line.  An error is  *)
(* the set of the sentinel errors that errors.Is finds in it.              *)
(***************************************************************************)
EXTENDS Naturals, Sequences, FiniteSets

CONSTANTS
    Writers,    \* goroutines with one frame each to write
    MaxPayload, \* bound: bytes in a payload
    None

ASSUME FramingAssumption == None \notin Writers /\ MaxPayload \in Nat

VARIABLES
    frame,      \* the header lines and payload length of each writer's frame
    mutex,      \* the writer holding FrameWriter.mu
    unwritten,  \* units of its frame a writer has still to write
    order,      \* frames in the order their writers took the lock
    input,      \* units on their way to the reader
    cut,        \* the stream has ended
    phase,      \* the reader: headers, payload, ended
    length,     \* the declared length, NoLength when none was seen
    sawHeader,  \* a header line of the frame was read
    payload,    \* bytes of the frame read so far
    delivered,  \* the payloads Read returned
    failure,    \* the error Read returned
    ending      \* how the session took the end: running, clean, failed

writerVars == <<frame, mutex, unwritten, order>>
readerVars == <<phase, length, sawHeader, payload, delivered, failure>>
vars == <<writerVars, input, cut, readerVars, ending>>

-----------------------------------------------------------------------------

Line(kind, n) == [kind |-> kind, declares |-> n, of |-> None, index |-> 0]
ContentLength(n) == Line("length", n)
Other   == Line("other", 0)       \* a header this version ignores
BadSize == Line("badLength", 0)   \* not a number, negative, or above MaxFrameBytes
NoColon == Line("noColon", 0)
Blank   == Line("blank", 0)
Torn    == Line("torn", 0)        \* a line the end of the stream cut short

Byte(w, i) == [kind |-> "byte", declares |-> 0, of |-> w, index |-> i]

Payload(w) == [i \in 1..frame[w].size |-> Byte(w, i)]

\* The headers a peer may send before a payload of n bytes.  FrameWriter sends the
\* first; a peer that is not this program may send any.
HeadersFor(n) ==
    {<<ContentLength(n)>>, <<Other, ContentLength(n)>>, <<ContentLength(n), Other>>,
     <<Other>>, <<ContentLength(n), ContentLength(n)>>, <<BadSize>>, <<NoColon>>}

FrameChoices == UNION {[headers : HeadersFor(n), size : {n}] : n \in 0..MaxPayload}

Units(w) == frame[w].headers \o <<Blank>> \o Payload(w)

\* -1 in the code.
NoLength == MaxPayload + 1

Init ==
    /\ frame \in [Writers -> FrameChoices]
    /\ mutex = None
    /\ unwritten = [w \in Writers |-> Units(w)]
    /\ order = <<>>
    /\ input = <<>>
    /\ cut = FALSE
    /\ phase = "headers"
    /\ length = NoLength
    /\ sawHeader = FALSE
    /\ payload = <<>>
    /\ delivered = <<>>
    /\ failure = {}
    /\ ending = "running"

-----------------------------------------------------------------------------
(* FrameWriter.Write.  The transport takes the frame piecemeal.            *)

\* Mutant of Lock: frames are written without the mutex.
Lock_Never(w) ==
    /\ unwritten[w] = Units(w)
    /\ ~cut
    /\ mutex' = w
    /\ order' = Append(order, w)
    /\ UNCHANGED <<frame, unwritten, input, cut, readerVars, ending>>

Lock(w) ==
    /\ unwritten[w] = Units(w)
    /\ ~cut
    /\ mutex = None
    /\ mutex' = w
    /\ order' = Append(order, w)
    /\ UNCHANGED <<frame, unwritten, input, cut, readerVars, ending>>

WriteUnit(w) ==
    /\ mutex = w
    /\ ~cut
    /\ unwritten[w] # <<>>
    /\ input' = Append(input, Head(unwritten[w]))
    /\ unwritten' = [unwritten EXCEPT ![w] = Tail(@)]
    /\ UNCHANGED <<frame, mutex, order, cut, readerVars, ending>>

Unlock(w) ==
    /\ mutex = w
    /\ cut \/ unwritten[w] = <<>>
    /\ mutex' = None
    /\ UNCHANGED <<frame, unwritten, order, input, cut, readerVars, ending>>

\* The peer dies or closes its end, maybe in the middle of a line.
Cut ==
    /\ ~cut
    /\ cut' = TRUE
    /\ \/ UNCHANGED input
       \/ /\ mutex # None
          /\ unwritten[mutex] # <<>>
          /\ Head(unwritten[mutex]).kind # "byte"
          /\ input' = Append(input, Torn)
    /\ UNCHANGED <<writerVars, readerVars, ending>>

-----------------------------------------------------------------------------
(* FrameReader.Read.                                                       *)

Unit == Head(input)

Refuse(errors) ==
    /\ phase' = "ended"
    /\ failure' = errors
    /\ UNCHANGED <<length, sawHeader, payload, delivered>>

\* Mutant of HeaderLine: the length must be the last header.
HeaderLine_LastWins ==
    /\ sawHeader' = TRUE
    /\ UNCHANGED <<phase, payload, delivered, failure>>
    /\ \/ Unit.kind = "other" /\ length' = NoLength
       \/ Unit.kind = "length" /\ length = NoLength /\ length' = Unit.declares

\* A complete header line; the checks in the order of the code.
HeaderLine ==
    /\ sawHeader' = TRUE
    /\ UNCHANGED <<phase, payload, delivered, failure>>
    /\ \/ Unit.kind = "other" /\ UNCHANGED length
       \/ Unit.kind = "length" /\ length = NoLength /\ length' = Unit.declares

RefusedLine ==
    \/ Unit.kind \in {"noColon", "badLength"}
    \/ Unit.kind = "length" /\ length # NoLength

BlankLine ==
    IF length = NoLength
    THEN Refuse({"ErrFraming"})
    ELSE /\ phase' = "payload"
         /\ UNCHANGED <<length, sawHeader, payload, delivered, failure>>

ReadLine ==
    /\ phase = "headers"
    /\ input # <<>>
    /\ Unit.kind # "torn"
    /\ input' = Tail(input)
    /\ IF RefusedLine
       THEN Refuse({"ErrFraming"})
       ELSE IF Unit.kind = "blank" THEN BlankLine ELSE HeaderLine
    /\ UNCHANGED <<writerVars, cut, ending>>

\* ReadString meets the end of the stream: io.EOF alone at the start of a frame,
\* wrapped together with ErrFraming anywhere else.
HeadersEnd ==
    /\ phase = "headers"
    /\ cut
    /\ \/ input = <<>> /\ Refuse(IF sawHeader THEN {"ErrFraming", "EOF"} ELSE {"EOF"})
       \/ input = <<Torn>> /\ Refuse({"ErrFraming", "EOF"})
    /\ UNCHANGED <<writerVars, input, cut, ending>>

\* io.ReadFull.
ReadByte ==
    /\ phase = "payload"
    /\ Len(payload) < length
    /\ input # <<>>
    /\ payload' = Append(payload, Unit)
    /\ input' = Tail(input)
    /\ UNCHANGED <<writerVars, cut, phase, length, sawHeader, delivered, failure, ending>>

\* Mutant of PayloadEnds: Read is used for ReadFull, which returns what there is.
PayloadEnds_Short ==
    /\ phase = "payload"
    /\ Len(payload) < length
    /\ cut /\ input = <<>>
    /\ delivered' = Append(delivered, payload)
    /\ phase' = "headers"
    /\ length' = NoLength
    /\ sawHeader' = FALSE
    /\ payload' = <<>>
    /\ UNCHANGED <<writerVars, input, cut, failure, ending>>

\* io.ReadFull reports io.EOF when it read nothing, io.ErrUnexpectedEOF otherwise.
PayloadEnds ==
    /\ phase = "payload"
    /\ Len(payload) < length
    /\ cut /\ input = <<>>
    /\ Refuse({"ErrFraming", IF payload = <<>> THEN "EOF" ELSE "ErrUnexpectedEOF"})
    /\ UNCHANGED <<writerVars, input, cut, ending>>

Return ==
    /\ phase = "payload"
    /\ Len(payload) = length
    /\ delivered' = Append(delivered, payload)
    /\ phase' = "headers"
    /\ length' = NoLength
    /\ sawHeader' = FALSE
    /\ payload' = <<>>
    /\ UNCHANGED <<writerVars, input, cut, failure, ending>>

\* Serve and Client.finish: errors.Is(err, io.EOF) is the end of input.
TakeEnd ==
    /\ phase = "ended"
    /\ ending = "running"
    /\ ending' = IF "EOF" \in failure THEN "clean" ELSE "failed"
    /\ UNCHANGED <<writerVars, input, cut, readerVars>>

Reader == ReadLine \/ HeadersEnd \/ ReadByte \/ PayloadEnds \/ Return \/ TakeEnd

-----------------------------------------------------------------------------

\* Nothing is left to do: the end was taken and no writer holds the lock.
Terminated ==
    /\ ending # "running"
    /\ mutex = None
    /\ UNCHANGED vars

Next ==
    \/ \E w \in Writers : Lock(w) \/ WriteUnit(w) \/ Unlock(w)
    \/ Cut
    \/ Reader
    \/ Terminated

Spec == Init /\ [][Next]_vars

\* The reader reads what there is; a writer that has the lock writes its frame.
FairSpec ==
    /\ Spec
    /\ WF_vars(Reader)
    /\ \A w \in Writers : WF_vars(WriteUnit(w)) /\ WF_vars(Unlock(w))

-----------------------------------------------------------------------------

\* A reader needs exactly one length, and ignores the headers it does not know.
WellFormed(w) ==
    LET headers == frame[w].headers
    IN  \E i \in DOMAIN headers :
            /\ headers[i].kind = "length"
            /\ \A j \in DOMAIN headers \ {i} : headers[j].kind = "other"

AnyUnit ==
    [kind : {"length", "other", "badLength", "noColon", "blank", "torn", "byte"},
     declares : 0..MaxPayload, of : Writers \cup {None}, index : 0..MaxPayload]

WriterTypes ==
    /\ frame \in [Writers -> FrameChoices]
    /\ mutex \in Writers \cup {None}
    /\ unwritten \in [Writers -> Seq(AnyUnit)]
    /\ order \in Seq(Writers)
    /\ cut \in BOOLEAN

ReaderTypes ==
    /\ input \in Seq(AnyUnit)
    /\ phase \in {"headers", "payload", "ended"}
    /\ length \in 0..NoLength
    /\ sawHeader \in BOOLEAN
    /\ payload \in Seq(AnyUnit)
    /\ delivered \in Seq(Seq(AnyUnit))
    /\ phase = "payload" => length # NoLength
    /\ failure \subseteq {"ErrFraming", "EOF", "ErrUnexpectedEOF"}
    /\ (failure # {}) <=> (phase = "ended")
    /\ ending \in {"running", "clean", "failed"}

TypeOK == WriterTypes /\ ReaderTypes

\* "Responses and notifications never interleave", "exactly one Content-Length
\* header": whatever the writers, the transport and the end of the stream do, Read
\* returns the payloads of well-formed frames, whole and in the order in which they
\* were written, and nothing after the first frame that is not.
FramesIntact ==
    \A i \in DOMAIN delivered :
        /\ i <= Len(order)
        /\ delivered[i] = Payload(order[i])
        /\ \A j \in 1..i : WellFormed(order[j])

\* A stream that is cut inside the bytes of a payload, or after a header that cannot be
\* resynchronised, is never taken for the end of input.
DamageIsReported ==
    ending = "clean" => \A i \in DOMAIN order :
        Len(unwritten[order[i]]) < frame[order[i]].size
            => i <= Len(delivered) /\ delivered[i] = Payload(order[i])

\* A frame that was written completely, and every frame before it, is read if they are
\* well formed.
WrittenFramesArrive ==
    \A w \in Writers :
        (/\ unwritten[w] = <<>>
         /\ \E i \in DOMAIN order : order[i] = w /\ \A j \in 1..i : WellFormed(order[j]))
            ~> (\E i \in DOMAIN delivered : order[i] = w)

\* "Read returns io.EOF only at a clean frame boundary": the session takes the end of
\* the stream for the end of input only if every frame that was begun has been read.
CleanEndOnlyAtBoundary ==
    ending = "clean" =>
        /\ input # <<Torn>>
        /\ \A i \in DOMAIN order :
              unwritten[order[i]] # Units(order[i]) => i <= Len(delivered)
============================================================================
