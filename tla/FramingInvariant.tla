-------------------------- MODULE FramingInvariant --------------------------
(***************************************************************************)
(* The inductive invariant behind the safety properties of Framing.  The   *)
(* frames lie one behind the other in a stream; the invariant says where   *)
(* in that stream the reader stands and which part of it is in the input.  *)
(***************************************************************************)
EXTENDS Framing

Length(w) == Len(Units(w))
Written(w) == Length(w) - Len(unwritten[w])
Headers(w) == Len(frame[w].headers)

\* A writer has the end of its frame still to write, and only the frame that was
\* begun last can be incomplete: the lock was given up before only at its end, or
\* when the stream was.
WritersInOrder ==
    /\ \A w \in Writers :
           /\ Len(unwritten[w]) <= Length(w)
           /\ \A i \in 1..Len(unwritten[w]) : unwritten[w][i] = Units(w)[Written(w) + i]
    /\ \A i \in 1..(Len(order) - 1) : unwritten[order[i]] = <<>>
    /\ mutex # None => order # <<>> /\ mutex = order[Len(order)]
    /\ mutex = None /\ ~cut => \A i \in 1..Len(order) : unwritten[order[i]] = <<>>

\* Before frame i of the stream are start[i] units.
Layout(start) ==
    /\ start[1] = 0
    /\ \A i \in 1..Len(order) : start[i + 1] = start[i] + Length(order[i])
    /\ \A i, j \in 1..(Len(order) + 1) : i < j => start[i] < start[j]

EndsTorn(units) == units # <<>> /\ units[Len(units)] = Torn

\* How many units were written whole.
Whole(units) == IF EndsTorn(units) THEN Len(units) - 1 ELSE Len(units)

\* The input is what was written behind the first read units of the stream.
InputFollows(start, read) ==
    /\ read + Whole(input) = IF order = <<>> THEN 0
                             ELSE start[Len(order)] + Written(order[Len(order)])
    /\ \A m \in 1..Whole(input), i \in 1..Len(order) :
           start[i] < read + m /\ read + m <= start[i + 1]
               => input[m] = Units(order[i])[read + m - start[i]]
    /\ EndsTorn(input) => /\ cut /\ order # <<>>
                          /\ Written(order[Len(order)]) <= Headers(order[Len(order)])

\* The reader has taken the first n headers of frame w, which name one length at most.
HeadersRead(w, n) ==
    /\ n <= Headers(w)
    /\ length = NoLength => \A i \in 1..n : frame[w].headers[i].kind = "other"
    /\ length # NoLength =>
          /\ length = frame[w].size
          /\ \E i \in 1..n : /\ frame[w].headers[i].kind = "length"
                             /\ \A j \in 1..n \ {i} : frame[w].headers[j].kind = "other"

\* The reader has taken the blank line and some bytes of frame w.
BytesRead(w) ==
    /\ WellFormed(w)
    /\ length = frame[w].size
    /\ Len(payload) <= length
    /\ \A i \in 1..Len(payload) : payload[i] = Byte(w, i)

\* The reader stands in the frame behind those it delivered.
ReaderFollows(start, read) ==
    LET begun == start[Len(delivered) + 1]
        w == order[Len(delivered) + 1]
    IN  /\ Len(delivered) <= Len(order)
        /\ begun <= read
        /\ begun < read => Len(delivered) < Len(order)
        /\ phase = "headers" =>
              /\ payload = <<>>
              /\ begun = read => length = NoLength
              /\ sawHeader <=> begun < read
              /\ begun < read => HeadersRead(w, read - begun)
        /\ phase = "payload" =>
              /\ begun < read
              /\ read = begun + Headers(w) + 1 + Len(payload)
              /\ BytesRead(w)

StreamFollowed ==
    phase # "ended" =>
        \E start \in [1..(Len(order) + 1) -> Nat], read \in Nat :
            Layout(start) /\ InputFollows(start, read) /\ ReaderFollows(start, read)

\* An end of the stream that is taken for the end of input is met where no frame that
\* was begun and not delivered has a byte of its payload in the stream.
EndIsBeforePayload ==
    /\ ending = "clean" => phase = "ended" /\ "EOF" \in failure
    /\ "EOF" \in failure =>
          /\ cut
          /\ \A i \in 1..Len(order) :
                 Len(unwritten[order[i]]) < frame[order[i]].size => i <= Len(delivered)

Inductive ==
    /\ TypeOK
    /\ WritersInOrder
    /\ StreamFollowed
    /\ EndIsBeforePayload
    /\ FramesIntact
=============================================================================
