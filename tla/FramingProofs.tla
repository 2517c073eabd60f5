---------------------------- MODULE FramingProofs ----------------------------
(***************************************************************************)
(* Theorems about Framing, for any number of writers and payloads of any   *)
(* length.                                                                 *)
(***************************************************************************)
EXTENDS FramingInvariant, SequenceTheorems, TLAPS

-----------------------------------------------------------------------------
(* The units of a frame.                                                   *)

HeaderKinds == {"length", "other", "badLength", "noColon"}

LEMMA LineTyped ==
    ASSUME NEW n \in 0..MaxPayload
    PROVE  /\ \A line \in {ContentLength(n), Other, BadSize, NoColon} :
                  /\ line \in AnyUnit /\ line.kind \in HeaderKinds
                  /\ line.kind = "length" => line.declares = n
           /\ Blank \in AnyUnit /\ Blank.kind = "blank"
           /\ Torn \in AnyUnit /\ Torn.kind = "torn"
<1>1. 0 \in 0..MaxPayload /\ None \in Writers \cup {None}
  BY FramingAssumption
<1>2. QED
  BY <1>1 DEF ContentLength, Other, BadSize, NoColon, Blank, Torn, Line, AnyUnit, HeaderKinds

LEMMA ByteTyped ==
    ASSUME NEW w \in Writers, NEW i \in 1..MaxPayload
    PROVE  Byte(w, i) \in AnyUnit /\ Byte(w, i).kind = "byte"
<1>1. i \in 0..MaxPayload /\ 0 \in 0..MaxPayload
  BY FramingAssumption
<1>2. QED
  BY <1>1 DEF Byte, AnyUnit

LEMMA HeadersShape ==
    ASSUME NEW n \in 0..MaxPayload, NEW h \in HeadersFor(n)
    PROVE  /\ h \in Seq(AnyUnit)
           /\ \A i \in 1..Len(h) : /\ h[i].kind \in HeaderKinds
                                   /\ h[i].kind = "length" => h[i].declares = n
<1> DEFINE lines == {ContentLength(n), Other, BadSize, NoColon}
<1>1. h \in Seq(lines)
  <2>1. ContentLength(n) \in lines /\ Other \in lines /\ BadSize \in lines /\ NoColon \in lines
    OBVIOUS
  <2> HIDE DEF lines
  <2>2. ASSUME NEW line \in lines PROVE <<line>> \in Seq(lines)
    OBVIOUS
  <2>3. ASSUME NEW line \in lines, NEW next \in lines PROVE <<line, next>> \in Seq(lines)
    OBVIOUS
  <2>4. HeadersFor(n) \subseteq Seq(lines)
    BY <2>1, <2>2, <2>3 DEF HeadersFor
  <2>5. QED
    BY <2>4
<1>2. lines \subseteq AnyUnit
  BY LineTyped
<1> HIDE DEF lines
<1>3. h \in Seq(AnyUnit)
  BY <1>1, <1>2
<1>4. \A i \in 1..Len(h) : h[i] \in lines
  BY <1>1, ElementOfSeq
<1>5. QED
  BY <1>3, <1>4, LineTyped DEF lines

LEMMA FrameShape ==
    ASSUME frame \in [Writers -> FrameChoices], NEW w \in Writers
    PROVE  /\ frame[w].size \in 0..MaxPayload
           /\ frame[w].headers \in Seq(AnyUnit)
           /\ Headers(w) \in Nat
           /\ \A i \in 1..Headers(w) :
                  /\ frame[w].headers[i].kind \in HeaderKinds
                  /\ frame[w].headers[i].kind = "length" => frame[w].headers[i].declares = frame[w].size
<1>1. PICK n \in 0..MaxPayload : frame[w] \in [headers : HeadersFor(n), size : {n}]
  BY DEF FrameChoices
<1>2. frame[w].size = n /\ frame[w].headers \in HeadersFor(n)
  BY <1>1
<1>3. QED
  BY <1>2, HeadersShape, LenProperties DEF Headers

\* The headers of a frame, its blank line, and the bytes of its payload.
LEMMA UnitsShape ==
    ASSUME frame \in [Writers -> FrameChoices], NEW w \in Writers
    PROVE  /\ Units(w) \in Seq(AnyUnit)
           /\ Length(w) = Headers(w) + 1 + frame[w].size
           /\ Length(w) \in Nat /\ Headers(w) \in Nat /\ frame[w].size \in Nat
           /\ Payload(w) \in Seq(AnyUnit) /\ Len(Payload(w)) = frame[w].size
           /\ \A i \in 1..Headers(w) : Units(w)[i] = frame[w].headers[i]
           /\ Units(w)[Headers(w) + 1] = Blank
           /\ \A i \in 1..frame[w].size : Units(w)[Headers(w) + 1 + i] = Byte(w, i)
<1> DEFINE h == frame[w].headers
           size == frame[w].size
<1>1. h \in Seq(AnyUnit) /\ Len(h) \in Nat /\ size \in 0..MaxPayload /\ size \in Nat
  <2>1. h \in Seq(AnyUnit) /\ size \in 0..MaxPayload
    BY FrameShape
  <2>2. Len(h) \in Nat
    BY <2>1, LenProperties
  <2>3. QED
    BY <2>1, <2>2, FramingAssumption
<1>2. /\ Payload(w) \in Seq(AnyUnit) /\ Len(Payload(w)) = size
      /\ \A i \in 1..size : Payload(w)[i] = Byte(w, i)
  <2>1. \A i \in 1..size : Byte(w, i) \in AnyUnit
    BY <1>1, ByteTyped, FramingAssumption
  <2>2. Payload(w) = [i \in 1..size |-> Byte(w, i)]
    BY DEF Payload
  <2> HIDE DEF size
  <2>3. Payload(w) \in [1..size -> AnyUnit] /\ DOMAIN Payload(w) = 1..size
    BY <2>1, <2>2
  <2>4. Payload(w) \in Seq(AnyUnit)
    BY <1>1, <2>3
  <2>5. Len(Payload(w)) = size
    BY <1>1, <2>3, <2>4, LenProperties
  <2>6. QED
    BY <2>2, <2>4, <2>5
<1>3. <<Blank>> \in Seq(AnyUnit) /\ Len(<<Blank>>) = 1 /\ <<Blank>>[1] = Blank
  <2>1. Blank \in AnyUnit
    BY LineTyped, <1>1
  <2>2. QED
    BY <2>1
<1> DEFINE front == h \o <<Blank>>
<1>4. /\ front \in Seq(AnyUnit) /\ Len(front) = Len(h) + 1
      /\ \A i \in 1..Len(h) : front[i] = h[i]
      /\ front[Len(h) + 1] = Blank
  <2> DEFINE b == <<Blank>>
  <2> HIDE DEF h, b
  <2>1. b \in Seq(AnyUnit) /\ Len(b) = 1 /\ b[1] = Blank
    BY <1>3 DEF b
  <2>2. /\ h \o b \in Seq(AnyUnit)
        /\ Len(h \o b) = Len(h) + Len(b)
        /\ \A i \in 1 .. Len(h) + Len(b) : (h \o b)[i] = IF i <= Len(h) THEN h[i] ELSE b[i - Len(h)]
    BY <1>1, <2>1, ConcatProperties
  <2>3. front = h \o b
    BY DEF b
  <2> HIDE DEF front
  <2>4. (h \o b)[Len(h) + 1] = b[1]
    BY <1>1, <2>1, <2>2
  <2>5. QED
    BY <1>1, <2>1, <2>2, <2>3, <2>4
<1>5. Units(w) = front \o Payload(w)
  BY DEF Units
<1> HIDE DEF h, size, front
<1>6. /\ Units(w) \in Seq(AnyUnit) /\ Len(Units(w)) = Len(front) + Len(Payload(w))
      /\ \A i \in 1 .. Len(front) + Len(Payload(w)) :
             Units(w)[i] = IF i <= Len(front) THEN front[i] ELSE Payload(w)[i - Len(front)]
  <2> DEFINE bytes == Payload(w)
  <2>1. front \in Seq(AnyUnit) /\ bytes \in Seq(AnyUnit)
    BY <1>2, <1>4
  <2> HIDE DEF bytes
  <2>2. /\ front \o bytes \in Seq(AnyUnit) /\ Len(front \o bytes) = Len(front) + Len(bytes)
        /\ \A i \in 1 .. Len(front) + Len(bytes) :
               (front \o bytes)[i] = IF i <= Len(front) THEN front[i] ELSE bytes[i - Len(front)]
    BY <2>1, ConcatProperties
  <2>3. Units(w) = front \o bytes /\ bytes = Payload(w)
    BY <1>5 DEF bytes
  <2>4. QED
    BY <2>2, <2>3
<1>7. \A i \in 1..Len(h) : Units(w)[i] = h[i]
  BY <1>1, <1>2, <1>4, <1>6
<1>8. Units(w)[Len(h) + 1] = Blank
  BY <1>1, <1>2, <1>4, <1>6
<1>9. \A i \in 1..size : Units(w)[Len(h) + 1 + i] = Byte(w, i)
  <2> TAKE i \in 1..size
  <2>1. /\ Len(h) + 1 + i \in 1 .. Len(front) + Len(Payload(w))
        /\ ~(Len(h) + 1 + i <= Len(front)) /\ Len(h) + 1 + i - Len(front) = i
    BY <1>1, <1>2, <1>4
  <2>2. QED
    BY <1>2, <1>6, <2>1
<1>10. Headers(w) = Len(h) /\ frame[w].size = size
  BY DEF Headers, h, size
<1>11. Length(w) = Len(h) + 1 + size /\ Length(w) \in Nat
  BY <1>1, <1>2, <1>4, <1>6 DEF Length
<1>12. /\ Payload(w) \in Seq(AnyUnit) /\ Len(Payload(w)) = frame[w].size
       /\ Length(w) = Headers(w) + 1 + frame[w].size
       /\ Length(w) \in Nat /\ Headers(w) \in Nat /\ frame[w].size \in Nat
  BY <1>1, <1>2, <1>10, <1>11
<1>13. /\ \A i \in 1..Headers(w) : Units(w)[i] = frame[w].headers[i]
       /\ Units(w)[Headers(w) + 1] = Blank
  BY <1>7, <1>8, <1>10 DEF h
<1>14. \A i \in 1..frame[w].size : Units(w)[Headers(w) + 1 + i] = Byte(w, i)
  BY <1>9, <1>10
<1>15. Units(w) \in Seq(AnyUnit)
  BY <1>6
<1>16. QED
  BY <1>12, <1>13, <1>14, <1>15

\* What kind of unit stands where.
LEMMA UnitKinds ==
    ASSUME frame \in [Writers -> FrameChoices], NEW w \in Writers, NEW i \in 1..Length(w)
    PROVE  /\ Units(w)[i] \in AnyUnit /\ Units(w)[i] # Torn /\ Units(w)[i].kind # "torn"
           /\ Units(w)[i].kind = "blank" <=> i = Headers(w) + 1
           /\ Units(w)[i].kind = "byte" <=> i > Headers(w) + 1
<1>1. /\ Units(w) \in Seq(AnyUnit) /\ Length(w) = Headers(w) + 1 + frame[w].size
      /\ Headers(w) \in Nat /\ frame[w].size \in 0..MaxPayload /\ frame[w].size \in Nat
  BY UnitsShape, FrameShape
<1>2. Torn.kind = "torn" /\ Blank.kind = "blank"
  BY LineTyped, <1>1
<1>3. Units(w)[i] \in AnyUnit
  BY <1>1, ElementOfSeq DEF Length
<1>4. CASE i <= Headers(w)
  <2>1. i \in 1..Headers(w)
    BY <1>1, <1>4
  <2>2. Units(w)[i] = frame[w].headers[i]
    BY <2>1, UnitsShape
  <2>3. frame[w].headers[i].kind \in HeaderKinds
    BY <2>1, FrameShape
  <2>4. Units(w)[i].kind \notin {"torn", "blank", "byte"}
    BY <2>2, <2>3 DEF HeaderKinds
  <2>5. QED
    BY <1>1, <1>2, <1>3, <1>4, <2>4
<1>5. CASE i = Headers(w) + 1
  <2>1. Units(w)[i] = Blank
    BY <1>5, UnitsShape
  <2>2. QED
    BY <1>1, <1>2, <1>3, <1>5, <2>1
<1>6. CASE i > Headers(w) + 1
  <2>1. i - Headers(w) - 1 \in 1..frame[w].size /\ i = Headers(w) + 1 + (i - Headers(w) - 1)
    <3>1. PICK h \in Nat, z \in Nat : h = Headers(w) /\ z = frame[w].size
      BY <1>1
    <3>2. Length(w) = h + 1 + z
      BY <1>1, <3>1
    <3>3. i \in 1..(h + 1 + z) /\ i > h + 1
      BY <1>6, <3>1, <3>2
    <3>4. i - h - 1 \in 1..z /\ i = h + 1 + (i - h - 1)
      BY <3>3
    <3>5. QED
      BY <3>1, <3>4
  <2>2. Units(w)[i] = Byte(w, i - Headers(w) - 1)
    BY <2>1, UnitsShape
  <2>3. i - Headers(w) - 1 \in 1..MaxPayload
    BY <1>1, <2>1, FramingAssumption
  <2>4. Units(w)[i].kind = "byte"
    BY <2>2, <2>3, ByteTyped
  <2>5. QED
    BY <1>1, <1>2, <1>3, <1>6, <2>4
<1>7. QED
  BY <1>1, <1>4, <1>5, <1>6

-----------------------------------------------------------------------------
(* What does not change as long as the frames stay what they are.          *)

LEMMA FrameFixed ==
    ASSUME frame' = frame, NEW w \in Writers
    PROVE  /\ Units(w)' = Units(w) /\ Length(w)' = Length(w) /\ Headers(w)' = Headers(w)
           /\ Payload(w)' = Payload(w) /\ (WellFormed(w)' <=> WellFormed(w))
BY DEF Units, Length, Headers, Payload, WellFormed

LEMMA IntactFixed ==
    ASSUME FramesIntact, order \in Seq(Writers), delivered \in Seq(Seq(AnyUnit)),
           UNCHANGED <<frame, order, delivered>>
    PROVE  FramesIntact'
<1>0. frame' = frame /\ order' = order /\ delivered' = delivered
  OBVIOUS
<1>1. \A i \in 1..Len(order) : order[i] \in Writers
  BY ElementOfSeq
<1>2. Len(order) \in Nat /\ DOMAIN delivered = 1..Len(delivered) /\ Len(delivered) \in Nat
  BY LenProperties
<1>3. ASSUME NEW i \in DOMAIN delivered
      PROVE  (/\ i <= Len(order)
              /\ delivered[i] = Payload(order[i])
              /\ \A j \in 1..i : WellFormed(order[j]))'
  <2>1. /\ i \in 1..Len(order) /\ delivered[i] = Payload(order[i])
        /\ \A j \in 1..i : WellFormed(order[j]) /\ j \in 1..Len(order)
    BY <1>2, <1>3 DEF FramesIntact
  <2>2. Payload(order[i])' = Payload(order[i])
    BY <1>0 DEF Payload
  <2>3. ASSUME NEW j \in 1..i PROVE WellFormed(order[j])'
    <3>1. WellFormed(order[j])
      BY <2>1
    <3>2. QED
      BY <1>0, <3>1 DEF WellFormed
  <2>4. QED
    BY <2>1, <2>2, <2>3
<1>4. QED
  BY <1>3 DEF FramesIntact

\* The head of a sequence is its first element.
LEMMA HeadTail ==
    ASSUME NEW S, NEW q \in Seq(S), q # <<>>
    PROVE  /\ Len(q) \in Nat /\ Len(q) >= 1 /\ Head(q) = q[1] /\ Head(q) \in S
           /\ Tail(q) \in Seq(S) /\ Len(Tail(q)) = Len(q) - 1
           /\ \A i \in 1..(Len(q) - 1) : Tail(q)[i] = q[i + 1]
<1>1. Len(q) \in Nat /\ Len(q) >= 1
  BY EmptySeq, LenProperties
<1>2. Head(q) = q[1]
  BY <1>1
<1>3. QED
  BY <1>1, <1>2, HeadTailProperties

\* The part of a sequence of units that was written whole.
LEMMA WholeOf ==
    ASSUME NEW q \in Seq(AnyUnit)
    PROVE  /\ Whole(q) \in Nat /\ Len(q) \in Nat
           /\ Whole(q) = IF EndsTorn(q) THEN Len(q) - 1 ELSE Len(q)
           /\ Whole(q) >= 1 => q # <<>>
           /\ q # <<>> /\ Head(q) # Torn => Whole(q) >= 1
           /\ q = <<>> \/ q = <<Torn>> => Whole(q) = 0
           /\ q # <<>> /\ Whole(q) = 0 => EndsTorn(q)
<1>1. Len(q) \in Nat
  BY LenProperties
<1>2. CASE q = <<>>
  BY <1>1, <1>2 DEF Whole, EndsTorn
<1>3. CASE q # <<>>
  <2>1. Len(q) >= 1 /\ Head(q) = q[1]
    BY <1>3, HeadTail
  <2>2. q = <<Torn>> => EndsTorn(q) /\ Len(q) = 1
    BY DEF EndsTorn
  <2>3. EndsTorn(q) => q[Len(q)] = Torn
    BY DEF EndsTorn
  <2>4. QED
    BY <1>1, <1>3, <2>1, <2>2, <2>3 DEF Whole
<1>4. QED
  BY <1>2, <1>3

\* Without its first unit, a sequence is as torn as before.
LEMMA WholeTail ==
    ASSUME NEW q \in Seq(AnyUnit), Whole(q) >= 1,
           NEW t \in Seq(AnyUnit), Len(t) = Len(q) - 1, \A i \in 1..(Len(q) - 1) : t[i] = q[i + 1]
    PROVE  /\ Whole(t) = Whole(q) - 1 /\ (EndsTorn(t) <=> EndsTorn(q))
           /\ \A m \in 1..(Whole(q) - 1) : t[m] = q[m + 1]
<1>1. /\ Whole(q) \in Nat /\ Len(q) \in Nat
      /\ Whole(q) = IF EndsTorn(q) THEN Len(q) - 1 ELSE Len(q)
      /\ q # <<>>
  BY WholeOf
<1>2. Len(q) >= 1
  BY <1>1
<1>3. EndsTorn(t) <=> EndsTorn(q)
  <2>1. CASE Len(q) = 1
    <3>1. ~EndsTorn(q)
      BY <1>1, <2>1
    <3>2. Len(t) = 0
      BY <2>1
    <3>3. t = <<>>
      BY <3>2, EmptySeq
    <3>4. QED
      BY <3>1, <3>3 DEF EndsTorn
  <2>2. CASE Len(q) # 1
    <3>1. Len(t) \in 1..(Len(q) - 1) /\ Len(t) + 1 = Len(q)
      BY <1>1, <1>2, <2>2
    <3>2. t # <<>>
      BY <3>1, EmptySeq
    <3>3. t[Len(t)] = q[Len(q)]
      BY <3>1
    <3>4. QED
      BY <1>1, <3>2, <3>3 DEF EndsTorn
  <2>3. QED
    BY <2>1, <2>2
<1>4. Whole(t) = Whole(q) - 1
  BY <1>1, <1>2, <1>3 DEF Whole
<1>5. \A m \in 1..(Whole(q) - 1) : t[m] = q[m + 1]
  BY <1>1, <1>2
<1>6. QED
  BY <1>3, <1>4, <1>5

-----------------------------------------------------------------------------
(* Where the reader stands.                                                *)

\* What the lengths are that the positions are computed from.
LEMMA Lengths ==
    ASSUME WriterTypes, WritersInOrder
    PROVE  /\ Len(order) \in Nat
           /\ order = <<>> <=> Len(order) = 0
           /\ \A i \in 1..Len(order) : order[i] \in Writers
           /\ \A w \in Writers :
                  /\ Length(w) = Headers(w) + 1 + frame[w].size
                  /\ Length(w) \in Nat /\ Headers(w) \in Nat /\ frame[w].size \in Nat
                  /\ Len(unwritten[w]) \in Nat /\ Written(w) \in Nat
                  /\ Written(w) = Length(w) - Len(unwritten[w])
                  /\ Written(w) <= Length(w)
<1>1. order \in Seq(Writers) /\ Len(order) \in Nat /\ (order = <<>> <=> Len(order) = 0)
  BY EmptySeq, LenProperties DEF WriterTypes
<1>2. \A i \in 1..Len(order) : order[i] \in Writers
  BY <1>1, ElementOfSeq
<1>3. ASSUME NEW w \in Writers
      PROVE  /\ Length(w) = Headers(w) + 1 + frame[w].size
             /\ Length(w) \in Nat /\ Headers(w) \in Nat /\ frame[w].size \in Nat
             /\ Len(unwritten[w]) \in Nat /\ Written(w) \in Nat
             /\ Written(w) = Length(w) - Len(unwritten[w])
             /\ Written(w) <= Length(w)
  <2>1. /\ Length(w) = Headers(w) + 1 + frame[w].size
        /\ Length(w) \in Nat /\ Headers(w) \in Nat /\ frame[w].size \in Nat
    BY UnitsShape DEF WriterTypes
  <2>2. Len(unwritten[w]) \in Nat
    BY LenProperties DEF WriterTypes
  <2>3. Len(unwritten[w]) <= Length(w)
    BY DEF WritersInOrder
  <2>4. QED
    BY <2>1, <2>2, <2>3 DEF Written
<1>4. QED
  BY <1>1, <1>2, <1>3

\* The next unit of the input belongs to the frame the reader stands in.
LEMMA NextUnit ==
    ASSUME WriterTypes, WritersInOrder, input \in Seq(AnyUnit), Whole(input) >= 1,
           NEW start \in [1..(Len(order) + 1) -> Nat], NEW read \in Nat,
           Layout(start), InputFollows(start, read),
           NEW k \in Nat, k <= Len(order), start[k + 1] <= read,
           k < Len(order) => read - start[k + 1] < Length(order[k + 1])
    PROVE  /\ k < Len(order) /\ order[k + 1] \in Writers
           /\ read - start[k + 1] + 1 \in 1..Length(order[k + 1])
           /\ Head(input) = Units(order[k + 1])[read - start[k + 1] + 1]
           /\ input # <<>>
<1>1. /\ Len(order) \in Nat /\ (order = <<>> <=> Len(order) = 0)
      /\ \A i \in 1..Len(order) :
             /\ order[i] \in Writers /\ Length(order[i]) \in Nat
             /\ Written(order[i]) \in Nat /\ Written(order[i]) <= Length(order[i])
  BY Lengths
<1>2. \A i \in 1..Len(order) : /\ start[i] \in Nat /\ start[i + 1] \in Nat
                               /\ start[i + 1] = start[i] + Length(order[i])
  <2>1. \A i \in 1..Len(order) : i \in 1..(Len(order) + 1) /\ i + 1 \in 1..(Len(order) + 1)
    BY <1>1
  <2>2. QED
    BY <2>1 DEF Layout
<1>3. Whole(input) \in Nat /\ input # <<>> /\ Head(input) = input[1]
  BY WholeOf, HeadTail
<1>4. k < Len(order)
  <2> SUFFICES ASSUME k = Len(order) PROVE FALSE
    BY <1>1
  <2>1. read + Whole(input) = IF order = <<>> THEN 0 ELSE start[k] + Written(order[k])
    BY DEF InputFollows
  <2>2. CASE k = 0
    BY <1>1, <1>3, <2>1, <2>2
  <2>3. CASE k # 0
    <3>1. k \in 1..Len(order) /\ order # <<>>
      BY <1>1, <2>3
    <3>2. start[k + 1] = start[k] + Length(order[k]) /\ start[k] \in Nat /\ start[k + 1] \in Nat
      BY <1>2, <3>1
    <3>3. Length(order[k]) \in Nat /\ Written(order[k]) \in Nat /\ Written(order[k]) <= Length(order[k])
      BY <1>1, <3>1
    <3>4. read + Whole(input) = start[k] + Written(order[k])
      BY <2>1, <3>1
    <3>5. QED
      BY <1>3, <3>2, <3>3, <3>4
  <2>4. QED
    BY <2>2, <2>3
<1>5. k + 1 \in 1..Len(order)
  BY <1>1, <1>4
<1>6. /\ start[k + 1] \in Nat /\ start[k + 2] = start[k + 1] + Length(order[k + 1])
      /\ Length(order[k + 1]) \in Nat
  <2>1. k + 1 + 1 = k + 2
    OBVIOUS
  <2>2. QED
    BY <1>1, <1>2, <1>5, <2>1
<1>7. start[k + 1] < read + 1 /\ read + 1 <= start[k + 2]
  BY <1>4, <1>6
<1>8. input[1] = Units(order[k + 1])[read + 1 - start[k + 1]]
  <2>1. 1 \in 1..Whole(input)
    BY <1>3
  <2>2. k + 1 + 1 = k + 2
    OBVIOUS
  <2>3. QED
    BY <1>5, <1>7, <2>1, <2>2 DEF InputFollows
<1>9. read - start[k + 1] + 1 \in 1..Length(order[k + 1]) /\ read + 1 - start[k + 1] = read - start[k + 1] + 1
  BY <1>4, <1>6
<1>10. QED
  BY <1>1, <1>3, <1>4, <1>5, <1>8, <1>9

\* Reading a unit moves the reader by one.
LEMMA InputRead ==
    ASSUME WriterTypes, WritersInOrder, input \in Seq(AnyUnit), Whole(input) >= 1,
           NEW start \in [1..(Len(order) + 1) -> Nat], NEW read \in Nat,
           InputFollows(start, read),
           UNCHANGED <<writerVars, cut>>, input' = Tail(input)
    PROVE  InputFollows(start, read + 1)'
<1>1. /\ input' \in Seq(AnyUnit) /\ Whole(input)' = Whole(input) - 1
      /\ EndsTorn(input)' <=> EndsTorn(input)
      /\ \A m \in 1..(Whole(input) - 1) : input'[m] = input[m + 1]
  <2>1. input # <<>>
    BY WholeOf
  <2>2. /\ Tail(input) \in Seq(AnyUnit) /\ Len(Tail(input)) = Len(input) - 1
        /\ \A i \in 1..(Len(input) - 1) : Tail(input)[i] = input[i + 1]
    BY <2>1, HeadTail
  <2>3. /\ Whole(Tail(input)) = Whole(input) - 1 /\ (EndsTorn(Tail(input)) <=> EndsTorn(input))
        /\ \A m \in 1..(Whole(input) - 1) : Tail(input)[m] = input[m + 1]
    BY <2>2, WholeTail
  <2>4. Whole(input)' = Whole(Tail(input)) /\ (EndsTorn(input)' <=> EndsTorn(Tail(input)))
    BY DEF Whole, EndsTorn
  <2> DEFINE t == Tail(input)
  <2>5. /\ input' = t /\ t \in Seq(AnyUnit)
        /\ Whole(t) = Whole(input) - 1 /\ (EndsTorn(t) <=> EndsTorn(input))
        /\ \A m \in 1..(Whole(input) - 1) : t[m] = input[m + 1]
        /\ Whole(input)' = Whole(t) /\ (EndsTorn(input)' <=> EndsTorn(t))
    BY <2>2, <2>3, <2>4
  <2> HIDE DEF t
  <2>6. QED
    BY <2>5
<1>2. Whole(input) \in Nat
  BY WholeOf
<1>3. /\ Len(order) \in Nat /\ (order = <<>> <=> Len(order) = 0)
      /\ \A i \in 1..Len(order) : order[i] \in Writers
  BY Lengths
<1>4. frame' = frame /\ order' = order /\ unwritten' = unwritten /\ cut' = cut
  BY DEF writerVars
<1>5. ASSUME NEW w \in Writers
      PROVE  Units(w)' = Units(w) /\ Written(w)' = Written(w) /\ Headers(w)' = Headers(w)
  BY <1>4, FrameFixed DEF Written
<1>6. order # <<>> => /\ Written(order[Len(order)])' = Written(order[Len(order)])
                     /\ Headers(order[Len(order)])' = Headers(order[Len(order)])
  <2>1. order # <<>> => order[Len(order)] \in Writers
    BY <1>3
  <2>2. QED
    BY <1>4, <1>5, <2>1
<1>7. (read + 1 + Whole(input) = IF order = <<>> THEN 0
                                 ELSE start[Len(order)] + Written(order[Len(order)]))'
  <2>1. read + 1 + Whole(input)' = read + Whole(input)
    BY <1>1, <1>2
  <2>2. QED
    BY <1>4, <1>6, <2>1 DEF InputFollows
<1>8. (\A m \in 1..Whole(input), i \in 1..Len(order) :
           start[i] < read + 1 + m /\ read + 1 + m <= start[i + 1]
               => input[m] = Units(order[i])[read + 1 + m - start[i]])'
  <2> SUFFICES ASSUME NEW m \in 1..(Whole(input) - 1), NEW i \in 1..Len(order),
                      start[i] < read + 1 + m, read + 1 + m <= start[i + 1]
               PROVE  input'[m] = Units(order[i])'[read + 1 + m - start[i]]
    BY <1>1, <1>4
  <2>1. Units(order[i])' = Units(order[i])
    BY <1>3, <1>4, <1>5
  <2>2. m + 1 \in 1..Whole(input) /\ read + (m + 1) = read + 1 + m
    BY <1>2
  <2>3. /\ start[i] < read + (m + 1) /\ read + (m + 1) <= start[i + 1]
        /\ read + (m + 1) - start[i] = read + 1 + m - start[i]
    <3>1. i \in 1..(Len(order) + 1) /\ m \in Nat
      BY <1>2, <1>3
    <3>3. start[i] \in Nat
      BY <3>1
    <3>2. QED
      BY <2>2, <3>1, <3>3
  <2>5. input[m + 1] = Units(order[i])[read + 1 + m - start[i]]
    BY <2>2, <2>3 DEF InputFollows
  <2>6. QED
    BY <1>1, <2>1, <2>5
<1>9. (EndsTorn(input) => /\ cut /\ order # <<>>
                         /\ Written(order[Len(order)]) <= Headers(order[Len(order)]))'
  BY <1>1, <1>4, <1>6 DEF InputFollows
<1>10. QED
  BY <1>7, <1>8, <1>9 DEF InputFollows

-----------------------------------------------------------------------------
(* The initial states, and the steps of the writers.                       *)

LEMMA Extended ==
    ASSUME NEW S, NEW q \in Seq(S), NEW e \in S
    PROVE  /\ Append(q, e) \in Seq(S) /\ Append(q, e) # <<>>
           /\ Len(q) \in Nat /\ Len(Append(q, e)) = Len(q) + 1
           /\ \A i \in 1..Len(q) : Append(q, e)[i] = q[i]
           /\ Append(q, e)[Len(q) + 1] = e
<1>1. /\ Append(q, e) \in Seq(S) /\ Len(q) \in Nat /\ Len(Append(q, e)) = Len(q) + 1
      /\ \A i \in 1..Len(q) : Append(q, e)[i] = q[i]
      /\ Append(q, e)[Len(q) + 1] = e
  BY AppendProperties, LenProperties
<1>2. Append(q, e) # <<>>
  BY <1>1, EmptySeq
<1>3. QED
  BY <1>1, <1>2

\* An error that is no end of the stream, or a stream that goes on.
LEMMA NoEnd ==
    ASSUME EndIsBeforePayload, ~cut, UNCHANGED <<failure, ending>>
    PROVE  EndIsBeforePayload'
BY DEF EndIsBeforePayload

LEMMA InitInductive ==
    ASSUME Init
    PROVE  Inductive
<1>1. /\ order = <<>> /\ input = <<>> /\ delivered = <<>> /\ payload = <<>>
      /\ Len(order) = 0 /\ Len(input) = 0 /\ Len(delivered) = 0
      /\ order \in Seq(Writers) /\ input \in Seq(AnyUnit) /\ payload \in Seq(AnyUnit)
      /\ delivered \in Seq(Seq(AnyUnit))
  BY EmptySeq DEF Init
<1>2. \A w \in Writers : Units(w) \in Seq(AnyUnit) /\ Length(w) \in Nat
  BY UnitsShape DEF Init
<1>3. TypeOK
  <2>1. unwritten \in [Writers -> Seq(AnyUnit)]
    BY <1>2 DEF Init
  <2>2. NoLength \in 0..NoLength /\ NoLength \in Nat
    BY FramingAssumption DEF NoLength
  <2>3. WriterTypes
    BY <1>1, <2>1 DEF Init, WriterTypes
  <2>4. ReaderTypes
    BY <1>1, <2>2 DEF Init, ReaderTypes
  <2>5. QED
    BY <2>3, <2>4 DEF TypeOK
<1>4. WritersInOrder
  <2>1. ASSUME NEW w \in Writers
        PROVE  /\ Len(unwritten[w]) <= Length(w)
               /\ \A i \in 1..Len(unwritten[w]) : unwritten[w][i] = Units(w)[Written(w) + i]
    <3>1. unwritten[w] = Units(w)
      BY DEF Init
    <3>2. Len(unwritten[w]) = Length(w) /\ Written(w) = 0
      BY <1>2, <3>1 DEF Written, Length
    <3>3. QED
      BY <1>2, <3>1, <3>2
  <2>2. QED
    BY <1>1, <2>1 DEF Init, WritersInOrder
<1>5. StreamFollowed
  <2>1. PICK start \in [1..1 -> Nat] : start[1] = 0
    <3> DEFINE zero == [i \in 1..1 |-> 0]
    <3>1. zero \in [1..1 -> Nat] /\ zero[1] = 0
      OBVIOUS
    <3>2. QED
      BY <3>1
  <2>2. start \in [1..(Len(order) + 1) -> Nat] /\ 0 \in Nat
    BY <1>1
  <2>3. Layout(start)
    BY <1>1, <2>1 DEF Layout
  <2>4. ~EndsTorn(input) /\ Whole(input) = 0
    BY <1>1 DEF EndsTorn, Whole
  <2>5. InputFollows(start, 0)
    BY <1>1, <2>4 DEF InputFollows
  <2>6. ReaderFollows(start, 0)
    BY <1>1, <2>1 DEF ReaderFollows, Init
  <2>7. QED
    BY <2>2, <2>3, <2>5, <2>6 DEF StreamFollowed
<1>6. EndIsBeforePayload
  BY DEF Init, EndIsBeforePayload
<1>7. FramesIntact
  BY <1>1 DEF FramesIntact
<1>8. QED
  BY <1>3, <1>4, <1>5, <1>6, <1>7 DEF Inductive

\* The frames that were delivered stay where they are when another one is begun.
LEMMA IntactExtended ==
    ASSUME FramesIntact, order \in Seq(Writers), delivered \in Seq(Seq(AnyUnit)),
           UNCHANGED <<frame, delivered>>,
           \A i \in 1..Len(order) : order'[i] = order[i],
           Len(order) <= Len(order)', Len(order)' \in Nat
    PROVE  FramesIntact'
<1>1. frame' = frame /\ delivered' = delivered
  OBVIOUS
<1>2. Len(order) \in Nat /\ DOMAIN delivered = 1..Len(delivered) /\ Len(delivered) \in Nat
  BY LenProperties
<1>3. ASSUME NEW i \in DOMAIN delivered
      PROVE  (/\ i <= Len(order)
              /\ delivered[i] = Payload(order[i])
              /\ \A j \in 1..i : WellFormed(order[j]))'
  <2>1. /\ i \in 1..Len(order) /\ delivered[i] = Payload(order[i])
        /\ \A j \in 1..i : WellFormed(order[j]) /\ j \in 1..Len(order)
    BY <1>2, <1>3 DEF FramesIntact
  <2>2. i <= Len(order)'
    BY <1>2, <2>1
  <2>3. (delivered[i] = Payload(order[i]))'
    BY <1>1, <2>1 DEF Payload
  <2>4. ASSUME NEW j \in 1..i PROVE WellFormed(order[j])'
    <3>1. WellFormed(order[j]) /\ order'[j] = order[j]
      BY <2>1
    <3>2. QED
      BY <1>1, <3>1 DEF WellFormed
  <2>5. QED
    BY <2>2, <2>3, <2>4
<1>4. QED
  BY <1>1, <1>3 DEF FramesIntact

LEMMA LockKeeps ==
    ASSUME Inductive, NEW w \in Writers, Lock(w)
    PROVE  Inductive'
<1>0. /\ TypeOK /\ WriterTypes /\ ReaderTypes /\ WritersInOrder /\ StreamFollowed
      /\ EndIsBeforePayload /\ FramesIntact
  BY DEF Inductive, TypeOK
<1>1. /\ ~cut /\ mutex = None /\ mutex' = w /\ unwritten[w] = Units(w)
      /\ order' = Append(order, w)
      /\ UNCHANGED <<frame, unwritten, input, cut, readerVars, ending>>
  BY DEF Lock
<1>2. /\ frame' = frame /\ unwritten' = unwritten /\ input' = input /\ cut' = cut
      /\ phase' = phase /\ length' = length /\ sawHeader' = sawHeader /\ payload' = payload
      /\ delivered' = delivered /\ failure' = failure /\ ending' = ending
  BY <1>1 DEF readerVars
<1>3. /\ order \in Seq(Writers) /\ delivered \in Seq(Seq(AnyUnit)) /\ input \in Seq(AnyUnit)
      /\ unwritten \in [Writers -> Seq(AnyUnit)] /\ frame \in [Writers -> FrameChoices]
  BY <1>0 DEF WriterTypes, ReaderTypes
<1>4. /\ order' \in Seq(Writers) /\ Len(order) \in Nat /\ Len(order)' = Len(order) + 1
      /\ order' # <<>>
      /\ \A i \in 1..Len(order) : order'[i] = order[i]
      /\ order'[Len(order) + 1] = w
  <2> DEFINE r == Append(order, w)
  <2>1. /\ r \in Seq(Writers) /\ Len(order) \in Nat /\ Len(r) = Len(order) + 1 /\ r # <<>>
        /\ \A i \in 1..Len(order) : r[i] = order[i]
        /\ r[Len(order) + 1] = w
    <3>1. r \in Seq(Writers) /\ Len(order) \in Nat /\ Len(r) = Len(order) + 1
      BY <1>3, Extended
    <3>2. r # <<>>
      <4> HIDE DEF r
      <4>1. QED
        BY <3>1, EmptySeq
    <3>3. \A i \in 1..Len(order) : r[i] = order[i]
      BY <1>3, Extended
    <3>4. r[Len(order) + 1] = w
      BY <1>3, Extended
    <3>5. QED
      BY <3>1, <3>2, <3>3, <3>4
  <2>2. order' = r
    BY <1>1
  <2> HIDE DEF r
  <2>3. QED
    BY <2>1, <2>2
<1>5. /\ order = <<>> <=> Len(order) = 0
      /\ \A i \in 1..Len(order) : order[i] \in Writers
      /\ \A v \in Writers :
             /\ Length(v) = Headers(v) + 1 + frame[v].size
             /\ Length(v) \in Nat /\ Headers(v) \in Nat /\ frame[v].size \in Nat
             /\ Len(unwritten[v]) \in Nat /\ Written(v) \in Nat
             /\ Written(v) = Length(v) - Len(unwritten[v])
  BY <1>0, Lengths
<1>15. Length(w) \in Nat /\ Length(w) >= 1
  BY <1>5
<1>16. /\ Len(order) = 0 => order = <<>>
       /\ Len(order) # 0 => /\ order # <<>> /\ Len(order) \in 1..Len(order)
                            /\ order[Len(order)] \in Writers
  <2>1. Len(order) # 0 => Len(order) \in 1..Len(order)
    BY <1>4
  <2>2. QED
    BY <1>5, <2>1
<1>6. ASSUME NEW v
      PROVE  /\ Units(v)' = Units(v) /\ Length(v)' = Length(v) /\ Headers(v)' = Headers(v)
             /\ Written(v)' = Written(v)
  BY <1>2 DEF Units, Length, Headers, Payload, Written
<1>7. \A i \in 1..Len(order) : unwritten[order[i]] = <<>>
  BY <1>0, <1>1 DEF WritersInOrder
<1>8. TypeOK'
  <2>1. WriterTypes'
    BY <1>0, <1>1, <1>2, <1>4 DEF WriterTypes
  <2>2. ReaderTypes'
    BY <1>0, <1>2 DEF ReaderTypes
  <2>3. QED
    BY <2>1, <2>2 DEF TypeOK
<1>9. WritersInOrder'
  <2>1. (\A v \in Writers :
             /\ Len(unwritten[v]) <= Length(v)
             /\ \A i \in 1..Len(unwritten[v]) : unwritten[v][i] = Units(v)[Written(v) + i])'
    BY <1>0, <1>2, <1>6 DEF WritersInOrder
  <2>2. \A i \in 1..(Len(order)' - 1) : unwritten'[order'[i]] = <<>>
    BY <1>2, <1>4, <1>7
  <2>3. mutex' # None /\ mutex' = order'[Len(order)']
    BY <1>1, <1>4, FramingAssumption
  <2>4. QED
    BY <1>4, <2>1, <2>2, <2>3 DEF WritersInOrder
<1>10. ASSUME phase # "ended"
       PROVE  (\E start \in [1..(Len(order) + 1) -> Nat], read \in Nat :
                   Layout(start) /\ InputFollows(start, read) /\ ReaderFollows(start, read))'
  <2>1. PICK start \in [1..(Len(order) + 1) -> Nat], read \in Nat :
            Layout(start) /\ InputFollows(start, read) /\ ReaderFollows(start, read)
    BY <1>0, <1>10 DEF StreamFollowed
  <2>2. PICK next \in [1..(Len(order) + 2) -> Nat] :
            /\ \A i \in 1..(Len(order) + 1) : next[i] = start[i]
            /\ next[Len(order) + 2] = start[Len(order) + 1] + Length(w)
    <3> DEFINE f == [i \in 1..(Len(order) + 2) |-> IF i <= Len(order) + 1 THEN start[i]
                                                  ELSE start[Len(order) + 1] + Length(w)]
    <3>1. \A i \in 1..(Len(order) + 1) : start[i] \in Nat
      OBVIOUS
    <3>2. start[Len(order) + 1] + Length(w) \in Nat
      BY <1>4, <1>15, <3>1
    <3>3. f \in [1..(Len(order) + 2) -> Nat]
      BY <1>4, <3>1, <3>2
    <3>4. \A i \in 1..(Len(order) + 1) : f[i] = start[i]
      BY <1>4
    <3>5. f[Len(order) + 2] = start[Len(order) + 1] + Length(w)
      BY <1>4
    <3>6. QED
      BY <3>3, <3>4, <3>5
  <2>3. \A i \in 1..(Len(order) + 1) : start[i] \in Nat /\ next[i] = start[i]
    BY <2>2
  <2>4. start[1] = 0 /\ read + Whole(input) = start[Len(order) + 1]
    <3>1. start[1] = 0
      BY <2>1 DEF Layout
    <3>2. CASE Len(order) = 0
      BY <1>16, <2>1, <3>1, <3>2 DEF InputFollows
    <3>3. CASE Len(order) # 0
      <4>1. Len(order) \in 1..Len(order) /\ order[Len(order)] \in Writers /\ order # <<>>
        BY <1>16, <3>3
      <4>2. unwritten[order[Len(order)]] = <<>>
        BY <1>7, <4>1
      <4>3. Len(unwritten[order[Len(order)]]) = 0
        BY <4>2
      <4>4. Written(order[Len(order)]) = Length(order[Len(order)])
        BY <1>5, <4>1, <4>3
      <4>5. start[Len(order) + 1] = start[Len(order)] + Length(order[Len(order)])
        BY <2>1, <4>1 DEF Layout
      <4>6. read + Whole(input) = start[Len(order)] + Written(order[Len(order)])
        BY <2>1, <4>1 DEF InputFollows
      <4>7. QED
        BY <3>1, <4>4, <4>5, <4>6
    <3>4. QED
      BY <3>2, <3>3
  <2>5. Layout(next)'
    <3>1. next[1] = 0
      BY <1>4, <2>3, <2>4
    <3>2. ASSUME NEW i \in 1..(Len(order) + 1)
          PROVE  next[i + 1] = next[i] + Length(order'[i])
      <4>1. CASE i = Len(order) + 1
        <5>1. next[i + 1] = start[i] + Length(w) /\ next[i] = start[i] /\ order'[i] = w
          BY <1>4, <2>2, <4>1
        <5>2. QED
          BY <5>1
      <4>2. CASE i # Len(order) + 1
        <5>1. i \in 1..Len(order) /\ i \in 1..(Len(order) + 1) /\ i + 1 \in 1..(Len(order) + 1)
          BY <1>4, <4>2
        <5>2. start[i + 1] = start[i] + Length(order[i]) /\ order'[i] = order[i]
          BY <1>4, <2>1, <5>1 DEF Layout
        <5>3. next[i + 1] = start[i + 1] /\ next[i] = start[i]
          BY <2>3, <5>1
        <5>4. QED
          BY <5>2, <5>3
      <4>3. QED
        BY <4>1, <4>2
    <3>3. ASSUME NEW i \in 1..(Len(order) + 2), NEW j \in 1..(Len(order) + 2), i < j
          PROVE  next[i] < next[j]
      <4>1. i \in 1..(Len(order) + 1) /\ next[i] = start[i] /\ start[i] \in Nat
        BY <1>4, <2>3, <3>3
      <4>2. CASE j = Len(order) + 2
        <5>1. /\ next[j] = start[Len(order) + 1] + Length(w) /\ start[Len(order) + 1] \in Nat
              /\ Length(w) \in Nat /\ Length(w) >= 1
          BY <1>4, <1>15, <2>2, <2>3, <4>2
        <5>2. start[i] <= start[Len(order) + 1]
          <6>1. CASE i = Len(order) + 1
            BY <4>1, <6>1
          <6>2. CASE i # Len(order) + 1
            <7>1. i < Len(order) + 1 /\ Len(order) + 1 \in 1..(Len(order) + 1)
              BY <1>4, <4>1, <6>2
            <7>2. start[i] < start[Len(order) + 1]
              BY <2>1, <4>1, <7>1 DEF Layout
            <7>3. QED
              BY <4>1, <5>1, <7>2
          <6>3. QED
            BY <6>1, <6>2
        <5>3. QED
          BY <4>1, <5>1, <5>2
      <4>3. CASE j # Len(order) + 2
        <5>1. j \in 1..(Len(order) + 1)
          BY <1>4, <4>3
        <5>2. start[i] < start[j] /\ next[j] = start[j]
          BY <2>1, <2>3, <3>3, <4>1, <5>1 DEF Layout
        <5>3. QED
          BY <4>1, <5>2
      <4>4. QED
        BY <4>2, <4>3
    <3>4. \A i \in 1..(Len(order) + 1) : next[i + 1] = next[i] + Length(order[i])'
      BY <1>6, <3>2
    <3>5. Len(order)' + 1 = Len(order) + 2 /\ Len(order)' = Len(order) + 1
      BY <1>4
    <3>6. QED
      BY <3>1, <3>3, <3>4, <3>5 DEF Layout
  <2>6. InputFollows(next, read)'
    <3>1. Whole(input)' = Whole(input) /\ (EndsTorn(input)' <=> EndsTorn(input))
      BY <1>2 DEF Whole, EndsTorn
    <3>2. Whole(input) \in Nat
      BY <1>3, WholeOf
    <3>3. Len(unwritten[w]) = Length(w) /\ Written(w) = 0
      BY <1>1, <1>5 DEF Length
    <3>4. Written(order[Len(order)])' = 0
      BY <1>4, <1>6, <3>3
    <3>5. Len(order) + 1 \in 1..(Len(order) + 1)
      BY <1>4
    <3>6. read + Whole(input)' = next[Len(order)'] + Written(order[Len(order)])'
      BY <1>4, <2>3, <2>4, <3>1, <3>4, <3>5
    <3>7. ASSUME NEW m \in 1..Whole(input), NEW i \in 1..(Len(order) + 1),
                 next[i] < read + m, read + m <= next[i + 1]
          PROVE  input[m] = Units(order'[i])[read + m - next[i]]
      <4>1. m \in Nat /\ read + m <= start[Len(order) + 1] /\ start[Len(order) + 1] \in Nat
        BY <2>3, <2>4, <3>2, <3>5
      <4>2. CASE i = Len(order) + 1
        BY <2>3, <3>5, <3>7, <4>1, <4>2
      <4>3. CASE i # Len(order) + 1
        <5>1. i \in 1..Len(order) /\ i \in 1..(Len(order) + 1) /\ i + 1 \in 1..(Len(order) + 1)
          BY <1>4, <4>3
        <5>2. next[i] = start[i] /\ next[i + 1] = start[i + 1] /\ order'[i] = order[i]
          BY <1>4, <2>3, <5>1
        <5>3. input[m] = Units(order[i])[read + m - start[i]]
          BY <2>1, <3>7, <5>1, <5>2 DEF InputFollows
        <5>4. QED
          BY <5>2, <5>3
      <4>4. QED
        BY <4>2, <4>3
    <3>8. \A m \in 1..Whole(input)', i \in 1..Len(order)' :
              next[i] < read + m /\ read + m <= next[i + 1]
                  => input'[m] = Units(order[i])'[read + m - next[i]]
      BY <1>2, <1>4, <1>6, <3>1, <3>7
    <3>9. ~EndsTorn(input)'
      BY <1>1, <2>1, <3>1 DEF InputFollows
    <3>10. QED
      BY <1>4, <3>6, <3>8, <3>9 DEF InputFollows
  <2>7. ReaderFollows(next, read)'
    <3>1. Len(delivered) \in Nat /\ Len(delivered) <= Len(order) /\ delivered' = delivered
      BY <1>2, <1>3, <2>1, LenProperties DEF ReaderFollows
    <3>2. Len(delivered) + 1 \in 1..(Len(order) + 1)
      BY <1>4, <3>1
    <3>3. next[Len(delivered) + 1] = start[Len(delivered) + 1] /\ start[Len(delivered) + 1] \in Nat
      BY <2>3, <3>2
    <3>4. CASE ~(start[Len(delivered) + 1] < read)
      BY <1>2, <1>4, <2>1, <3>1, <3>3, <3>4 DEF ReaderFollows
    <3>5. CASE start[Len(delivered) + 1] < read
      <4>1. Len(delivered) < Len(order)
        BY <2>1, <3>5 DEF ReaderFollows
      <4>2. Len(delivered) + 1 \in 1..Len(order)
        BY <1>4, <3>1, <4>1
      <4>3. order'[Len(delivered) + 1] = order[Len(delivered) + 1]
        BY <1>4, <4>2
      <4>4. ASSUME NEW v, NEW n
            PROVE  /\ HeadersRead(v, n)' <=> HeadersRead(v, n)
                   /\ BytesRead(v)' <=> BytesRead(v)
        BY <1>2, <1>6 DEF HeadersRead, BytesRead, WellFormed
      <4> DEFINE v == order[Len(delivered) + 1]
      <4>5. /\ HeadersRead(v, read - start[Len(delivered) + 1])'
                   <=> HeadersRead(v, read - start[Len(delivered) + 1])
            /\ BytesRead(v)' <=> BytesRead(v)
            /\ Headers(v)' = Headers(v)
        BY <1>2, <1>6, <4>3, <4>4 DEF HeadersRead, BytesRead, WellFormed
      <4>6. QED
        BY <1>2, <1>4, <2>1, <3>1, <3>3, <3>5, <4>1, <4>3, <4>5 DEF ReaderFollows
    <3>6. QED
      BY <3>4, <3>5
  <2>8. next \in [1..(Len(order)' + 1) -> Nat]
    <3>1. Len(order)' + 1 = Len(order) + 2
      BY <1>4
    <3>2. QED
      BY <2>2, <3>1
  <2>9. QED
    BY <2>5, <2>6, <2>7, <2>8
<1>11. StreamFollowed'
  BY <1>2, <1>10 DEF StreamFollowed
<1>12. EndIsBeforePayload'
  BY <1>0, <1>1, <1>2, NoEnd
<1>13. FramesIntact'
  BY <1>0, <1>2, <1>3, <1>4, IntactExtended
<1>14. QED
  BY <1>8, <1>9, <1>11, <1>12, <1>13 DEF Inductive

\* What depends on neither the lock, nor the writers' progress, nor the input.
LEMMA PlaceFixed ==
    ASSUME UNCHANGED <<frame, order, phase, length, sawHeader, payload, delivered>>,
           NEW start, NEW read
    PROVE  /\ Layout(start) => Layout(start)'
           /\ ReaderFollows(start, read) => ReaderFollows(start, read)'
<1>1. /\ frame' = frame /\ order' = order /\ phase' = phase /\ length' = length
      /\ sawHeader' = sawHeader /\ payload' = payload /\ delivered' = delivered
  OBVIOUS
<1>2. Layout(start) => Layout(start)'
  BY <1>1 DEF Layout, Length, Units, Payload
<1> DEFINE w == order[Len(delivered) + 1]
           n == read - start[Len(delivered) + 1]
<1>3. /\ HeadersRead(w, n)' <=> HeadersRead(w, n)
      /\ BytesRead(w)' <=> BytesRead(w)
      /\ Headers(w)' = Headers(w)
  <2>1. Headers(w)' = Headers(w)
    BY <1>1 DEF Headers
  <2>2. HeadersRead(w, n)' <=> HeadersRead(w, n)
    BY <1>1 DEF HeadersRead, Headers
  <2>3. BytesRead(w)' <=> BytesRead(w)
    BY <1>1 DEF BytesRead, WellFormed
  <2>4. QED
    BY <2>1, <2>2, <2>3
<1>4. ReaderFollows(start, read) => ReaderFollows(start, read)'
  BY <1>1, <1>3 DEF ReaderFollows
<1>5. QED
  BY <1>2, <1>4

LEMMA InputFixed ==
    ASSUME UNCHANGED <<frame, order, unwritten, input>>, cut => cut',
           NEW start, NEW read, InputFollows(start, read)
    PROVE  InputFollows(start, read)'
<1>1. frame' = frame /\ order' = order /\ unwritten' = unwritten /\ input' = input
  OBVIOUS
<1> DEFINE w == order[Len(order)]
<1>2. Written(w)' = Written(w) /\ Headers(w)' = Headers(w)
  BY <1>1 DEF Written, Length, Units, Payload, Headers
<1>3. Whole(input)' = Whole(input) /\ (EndsTorn(input)' <=> EndsTorn(input))
  BY <1>1 DEF Whole, EndsTorn
<1>4. \A i : Units(order[i])' = Units(order[i])
  BY <1>1 DEF Units, Payload
<1>5. (\A m \in 1..Whole(input), i \in 1..Len(order) :
           start[i] < read + m /\ read + m <= start[i + 1]
               => input[m] = Units(order[i])[read + m - start[i]])'
  BY <1>1, <1>3, <1>4 DEF InputFollows
<1>6. QED
  BY <1>1, <1>2, <1>3, <1>5 DEF InputFollows

LEMMA WriteUnitKeeps ==
    ASSUME Inductive, NEW w \in Writers, WriteUnit(w)
    PROVE  Inductive'
<1>0. /\ TypeOK /\ WriterTypes /\ ReaderTypes /\ WritersInOrder /\ StreamFollowed
      /\ EndIsBeforePayload /\ FramesIntact
  BY DEF Inductive, TypeOK
<1>1. /\ mutex = w /\ ~cut /\ unwritten[w] # <<>>
      /\ input' = Append(input, Head(unwritten[w]))
      /\ unwritten' = [unwritten EXCEPT ![w] = Tail(@)]
  BY DEF WriteUnit
<1>2. /\ frame' = frame /\ mutex' = mutex /\ order' = order /\ cut' = cut
      /\ phase' = phase /\ length' = length /\ sawHeader' = sawHeader /\ payload' = payload
      /\ delivered' = delivered /\ failure' = failure /\ ending' = ending
  BY DEF WriteUnit, readerVars
<1>3. /\ order \in Seq(Writers) /\ delivered \in Seq(Seq(AnyUnit)) /\ input \in Seq(AnyUnit)
      /\ unwritten \in [Writers -> Seq(AnyUnit)] /\ frame \in [Writers -> FrameChoices]
  BY <1>0 DEF WriterTypes, ReaderTypes
<1> DEFINE n == Len(order)
           u == Head(unwritten[w])
           rest == Tail(unwritten[w])
<1>4. /\ n \in Nat
      /\ \A i \in 1..n : order[i] \in Writers
      /\ \A v \in Writers :
             /\ Length(v) \in Nat /\ Len(unwritten[v]) \in Nat /\ Written(v) \in Nat
             /\ Written(v) = Length(v) - Len(unwritten[v])
  BY <1>0, Lengths
<1>20. Written(w) \in Nat
  BY <1>4
<1>5. n # 0 /\ order # <<>> /\ order[n] = w
  <2>1. mutex # None
    BY <1>1, FramingAssumption
  <2>2. order # <<>> /\ order[n] = w
    BY <1>0, <1>1, <2>1 DEF WritersInOrder
  <2>3. n # 0
    BY <1>0, <2>2, Lengths
  <2>4. QED
    BY <2>2, <2>3
<1>6. /\ Len(unwritten[w]) >= 1 /\ u = unwritten[w][1] /\ u \in AnyUnit
      /\ rest \in Seq(AnyUnit) /\ Len(rest) = Len(unwritten[w]) - 1
      /\ \A i \in 1..(Len(unwritten[w]) - 1) : rest[i] = unwritten[w][i + 1]
  <2>1. unwritten[w] \in Seq(AnyUnit)
    BY <1>3
  <2>2. QED
    BY <1>1, <2>1, HeadTail
<1>7. /\ Written(w) + 1 \in 1..Length(w) /\ u = Units(w)[Written(w) + 1]
      /\ u # Torn
  <2>1. Written(w) + 1 \in 1..Length(w) /\ 1 \in 1..Len(unwritten[w])
    BY <1>4, <1>6
  <2>2. u = Units(w)[Written(w) + 1]
    BY <1>0, <1>6, <2>1 DEF WritersInOrder
  <2>3. QED
    BY <1>3, <2>1, <2>2, UnitKinds
<1>8. unwritten' = [unwritten EXCEPT ![w] = rest] /\ unwritten' \in [Writers -> Seq(AnyUnit)]
  <2>1. unwritten' = [unwritten EXCEPT ![w] = rest]
    BY <1>1
  <2> HIDE DEF rest
  <2>2. QED
    BY <1>3, <1>6, <2>1
<1>9. unwritten'[w] = rest /\ \A v \in Writers \ {w} : unwritten'[v] = unwritten[v]
  <2> HIDE DEF rest
  <2>1. QED
    BY <1>3, <1>8
<1>10. /\ input' \in Seq(AnyUnit) /\ Len(input) \in Nat /\ Len(input)' = Len(input) + 1
       /\ input' # <<>>
       /\ \A i \in 1..Len(input) : input'[i] = input[i]
       /\ input'[Len(input) + 1] = u
  <2> DEFINE r == Append(input, u)
  <2>1. input' = r /\ u \in AnyUnit
    BY <1>1, <1>6
  <2> HIDE DEF u
  <2>2. r \in Seq(AnyUnit) /\ Len(input) \in Nat /\ Len(r) = Len(input) + 1
    BY <1>3, <2>1, Extended
  <2>3. r # <<>>
    <3> HIDE DEF r
    <3>1. QED
      BY <2>2, EmptySeq
  <2>4. \A i \in 1..Len(input) : r[i] = input[i]
    BY <1>3, <2>1, Extended
  <2>5. r[Len(input) + 1] = u
    BY <1>3, <2>1, Extended
  <2> HIDE DEF r
  <2>6. QED
    BY <2>1, <2>2, <2>3, <2>4, <2>5
<1> HIDE DEF n, u, rest
<1>11. ASSUME NEW v
       PROVE  Units(v)' = Units(v) /\ Length(v)' = Length(v) /\ Headers(v)' = Headers(v)
  BY <1>2 DEF Units, Length, Headers, Payload
<1>12. Written(w)' = Written(w) + 1 /\ Len(unwritten[w])' = Len(unwritten[w]) - 1
  <2>1. Len(unwritten[w])' = Len(rest)
    BY <1>9
  <2>2. Written(w)' = Length(w) - Len(rest)
    BY <1>9, <1>11 DEF Written
  <2>3. QED
    BY <1>4, <1>6, <2>1, <2>2
<1>13. TypeOK'
  <2>1. WriterTypes'
    BY <1>0, <1>2, <1>8 DEF WriterTypes
  <2>2. ReaderTypes'
    BY <1>0, <1>2, <1>10 DEF ReaderTypes
  <2>3. QED
    BY <2>1, <2>2 DEF TypeOK
<1>14. WritersInOrder'
  <2>1. ASSUME NEW v \in Writers
        PROVE  (/\ Len(unwritten[v]) <= Length(v)
                /\ \A i \in 1..Len(unwritten[v]) : unwritten[v][i] = Units(v)[Written(v) + i])'
    <3>1. CASE v = w
      <4>1. Len(unwritten[w])' <= Length(w)'
        BY <1>4, <1>11, <1>12
      <4>2. ASSUME NEW i \in 1..(Len(unwritten[w]) - 1)
            PROVE  unwritten'[w][i] = Units(w)[Written(w) + 1 + i]
        <5>1. i + 1 \in 1..Len(unwritten[w]) /\ Written(w) + (i + 1) = Written(w) + 1 + i
          <6>1. Len(unwritten[w]) \in Nat /\ Written(w) \in Nat
            BY <1>4
          <6>2. QED
            BY <6>1
        <5>2. unwritten[w][i + 1] = Units(w)[Written(w) + (i + 1)]
          BY <1>0, <5>1 DEF WritersInOrder
        <5>3. QED
          BY <1>6, <1>9, <5>1, <5>2
      <4>3. (\A i \in 1..Len(unwritten[w]) : unwritten[w][i] = Units(w)[Written(w) + i])'
        BY <1>11, <1>12, <4>2
      <4>4. QED
        BY <3>1, <4>1, <4>3
    <3>2. CASE v # w
      <4>1. unwritten'[v] = unwritten[v]
        BY <1>9, <3>2
      <4>2. Written(v)' = Written(v)
        BY <1>11, <4>1 DEF Written
      <4>3. QED
        BY <1>0, <1>11, <4>1, <4>2 DEF WritersInOrder
    <3>3. QED
      BY <3>1, <3>2
  <2>2. ASSUME NEW i \in 1..(n - 1) PROVE unwritten'[order[i]] = <<>>
    <3>1. unwritten[order[i]] = <<>> /\ order[i] \in Writers
      BY <1>0, <1>4 DEF WritersInOrder, n
    <3>2. order[i] # w
      BY <1>1, <3>1
    <3>3. QED
      BY <1>9, <3>1, <3>2
  <2>3. mutex # None
    BY <1>1, FramingAssumption
  <2>4. QED
    BY <1>0, <1>2, <2>1, <2>2, <2>3 DEF WritersInOrder, n
<1>15. ASSUME phase # "ended"
       PROVE  (\E start \in [1..(Len(order) + 1) -> Nat], read \in Nat :
                   Layout(start) /\ InputFollows(start, read) /\ ReaderFollows(start, read))'
  <2>1. PICK start \in [1..(n + 1) -> Nat], read \in Nat :
            Layout(start) /\ InputFollows(start, read) /\ ReaderFollows(start, read)
    BY <1>0, <1>15 DEF StreamFollowed, n
  <2>2. ~EndsTorn(input) /\ Whole(input) = Len(input)
    BY <1>1, <2>1 DEF InputFollows, Whole
  <2>3. ~EndsTorn(input)' /\ Whole(input)' = Len(input) + 1
    BY <1>7, <1>10 DEF EndsTorn, Whole
  <2>4. read + Len(input) = start[n] + Written(w)
    BY <1>5, <2>1, <2>2 DEF InputFollows, n
  <2>5. /\ n \in 1..(n + 1) /\ n \in 1..n /\ start[n] \in Nat
        /\ start[n + 1] = start[n] + Length(w)
        /\ \A i \in 1..(n + 1) : start[i] \in Nat
    <3>1. n \in 1..(n + 1) /\ n \in 1..n
      BY <1>4, <1>5
    <3>2. start[n + 1] = start[n] + Length(w)
      BY <1>5, <2>1, <3>1 DEF Layout, n
    <3>3. QED
      BY <3>1, <3>2
  <2>6. (read + Whole(input) = IF order = <<>> THEN 0
                              ELSE start[Len(order)] + Written(order[Len(order)]))'
    <3>1. read + Whole(input)' = start[n] + (Written(w) + 1)
      <4>1. Len(input) \in Nat /\ start[n] \in Nat
        BY <1>10, <2>5
      <4>2. Whole(input)' = Len(input) + 1
        BY <2>3
      <4>3. QED
        BY <1>20, <2>4, <4>1, <4>2
    <3>2. order' # <<>> /\ Len(order)' = n /\ Written(order[Len(order)])' = Written(w) + 1
      BY <1>2, <1>5, <1>12 DEF n
    <3>3. QED
      BY <3>1, <3>2
  <2>7. ASSUME NEW m \in 1..(Len(input) + 1), NEW i \in 1..n,
               start[i] < read + m, read + m <= start[i + 1]
        PROVE  input'[m] = Units(order[i])[read + m - start[i]]
    <3>1. CASE m = Len(input) + 1
      <4>1. read + m = start[n] + Written(w) + 1 /\ read + m - start[n] = Written(w) + 1
        <5>1. PICK s \in Nat, p \in Nat, l \in Nat :
                  s = start[n] /\ p = Written(w) /\ l = Len(input)
          BY <1>10, <1>20, <2>5
        <5>2. read + l = s + p /\ m = l + 1
          BY <2>4, <3>1, <5>1
        <5>3. read + m = s + p + 1 /\ read + m - s = p + 1
          BY <5>2
        <5>4. QED
          BY <5>1, <5>3
      <4>2. i = n
        <5> SUFFICES ASSUME i # n PROVE FALSE
          OBVIOUS
        <5>1. i + 1 \in 1..(n + 1) /\ i + 1 <= n
          BY <1>4
        <5>2. i + 1 < n => start[i + 1] < start[n]
          BY <2>1, <2>5, <5>1 DEF Layout, n
        <5>3. start[i + 1] <= start[n] /\ start[i + 1] \in Nat
          BY <1>4, <2>5, <5>1, <5>2
        <5>4. start[n] \in Nat /\ read + m <= start[i + 1] /\ read + m \in Nat
          BY <2>5, <2>7
        <5>5. start[n] + Written(w) + 1 <= start[n]
          BY <4>1, <5>3, <5>4
        <5>6. QED
          BY <1>20, <5>4, <5>5
      <4>3. QED
        BY <1>5, <1>7, <1>10, <3>1, <4>1, <4>2
    <3>2. CASE m # Len(input) + 1
      <4>1. m \in 1..Len(input) /\ m \in 1..Whole(input)
        BY <1>10, <2>2, <3>2
      <4>2. input[m] = Units(order[i])[read + m - start[i]]
        BY <2>1, <2>7, <4>1 DEF InputFollows, n
      <4>3. QED
        BY <1>10, <4>1, <4>2
    <3>3. QED
      BY <3>1, <3>2
  <2>8. (\A m \in 1..Whole(input), i \in 1..Len(order) :
             start[i] < read + m /\ read + m <= start[i + 1]
                 => input[m] = Units(order[i])[read + m - start[i]])'
    BY <1>2, <1>11, <2>3, <2>7 DEF n
  <2>9. InputFollows(start, read)'
    BY <2>3, <2>6, <2>8 DEF InputFollows
  <2>10. Layout(start)' /\ ReaderFollows(start, read)'
    BY <1>2, <2>1, PlaceFixed
  <2>11. start \in [1..(Len(order)' + 1) -> Nat]
    BY <1>2, <2>1 DEF n
  <2>12. QED
    BY <2>9, <2>10, <2>11
<1>16. StreamFollowed'
  BY <1>2, <1>15 DEF StreamFollowed
<1>17. EndIsBeforePayload'
  BY <1>0, <1>1, <1>2, NoEnd
<1>18. FramesIntact'
  BY <1>0, <1>2, <1>3, IntactFixed
<1>19. QED
  BY <1>13, <1>14, <1>16, <1>17, <1>18 DEF Inductive

LEMMA UnlockKeeps ==
    ASSUME Inductive, NEW w \in Writers, Unlock(w)
    PROVE  Inductive'
<1>0. /\ TypeOK /\ WriterTypes /\ ReaderTypes /\ WritersInOrder /\ StreamFollowed
      /\ EndIsBeforePayload /\ FramesIntact
  BY DEF Inductive, TypeOK
<1>1. mutex = w /\ (cut \/ unwritten[w] = <<>>) /\ mutex' = None
  BY DEF Unlock
<1>2. /\ frame' = frame /\ unwritten' = unwritten /\ order' = order /\ cut' = cut
      /\ input' = input /\ phase' = phase /\ length' = length /\ sawHeader' = sawHeader
      /\ payload' = payload /\ delivered' = delivered /\ failure' = failure /\ ending' = ending
  BY DEF Unlock, readerVars
<1>3. TypeOK'
  BY <1>0, <1>1, <1>2 DEF TypeOK, WriterTypes, ReaderTypes
<1>4. WritersInOrder'
  <2>1. (\A v \in Writers :
             /\ Len(unwritten[v]) <= Length(v)
             /\ \A i \in 1..Len(unwritten[v]) : unwritten[v][i] = Units(v)[Written(v) + i])'
    BY <1>0, <1>2 DEF WritersInOrder, Length, Written, Units, Payload
  <2>2. \A i \in 1..(Len(order) - 1) : unwritten[order[i]] = <<>>
    BY <1>0 DEF WritersInOrder
  <2>3. order[Len(order)] = w
    BY <1>0, <1>1, FramingAssumption DEF WritersInOrder
  <2>4. ~cut => \A i \in 1..Len(order) : unwritten[order[i]] = <<>>
    <3>1. Len(order) \in Nat
      BY <1>0, Lengths
    <3>2. ASSUME ~cut, NEW i \in 1..Len(order) PROVE unwritten[order[i]] = <<>>
      <4>1. i = Len(order) \/ i \in 1..(Len(order) - 1)
        BY <3>1
      <4>2. QED
        BY <1>1, <2>2, <2>3, <3>2, <4>1
    <3>3. QED
      BY <3>2
  <2>5. QED
    BY <1>1, <1>2, <2>1, <2>2, <2>4 DEF WritersInOrder
<1>5. StreamFollowed'
  <2>1. ASSUME phase # "ended"
        PROVE  (\E start \in [1..(Len(order) + 1) -> Nat], read \in Nat :
                    Layout(start) /\ InputFollows(start, read) /\ ReaderFollows(start, read))'
    <3>1. PICK start \in [1..(Len(order) + 1) -> Nat], read \in Nat :
              Layout(start) /\ InputFollows(start, read) /\ ReaderFollows(start, read)
      BY <1>0, <2>1 DEF StreamFollowed
    <3>2. Layout(start)' /\ ReaderFollows(start, read)'
      BY <1>2, <3>1, PlaceFixed
    <3>3. InputFollows(start, read)'
      BY <1>2, <3>1, InputFixed
    <3>4. start \in [1..(Len(order)' + 1) -> Nat]
      BY <1>2, <3>1
    <3>5. QED
      BY <3>2, <3>3, <3>4
  <2>2. QED
    BY <1>2, <2>1 DEF StreamFollowed
<1>6. EndIsBeforePayload'
  BY <1>0, <1>2 DEF EndIsBeforePayload
<1>7. FramesIntact'
  <2>1. order \in Seq(Writers) /\ delivered \in Seq(Seq(AnyUnit))
    BY <1>0 DEF WriterTypes, ReaderTypes
  <2>2. QED
    BY <1>0, <1>2, <2>1, IntactFixed
<1>8. QED
  BY <1>3, <1>4, <1>5, <1>6, <1>7 DEF Inductive

LEMMA CutKeeps ==
    ASSUME Inductive, Cut
    PROVE  Inductive'
<1>0. /\ TypeOK /\ WriterTypes /\ ReaderTypes /\ WritersInOrder /\ StreamFollowed
      /\ EndIsBeforePayload /\ FramesIntact
  BY DEF Inductive, TypeOK
<1>1. /\ ~cut /\ cut' = TRUE
      /\ \/ input' = input
         \/ /\ mutex # None /\ unwritten[mutex] # <<>> /\ Head(unwritten[mutex]).kind # "byte"
            /\ input' = Append(input, Torn)
  BY DEF Cut
<1>2. /\ frame' = frame /\ mutex' = mutex /\ unwritten' = unwritten /\ order' = order
      /\ phase' = phase /\ length' = length /\ sawHeader' = sawHeader /\ payload' = payload
      /\ delivered' = delivered /\ failure' = failure /\ ending' = ending
  BY DEF Cut, readerVars, writerVars
<1>3. /\ order \in Seq(Writers) /\ delivered \in Seq(Seq(AnyUnit)) /\ input \in Seq(AnyUnit)
      /\ unwritten \in [Writers -> Seq(AnyUnit)] /\ frame \in [Writers -> FrameChoices]
      /\ mutex \in Writers \cup {None}
  BY <1>0 DEF WriterTypes, ReaderTypes
<1>4. Len(input) \in Nat /\ Torn \in AnyUnit
  <2>1. 0 \in 0..MaxPayload
    BY FramingAssumption
  <2>2. QED
    BY <1>3, <2>1, LineTyped, LenProperties
<1>5. input' # input =>
        /\ input' \in Seq(AnyUnit) /\ input' # <<>>
        /\ Len(input)' = Len(input) + 1
        /\ \A i \in 1..Len(input) : input'[i] = input[i]
        /\ input'[Len(input) + 1] = Torn
  <2> DEFINE r == Append(input, Torn)
  <2>1. input' # input => input' = r
    BY <1>1
  <2>2. r \in Seq(AnyUnit) /\ Len(r) = Len(input) + 1
    BY <1>3, <1>4, Extended
  <2>3. r # <<>>
    <3> HIDE DEF r
    <3>1. QED
      BY <1>4, <2>2, EmptySeq
  <2>4. \A i \in 1..Len(input) : r[i] = input[i]
    BY <1>3, <1>4, Extended
  <2>5. r[Len(input) + 1] = Torn
    BY <1>3, <1>4, Extended
  <2> HIDE DEF r
  <2>6. QED
    BY <2>1, <2>2, <2>3, <2>4, <2>5
<1>6. TypeOK'
  <2>1. input' \in Seq(AnyUnit)
    BY <1>3, <1>5
  <2>2. QED
    BY <1>0, <1>1, <1>2, <2>1 DEF TypeOK, WriterTypes, ReaderTypes
<1>7. WritersInOrder'
  BY <1>0, <1>1, <1>2 DEF WritersInOrder, Length, Written, Units, Payload
<1>8. input' # input => /\ order # <<>>
                       /\ Written(order[Len(order)]) <= Headers(order[Len(order)])
  <2> SUFFICES ASSUME input' # input
               PROVE  order # <<>> /\ Written(order[Len(order)]) <= Headers(order[Len(order)])
    OBVIOUS
  <2>1. /\ mutex \in Writers /\ unwritten[mutex] # <<>>
        /\ Head(unwritten[mutex]).kind # "byte"
        /\ order # <<>> /\ mutex = order[Len(order)]
    BY <1>0, <1>1, <1>3 DEF WritersInOrder
  <2>2. PICK w \in Writers : w = mutex
    BY <2>1
  <2>3. unwritten[w] \in Seq(AnyUnit) /\ unwritten[w] # <<>>
    BY <1>3, <2>1, <2>2
  <2>4. Len(unwritten[w]) >= 1 /\ Head(unwritten[w]) = unwritten[w][1]
    BY <2>3, HeadTail
  <2>5. /\ Length(w) \in Nat /\ Headers(w) \in Nat /\ Len(unwritten[w]) \in Nat
        /\ Written(w) \in Nat /\ Written(w) = Length(w) - Len(unwritten[w])
    BY <1>0, Lengths
  <2>6. 1 \in 1..Len(unwritten[w]) /\ Written(w) + 1 \in 1..Length(w)
    BY <2>4, <2>5
  <2>7. Head(unwritten[w]) = Units(w)[Written(w) + 1]
    BY <1>0, <2>4, <2>6 DEF WritersInOrder
  <2>8. Units(w)[Written(w) + 1].kind # "byte"
    BY <2>1, <2>2, <2>7
  <2>9. ~(Written(w) + 1 > Headers(w) + 1)
    BY <1>3, <2>6, <2>8, UnitKinds
  <2>10. Written(w) <= Headers(w)
    BY <2>5, <2>9
  <2>11. QED
    BY <2>1, <2>2, <2>10
<1>9. ASSUME phase # "ended"
      PROVE  (\E start \in [1..(Len(order) + 1) -> Nat], read \in Nat :
                   Layout(start) /\ InputFollows(start, read) /\ ReaderFollows(start, read))'
  <2>1. PICK start \in [1..(Len(order) + 1) -> Nat], read \in Nat :
            Layout(start) /\ InputFollows(start, read) /\ ReaderFollows(start, read)
    BY <1>0, <1>9 DEF StreamFollowed
  <2>2. ~EndsTorn(input) /\ Whole(input) = Len(input)
    BY <1>1, <2>1 DEF InputFollows, Whole
  <2>3. Whole(input)' = Len(input) /\ (EndsTorn(input)' => input' # input)
    <3>1. CASE input' = input
      BY <2>2, <3>1 DEF Whole, EndsTorn
    <3>2. CASE input' # input
      <4>1. EndsTorn(input)'
        BY <1>5, <3>2 DEF EndsTorn
      <4>2. QED
        BY <1>4, <1>5, <3>2, <4>1 DEF Whole
    <3>3. QED
      BY <3>1, <3>2
  <2>4. \A m \in 1..Len(input) : input'[m] = input[m]
    BY <1>5
  <2>5. ASSUME NEW v
        PROVE  Units(v)' = Units(v) /\ Written(v)' = Written(v) /\ Headers(v)' = Headers(v)
    BY <1>2 DEF Units, Written, Length, Headers, Payload
  <2>6. InputFollows(start, read)'
    <3>1. (read + Whole(input) = IF order = <<>> THEN 0
                                ELSE start[Len(order)] + Written(order[Len(order)]))'
      BY <1>2, <2>1, <2>2, <2>3, <2>5 DEF InputFollows
    <3>2. (\A m \in 1..Whole(input), i \in 1..Len(order) :
               start[i] < read + m /\ read + m <= start[i + 1]
                   => input[m] = Units(order[i])[read + m - start[i]])'
      <4>1. ASSUME NEW m \in 1..Len(input), NEW i \in 1..Len(order),
                   start[i] < read + m, read + m <= start[i + 1]
            PROVE  input'[m] = Units(order[i])[read + m - start[i]]
        BY <2>1, <2>2, <2>4, <4>1 DEF InputFollows
      <4>2. \A i : Units(order[i])' = Units(order[i])
        BY <1>2 DEF Units, Payload
      <4>3. order' = order /\ Whole(input)' = Len(input)
        BY <1>2, <2>3
      <4>4. ASSUME NEW m \in 1..Len(input), NEW i \in 1..Len(order),
                   start[i] < read + m, read + m <= start[i + 1]
            PROVE  (input[m] = Units(order[i])[read + m - start[i]])'
        <5>1. input'[m] = Units(order[i])[read + m - start[i]]
          BY <4>1, <4>4
        <5>2. Units(order[i])' = Units(order[i])
          BY <4>2
        <5>3. QED
          BY <5>1, <5>2
      <4>5. QED
        BY <4>3, <4>4
    <3>3. (EndsTorn(input) => /\ cut /\ order # <<>>
                             /\ Written(order[Len(order)]) <= Headers(order[Len(order)]))'
      BY <1>1, <1>2, <1>8, <2>3, <2>5
    <3>4. QED
      BY <3>1, <3>2, <3>3 DEF InputFollows
  <2>7. Layout(start)' /\ ReaderFollows(start, read)'
    BY <1>2, <2>1, PlaceFixed
  <2>8. start \in [1..(Len(order)' + 1) -> Nat]
    BY <1>2, <2>1
  <2>9. QED
    BY <2>6, <2>7, <2>8
<1>10. StreamFollowed'
  BY <1>2, <1>9 DEF StreamFollowed
<1>11. EndIsBeforePayload'
  BY <1>0, <1>1, <1>2, NoEnd
<1>12. FramesIntact'
  BY <1>0, <1>2, <1>3, IntactFixed
<1>13. QED
  BY <1>6, <1>7, <1>10, <1>11, <1>12 DEF Inductive

-----------------------------------------------------------------------------
(* The steps of the reader.                                                *)

LEMMA WritersFixed ==
    ASSUME WriterTypes, WritersInOrder, UNCHANGED <<writerVars, cut>>
    PROVE  WriterTypes' /\ WritersInOrder'
<1>1. frame' = frame /\ mutex' = mutex /\ unwritten' = unwritten /\ order' = order /\ cut' = cut
  BY DEF writerVars
<1>2. WriterTypes'
  BY <1>1 DEF WriterTypes
<1>3. WritersInOrder'
  <2>1. (\A w \in Writers :
             /\ Len(unwritten[w]) <= Length(w)
             /\ \A i \in 1..Len(unwritten[w]) : unwritten[w][i] = Units(w)[Written(w) + i])'
    BY <1>1 DEF WritersInOrder, Length, Written, Units, Payload
  <2>2. QED
    BY <1>1, <2>1 DEF WritersInOrder
<1>4. QED
  BY <1>2, <1>3

\* The reader is behind the frames it delivered.
LEMMA Position ==
    ASSUME TypeOK, WritersInOrder,
           NEW start \in [1..(Len(order) + 1) -> Nat], NEW read \in Nat,
           ReaderFollows(start, read), NEW k \in Nat, k = Len(delivered)
    PROVE  /\ k <= Len(order) /\ Len(order) \in Nat
           /\ start[k + 1] \in Nat /\ start[k + 1] <= read
           /\ k < Len(order) =>
                 /\ order[k + 1] \in Writers
                 /\ Length(order[k + 1]) = Headers(order[k + 1]) + 1 + frame[order[k + 1]].size
                 /\ Headers(order[k + 1]) \in Nat /\ frame[order[k + 1]].size \in Nat
<1>1. order \in Seq(Writers) /\ WriterTypes
  BY DEF TypeOK, WriterTypes
<1>2. Len(order) \in Nat
  BY <1>1, LenProperties
<1>3. k <= Len(order) /\ start[k + 1] <= read
  BY DEF ReaderFollows
<1>4. k + 1 \in 1..(Len(order) + 1)
  BY <1>2, <1>3
<1>5. start[k + 1] \in Nat
  BY <1>4
<1>6. ASSUME k < Len(order)
      PROVE  /\ order[k + 1] \in Writers
             /\ Length(order[k + 1]) = Headers(order[k + 1]) + 1 + frame[order[k + 1]].size
             /\ Headers(order[k + 1]) \in Nat /\ frame[order[k + 1]].size \in Nat
  <2>1. k + 1 \in 1..Len(order)
    BY <1>2, <1>6
  <2>2. order[k + 1] \in Writers
    BY <1>1, <2>1, ElementOfSeq
  <2>3. QED
    BY <1>1, <2>2, Lengths
<1>7. QED
  BY <1>2, <1>3, <1>5, <1>6

\* In the headers of a frame it has not met the blank line.
LEMMA InHeaders ==
    ASSUME TypeOK, WritersInOrder,
           NEW start \in [1..(Len(order) + 1) -> Nat], NEW read \in Nat,
           ReaderFollows(start, read), NEW k \in Nat, k = Len(delivered),
           phase = "headers", k < Len(order)
    PROVE  /\ HeadersRead(order[k + 1], read - start[k + 1])
           /\ read - start[k + 1] <= Headers(order[k + 1])
           /\ read - start[k + 1] < Length(order[k + 1])
<1> DEFINE w == order[k + 1]
<1>1. /\ start[k + 1] \in Nat /\ start[k + 1] <= read
      /\ Length(w) = Headers(w) + 1 + frame[w].size /\ Headers(w) \in Nat /\ frame[w].size \in Nat
  BY Position
<1>2. HeadersRead(w, read - start[k + 1])
  <2>1. CASE start[k + 1] < read
    BY <2>1 DEF ReaderFollows
  <2>2. CASE ~(start[k + 1] < read)
    <3>1. start[k + 1] = read /\ read - start[k + 1] = 0
      BY <1>1, <2>2
    <3>2. length = NoLength
      BY <3>1 DEF ReaderFollows
    <3> HIDE DEF w
    <3>3. QED
      BY <1>1, <3>1, <3>2 DEF HeadersRead
  <2>3. QED
    BY <2>1, <2>2
<1>3. read - start[k + 1] <= Headers(w)
  BY <1>2 DEF HeadersRead
<1> HIDE DEF w
<1>4. read - start[k + 1] < Length(w)
  BY <1>1, <1>3
<1>5. QED
  BY <1>2, <1>3, <1>4 DEF w

\* In the payload of a frame it has taken the headers, the blank line and some bytes.
LEMMA InPayload ==
    ASSUME TypeOK, WritersInOrder,
           NEW start \in [1..(Len(order) + 1) -> Nat], NEW read \in Nat,
           ReaderFollows(start, read), NEW k \in Nat, k = Len(delivered),
           phase = "payload", Len(payload) < length
    PROVE  /\ k < Len(order) /\ Len(payload) \in Nat
           /\ read = start[k + 1] + Headers(order[k + 1]) + 1 + Len(payload)
           /\ read - start[k + 1] = Headers(order[k + 1]) + 1 + Len(payload)
           /\ BytesRead(order[k + 1])
           /\ read - start[k + 1] < Length(order[k + 1])
<1> DEFINE w == order[k + 1]
<1>1. /\ read = start[k + 1] + Headers(w) + 1 + Len(payload)
      /\ BytesRead(w) /\ start[k + 1] < read
  BY DEF ReaderFollows
<1>2. k < Len(order)
  BY <1>1 DEF ReaderFollows
<1>3. Len(payload) < frame[w].size
  BY <1>1 DEF BytesRead
<1>4. Len(payload) \in Nat
  <2>1. payload \in Seq(AnyUnit)
    BY DEF TypeOK, ReaderTypes
  <2>2. QED
    BY <2>1, LenProperties
<1>5. /\ start[k + 1] \in Nat
      /\ Length(w) = Headers(w) + 1 + frame[w].size /\ Headers(w) \in Nat /\ frame[w].size \in Nat
  BY <1>2, Position
<1> HIDE DEF w
<1>6. PICK s \in Nat, h \in Nat, p \in Nat, z \in Nat :
          s = start[k + 1] /\ h = Headers(w) /\ p = Len(payload) /\ z = frame[w].size
  BY <1>4, <1>5
<1>7. read = s + h + 1 + p /\ p < z /\ Length(w) = h + 1 + z
  BY <1>1, <1>3, <1>5, <1>6
<1>8. read - s = h + 1 + p /\ read - s < Length(w)
  BY <1>7
<1>9. QED
  BY <1>1, <1>2, <1>4, <1>6, <1>8 DEF w

\* When all that was written has been read, the reader is in the frame begun last.
LEMMA Consumed ==
    ASSUME WriterTypes, WritersInOrder, input \in Seq(AnyUnit), Whole(input) = 0,
           NEW start \in [1..(Len(order) + 1) -> Nat], NEW read \in Nat,
           Layout(start), InputFollows(start, read),
           NEW k \in Nat, k < Len(order), start[k + 1] <= read,
           read - start[k + 1] < Length(order[k + 1])
    PROVE  /\ k + 1 = Len(order) /\ order # <<>>
           /\ Written(order[Len(order)]) = read - start[k + 1]
<1> DEFINE n == Len(order)
<1>1. /\ n \in Nat /\ n # 0 /\ order # <<>>
      /\ \A i \in 1..n : /\ order[i] \in Writers /\ Length(order[i]) \in Nat
                         /\ Written(order[i]) \in Nat
  BY Lengths
<1>2. \A i \in 1..(n + 1) : start[i] \in Nat
  OBVIOUS
<1>3. n \in 1..n /\ n \in 1..(n + 1) /\ k + 1 \in 1..n /\ k + 1 \in 1..(n + 1) /\ k + 2 \in 1..(n + 1)
      /\ k + 1 + 1 = k + 2
  BY <1>1
<1>4. read = start[n] + Written(order[n])
  <2>1. read + 0 = start[n] + Written(order[n])
    BY <1>1 DEF InputFollows
  <2>2. QED
    BY <2>1
<1>5. start[k + 2] = start[k + 1] + Length(order[k + 1])
  BY <1>3 DEF Layout
<1>6. /\ start[n] \in Nat /\ start[k + 1] \in Nat /\ start[k + 2] \in Nat
      /\ Written(order[n]) \in Nat /\ Length(order[k + 1]) \in Nat
  BY <1>1, <1>2, <1>3
<1>7. k + 1 = n
  <2> SUFFICES ASSUME k + 1 # n PROVE FALSE
    OBVIOUS
  <2>1. k + 2 <= n
    BY <1>1
  <2>2. k + 2 < n => start[k + 2] < start[n]
    BY <1>3 DEF Layout
  <2> HIDE DEF n
  <2>3. k + 2 = n \/ k + 2 < n
    BY <1>1, <2>1
  <2>5. PICK s \in Nat, next \in Nat, last \in Nat, l \in Nat, p \in Nat :
            /\ s = start[k + 1] /\ next = start[k + 2] /\ last = start[n]
            /\ l = Length(order[k + 1]) /\ p = Written(order[n])
    BY <1>6
  <2>6. next <= last
    <3>1. CASE k + 2 = n
      <4>1. start[k + 2] = start[n]
        BY <3>1
      <4>2. next = last
        BY <2>5, <4>1
      <4>3. QED
        BY <4>2
    <3>2. CASE k + 2 < n
      <4>1. next < last
        BY <2>2, <2>5, <3>2
      <4>2. QED
        BY <4>1
    <3>3. QED
      BY <2>3, <3>1, <3>2
  <2>7. read = last + p /\ next = s + l /\ read - s < l
    BY <1>4, <1>5, <2>5
  <2>8. QED
    BY <2>6, <2>7
<1>8. QED
  BY <1>1, <1>4, <1>6, <1>7

\* The end of the stream, met before the bytes of the frame the reader is in, is met
\* before the bytes of every frame that was not delivered.
LEMMA EndBeforeBytes ==
    ASSUME WriterTypes, WritersInOrder, input \in Seq(AnyUnit), Whole(input) = 0,
           NEW start \in [1..(Len(order) + 1) -> Nat], NEW read \in Nat,
           Layout(start), InputFollows(start, read),
           NEW k \in Nat, k <= Len(order), start[k + 1] <= read,
           k < Len(order) => /\ read - start[k + 1] < Length(order[k + 1])
                             /\ read - start[k + 1] <= Headers(order[k + 1]) + 1
    PROVE  \A i \in 1..Len(order) : Len(unwritten[order[i]]) < frame[order[i]].size => i <= k
<1>1. Len(order) \in Nat
  BY Lengths
<1>2. CASE k < Len(order)
  <2>1. /\ k + 1 = Len(order) /\ order # <<>>
        /\ Written(order[Len(order)]) = read - start[k + 1]
    BY <1>2, Consumed
  <2>2. Len(order) \in 1..Len(order)
    BY <1>1, <2>1
  <2>3. PICK w \in Writers : w = order[Len(order)]
    BY <2>2, Lengths
  <2>4. /\ Length(w) = Headers(w) + 1 + frame[w].size /\ Headers(w) \in Nat /\ frame[w].size \in Nat
        /\ Len(unwritten[w]) \in Nat /\ Written(w) = Length(w) - Len(unwritten[w])
    BY Lengths
  <2>5. Written(w) <= Headers(w) + 1
    BY <1>2, <2>1, <2>3
  <2>6. ~(Len(unwritten[w]) < frame[w].size)
    BY <2>4, <2>5
  <2>7. \A i \in 1..Len(order) : i <= k \/ i = Len(order)
    BY <1>1, <2>1
  <2>8. QED
    BY <2>3, <2>6, <2>7
<1>3. CASE ~(k < Len(order))
  BY <1>1, <1>3
<1>4. QED
  BY <1>2, <1>3

\* The reader gives up.
LEMMA RefuseKeeps ==
    ASSUME Inductive, NEW errors, errors # {}, errors \subseteq {"ErrFraming", "EOF", "ErrUnexpectedEOF"},
           Refuse(errors), phase # "ended", input' \in Seq(AnyUnit),
           UNCHANGED <<writerVars, cut, ending>>,
           "EOF" \in errors =>
               /\ cut
               /\ \A i \in 1..Len(order) :
                      Len(unwritten[order[i]]) < frame[order[i]].size => i <= Len(delivered)
    PROVE  Inductive'
<1>0. /\ TypeOK /\ WriterTypes /\ ReaderTypes /\ WritersInOrder
      /\ EndIsBeforePayload /\ FramesIntact
  BY DEF Inductive, TypeOK
<1>1. /\ phase' = "ended" /\ failure' = errors /\ length' = length /\ sawHeader' = sawHeader
      /\ payload' = payload /\ delivered' = delivered
      /\ frame' = frame /\ unwritten' = unwritten /\ order' = order /\ cut' = cut /\ ending' = ending
  BY DEF Refuse, writerVars
<1>2. WriterTypes' /\ WritersInOrder'
  BY <1>0, WritersFixed
<1>3. ReaderTypes'
  BY <1>0, <1>1 DEF ReaderTypes
<1>4. StreamFollowed'
  BY <1>1 DEF StreamFollowed
<1>5. EndIsBeforePayload'
  <2>1. ending # "clean"
    BY <1>0 DEF EndIsBeforePayload
  <2>2. QED
    BY <1>1, <2>1 DEF EndIsBeforePayload
<1>6. FramesIntact'
  <2>1. order \in Seq(Writers) /\ delivered \in Seq(Seq(AnyUnit))
    BY <1>0 DEF WriterTypes, ReaderTypes
  <2>2. QED
    BY <1>0, <1>1, <2>1, IntactFixed
<1>7. QED
  BY <1>2, <1>3, <1>4, <1>5, <1>6 DEF Inductive, TypeOK

\* The reader goes on: what is to be shown of a step that refuses nothing.
LEMMA GoesOn ==
    ASSUME Inductive, ReaderTypes', UNCHANGED <<writerVars, cut, failure, ending>>,
           phase # "ended", phase' # "ended",
           \E start \in [1..(Len(order) + 1) -> Nat], read \in Nat :
               Layout(start) /\ InputFollows(start, read)' /\ ReaderFollows(start, read)',
           FramesIntact'
    PROVE  Inductive'
<1>0. TypeOK /\ WriterTypes /\ ReaderTypes /\ WritersInOrder /\ EndIsBeforePayload
  BY DEF Inductive, TypeOK
<1>1. frame' = frame /\ unwritten' = unwritten /\ order' = order /\ cut' = cut
      /\ failure' = failure /\ ending' = ending
  BY DEF writerVars
<1>2. WriterTypes' /\ WritersInOrder'
  BY <1>0, WritersFixed
<1>3. StreamFollowed'
  <2>1. PICK start \in [1..(Len(order) + 1) -> Nat], read \in Nat :
            Layout(start) /\ InputFollows(start, read)' /\ ReaderFollows(start, read)'
    OBVIOUS
  <2>2. Layout(start)'
    BY <1>1, <2>1 DEF Layout, Length, Units, Payload
  <2>3. start \in [1..(Len(order)' + 1) -> Nat]
    BY <1>1
  <2>4. QED
    BY <2>1, <2>2, <2>3 DEF StreamFollowed
<1>4. EndIsBeforePayload'
  <2>1. failure = {}
    BY <1>0 DEF ReaderTypes
  <2>2. ending # "clean"
    BY <1>0 DEF EndIsBeforePayload
  <2>3. QED
    BY <1>1, <2>1, <2>2 DEF EndIsBeforePayload
<1>5. QED
  BY <1>2, <1>3, <1>4 DEF Inductive, TypeOK

\* A header of the frame, and then the next one: they name one length at most.
LEMMA HeaderTaken ==
    ASSUME ReaderTypes, frame \in [Writers -> FrameChoices], NEW w \in Writers, NEW c \in Nat,
           HeadersRead(w, c), c + 1 <= Headers(w), frame' = frame,
           \/ frame[w].headers[c + 1].kind = "other" /\ length' = length
           \/ /\ frame[w].headers[c + 1].kind = "length" /\ length = NoLength
              /\ length' = frame[w].headers[c + 1].declares
    PROVE  HeadersRead(w, c + 1)' /\ length' \in 0..NoLength
<1> DEFINE h == frame[w].headers
           size == frame[w].size
<1>1. /\ Headers(w)' = Headers(w) /\ Headers(w) \in Nat /\ frame'[w].headers = h
      /\ frame'[w].size = size
  BY FrameShape DEF Headers
<1>2. size \in 0..MaxPayload /\ size # NoLength /\ size \in 0..NoLength
  <2>1. size \in 0..MaxPayload
    BY FrameShape
  <2>2. QED
    BY <2>1, FramingAssumption DEF NoLength
<1>3. length \in 0..NoLength
  BY DEF ReaderTypes
<1>4. c + 1 \in 1..(c + 1) /\ \A j \in 1..(c + 1) : j \in 1..c \/ j = c + 1
  OBVIOUS
<1>5. CASE h[c + 1].kind = "other" /\ length' = length
  <2>1. CASE length = NoLength
    <3>1. \A i \in 1..c : h[i].kind = "other"
      BY <2>1 DEF HeadersRead
    <3>2. \A i \in 1..(c + 1) : h[i].kind = "other"
      BY <1>4, <1>5, <3>1
    <3>3. QED
      BY <1>1, <1>3, <1>5, <2>1, <3>2 DEF HeadersRead
  <2>2. CASE length # NoLength
    <3>1. PICK i \in 1..c : h[i].kind = "length" /\ \A j \in 1..c \ {i} : h[j].kind = "other"
      BY <2>2 DEF HeadersRead
    <3>2. i \in 1..(c + 1) /\ \A j \in 1..(c + 1) \ {i} : h[j].kind = "other"
      BY <1>4, <1>5, <3>1
    <3>3. length = size
      BY <2>2 DEF HeadersRead
    <3>4. QED
      BY <1>1, <1>3, <1>5, <2>2, <3>1, <3>2, <3>3 DEF HeadersRead
  <2>3. QED
    BY <2>1, <2>2
<1>6. CASE h[c + 1].kind = "length" /\ length = NoLength /\ length' = h[c + 1].declares
  <2>1. \A i \in 1..c : h[i].kind = "other"
    BY <1>6 DEF HeadersRead
  <2>2. \A j \in 1..(c + 1) \ {c + 1} : h[j].kind = "other"
    BY <1>4, <2>1
  <2>3. c + 1 \in 1..Headers(w)
    BY <1>1
  <2>4. length' = size
    BY <1>6, <2>3, FrameShape
  <2>5. QED
    BY <1>1, <1>2, <1>4, <1>6, <2>2, <2>4 DEF HeadersRead
<1>7. QED
  BY <1>5, <1>6

LEMMA ReadLineKeeps ==
    ASSUME Inductive, ReadLine
    PROVE  Inductive'
<1>0. /\ TypeOK /\ WriterTypes /\ ReaderTypes /\ WritersInOrder /\ StreamFollowed /\ FramesIntact
      /\ order \in Seq(Writers) /\ delivered \in Seq(Seq(AnyUnit)) /\ input \in Seq(AnyUnit)
      /\ frame \in [Writers -> FrameChoices]
  BY DEF Inductive, TypeOK, WriterTypes, ReaderTypes
<1>1. /\ phase = "headers" /\ input # <<>> /\ Head(input).kind # "torn"
      /\ input' = Tail(input) /\ UNCHANGED <<writerVars, cut, ending>>
  BY DEF ReadLine, Unit
<1>2. frame' = frame /\ order' = order
  BY <1>1 DEF writerVars
<1>3. Whole(input) >= 1 /\ input' \in Seq(AnyUnit)
  <2>1. Head(input) # Torn
    <3>1. 0 \in 0..MaxPayload
      BY FramingAssumption
    <3>2. QED
      BY <1>1, <3>1, LineTyped
  <2>2. Whole(input) >= 1
    BY <1>0, <1>1, <2>1, WholeOf
  <2>3. Tail(input) \in Seq(AnyUnit)
    BY <1>0, <1>1, HeadTail
  <2>4. QED
    BY <1>1, <2>2, <2>3
<1>4. CASE Refuse({"ErrFraming"})
  <2> DEFINE errors == {"ErrFraming"}
  <2>1. /\ errors # {} /\ errors \subseteq {"ErrFraming", "EOF", "ErrUnexpectedEOF"}
        /\ "EOF" \notin errors
    OBVIOUS
  <2> HIDE DEF errors
  <2>2. Refuse(errors)
    BY <1>4 DEF errors
  <2>3. QED
    BY <1>1, <1>3, <2>1, <2>2, RefuseKeeps
<1>5. CASE ~Refuse({"ErrFraming"})
  <2>1. PICK start \in [1..(Len(order) + 1) -> Nat], read \in Nat :
            Layout(start) /\ InputFollows(start, read) /\ ReaderFollows(start, read)
    BY <1>0, <1>1 DEF StreamFollowed
  <2>0. PICK k \in Nat : k = Len(delivered)
    BY <1>0, LenProperties
  <2>2. /\ k \in Nat /\ k <= Len(order) /\ start[k + 1] \in Nat /\ start[k + 1] <= read
        /\ k < Len(order) => /\ read - start[k + 1] < Length(order[k + 1])
                             /\ HeadersRead(order[k + 1], read - start[k + 1])
                             /\ read - start[k + 1] <= Headers(order[k + 1])
    <3>1. k \in Nat /\ k <= Len(order) /\ start[k + 1] \in Nat /\ start[k + 1] <= read
      BY <1>0, <2>0, <2>1, Position
    <3>2. QED
      BY <1>0, <1>1, <2>0, <2>1, <3>1, InHeaders
  <2>3. /\ k < Len(order) /\ order[k + 1] \in Writers
        /\ read - start[k + 1] + 1 \in 1..Length(order[k + 1])
        /\ Head(input) = Units(order[k + 1])[read - start[k + 1] + 1]
    BY <1>0, <1>3, <2>1, <2>2, NextUnit
  <2>4. PICK w \in Writers : w = order[k + 1]
    BY <2>3
  <2>5. InputFollows(start, read + 1)'
    BY <1>0, <1>1, <1>3, <2>1, InputRead
  <2>14. PICK c \in Nat : c = read - start[k + 1]
    BY <2>2
  <2>6. /\ start[k + 1] \in Nat /\ start[k + 1] < read + 1 /\ start[k + 1] <= read + 1
        /\ read + 1 - start[k + 1] = c + 1 /\ read = start[k + 1] + c
    <3>1. start[k + 1] \in Nat /\ start[k + 1] <= read
      BY <2>2
    <3>2. PICK b \in Nat : b = start[k + 1]
      BY <3>1
    <3>3. b <= read /\ c = read - b
      BY <2>14, <3>1, <3>2
    <3>4. b < read + 1 /\ b <= read + 1 /\ read + 1 - b = c + 1 /\ read = b + c
      BY <3>3
    <3>5. QED
      BY <3>2, <3>4
  <2>7. /\ HeadersRead(w, c) /\ c + 1 \in 1..Length(w) /\ Head(input) = Units(w)[c + 1]
        /\ c <= Headers(w)
    BY <2>2, <2>3, <2>4, <2>14
  <2>8. /\ Head(input).kind = "blank" <=> c + 1 = Headers(w) + 1
        /\ Head(input).kind = "byte" <=> c + 1 > Headers(w) + 1
    BY <1>0, <2>7, UnitKinds
  <2>9. Headers(w) \in Nat /\ \A i \in 1..Headers(w) : Units(w)[i] = frame[w].headers[i]
    BY <1>0, UnitsShape
  <2>10. payload = <<>>
    BY <1>1, <2>1 DEF ReaderFollows
  <2>11. CASE Head(input).kind = "blank"
    <3>1. c = Headers(w)
      BY <2>6, <2>8, <2>9, <2>11
    <3>2. BlankLine
      BY <1>5, <2>11 DEF ReadLine, Unit, RefusedLine
    <3>3. /\ length # NoLength /\ phase' = "payload"
          /\ UNCHANGED <<length, sawHeader, payload, delivered, failure>>
      BY <1>5, <3>2 DEF BlankLine
    <3>4. ReaderTypes'
      BY <1>0, <1>1, <1>3, <3>3 DEF ReaderTypes
    <3>5. WellFormed(w) /\ length = frame[w].size
      <4>1. length = frame[w].size
        BY <2>7, <3>3 DEF HeadersRead
      <4>2. PICK i \in 1..c : /\ frame[w].headers[i].kind = "length"
                              /\ \A j \in 1..c \ {i} : frame[w].headers[j].kind = "other"
        BY <2>7, <3>3 DEF HeadersRead
      <4>3. DOMAIN frame[w].headers = 1..c
        <5>1. frame[w].headers \in Seq(AnyUnit)
          BY <1>0, FrameShape
        <5>2. QED
          BY <3>1, <5>1, LenProperties DEF Headers
      <4>4. QED
        BY <4>1, <4>2, <4>3 DEF WellFormed
    <3>6. BytesRead(w)'
      <4>1. Len(payload) = 0 /\ length \in Nat
        BY <1>0, <2>10, <3>3, FramingAssumption DEF ReaderTypes, NoLength
      <4>2. WellFormed(w)' /\ length' = frame'[w].size /\ Len(payload)' = 0 /\ length' = length
        BY <1>2, <3>3, <3>5, <4>1 DEF WellFormed
      <4>3. QED
        BY <4>1, <4>2 DEF BytesRead
    <3>7. ReaderFollows(start, read + 1)'
      <4>1. Len(delivered)' = k /\ order' = order /\ order[k + 1] = w /\ phase' = "payload"
        BY <1>2, <2>0, <2>4, <3>3
      <4>2. Headers(w)' = Headers(w) /\ Len(payload)' = 0
        BY <1>2, <2>10, <3>3 DEF Headers
      <4>3. read + 1 = start[k + 1] + Headers(w) + 1 + 0
        BY <2>2, <2>6, <2>9, <3>1
      <4>4. QED
        BY <2>2, <2>3, <2>6, <3>6, <4>1, <4>2, <4>3 DEF ReaderFollows
    <3>8. FramesIntact'
      BY <1>0, <1>2, <3>3, IntactFixed
    <3>9. read + 1 \in Nat
      OBVIOUS
    <3>10. phase # "ended" /\ phase' # "ended" /\ UNCHANGED <<writerVars, cut, failure, ending>>
      BY <1>1, <3>3
    <3>11. QED
      BY <2>1, <2>5, <3>4, <3>7, <3>8, <3>9, <3>10, GoesOn
  <2>12. CASE Head(input).kind # "blank"
    <3>1. c + 1 <= Headers(w) /\ c + 1 \in 1..Headers(w)
      BY <2>6, <2>7, <2>8, <2>9, <2>12
    <3>2. Head(input) = frame[w].headers[c + 1]
      BY <2>7, <2>9, <3>1
    <3>3. HeaderLine
      BY <1>5, <2>12 DEF ReadLine, Unit, RefusedLine
    <3>4. /\ sawHeader' = TRUE /\ UNCHANGED <<phase, payload, delivered, failure>>
          /\ \/ frame[w].headers[c + 1].kind = "other" /\ length' = length
             \/ /\ frame[w].headers[c + 1].kind = "length" /\ length = NoLength
                /\ length' = frame[w].headers[c + 1].declares
      BY <3>2, <3>3 DEF HeaderLine, Unit
    <3>5. HeadersRead(w, c + 1)' /\ length' \in 0..NoLength
      <4>1. \/ frame[w].headers[c + 1].kind = "other" /\ length' = length
            \/ /\ frame[w].headers[c + 1].kind = "length" /\ length = NoLength
               /\ length' = frame[w].headers[c + 1].declares
        BY <3>4
      <4>2. c \in Nat /\ HeadersRead(w, c) /\ c + 1 <= Headers(w) /\ frame' = frame
            /\ ReaderTypes /\ frame \in [Writers -> FrameChoices]
        BY <1>0, <1>2, <2>6, <2>7, <3>1
      <4>3. HeadersRead(w, c + 1)'
        BY <4>1, <4>2, HeaderTaken
      <4>4. length' \in 0..NoLength
        BY <4>1, <4>2, HeaderTaken
      <4>5. QED
        BY <4>3, <4>4
    <3>6. ReaderTypes'
      BY <1>0, <1>1, <1>3, <3>4, <3>5 DEF ReaderTypes
    <3>7. ReaderFollows(start, read + 1)'
      <4>1. Len(delivered)' = k /\ order' = order /\ order[k + 1] = w /\ phase' = "headers"
            /\ payload' = <<>> /\ sawHeader' = TRUE
        BY <1>1, <1>2, <2>0, <2>4, <2>10, <3>4
      <4>2. start[k + 1] # read + 1
        BY <2>6
      <4>3. HeadersRead(w, read + 1 - start[k + 1])'
        <5>1. read + 1 - start[k + 1] = c + 1
          BY <2>6
        <5>2. QED
          BY <3>5, <5>1 DEF HeadersRead
      <4>4. k < Len(order) /\ k <= Len(order)
        BY <2>2, <2>3
      <4>5. QED
        BY <2>6, <4>1, <4>2, <4>3, <4>4 DEF ReaderFollows
    <3>8. FramesIntact'
      BY <1>0, <1>2, <3>4, IntactFixed
    <3>9. read + 1 \in Nat
      OBVIOUS
    <3>10. phase # "ended" /\ phase' # "ended" /\ UNCHANGED <<writerVars, cut, failure, ending>>
      BY <1>1, <3>4
    <3>11. QED
      BY <2>1, <2>5, <3>6, <3>7, <3>8, <3>9, <3>10, GoesOn
  <2>13. QED
    BY <2>11, <2>12
<1>6. QED
  BY <1>4, <1>5

LEMMA HeadersEndKeeps ==
    ASSUME Inductive, HeadersEnd
    PROVE  Inductive'
<1>0. /\ TypeOK /\ WriterTypes /\ ReaderTypes /\ WritersInOrder /\ StreamFollowed
      /\ order \in Seq(Writers) /\ delivered \in Seq(Seq(AnyUnit)) /\ input \in Seq(AnyUnit)
  BY DEF Inductive, TypeOK, WriterTypes, ReaderTypes
<1>1. /\ phase = "headers" /\ cut
      /\ input = <<>> \/ input = <<Torn>>
      /\ UNCHANGED <<writerVars, input, cut, ending>>
  BY DEF HeadersEnd
<1>2. PICK errors : /\ errors \in {{"ErrFraming", "EOF"}, {"EOF"}}
                    /\ Refuse(errors)
  BY DEF HeadersEnd
<1>3. Whole(input) = 0
  BY <1>0, <1>1, WholeOf
<1>4. PICK start \in [1..(Len(order) + 1) -> Nat], read \in Nat :
          Layout(start) /\ InputFollows(start, read) /\ ReaderFollows(start, read)
  BY <1>0, <1>1 DEF StreamFollowed
<1>11. PICK k \in Nat : k = Len(delivered)
  BY <1>0, LenProperties
<1> DEFINE c == read - start[k + 1]
<1>5. /\ k \in Nat /\ k <= Len(order) /\ start[k + 1] \in Nat /\ start[k + 1] <= read
      /\ k < Len(order) => /\ c < Length(order[k + 1])
                           /\ c <= Headers(order[k + 1])
                           /\ Headers(order[k + 1]) \in Nat
  <2>1. /\ k \in Nat /\ k <= Len(order) /\ start[k + 1] \in Nat /\ start[k + 1] <= read
        /\ k < Len(order) => Headers(order[k + 1]) \in Nat
    BY <1>0, <1>4, <1>11, Position
  <2>2. k < Len(order) => c < Length(order[k + 1]) /\ c <= Headers(order[k + 1])
    BY <1>0, <1>1, <1>4, <1>11, InHeaders
  <2>3. QED
    BY <2>1, <2>2
<1>6. k < Len(order) => c < Length(order[k + 1]) /\ c <= Headers(order[k + 1]) + 1
  BY <1>5
<1>7. \A i \in 1..Len(order) : Len(unwritten[order[i]]) < frame[order[i]].size => i <= k
  BY <1>0, <1>3, <1>4, <1>5, <1>6, EndBeforeBytes
<1>8. errors # {} /\ errors \subseteq {"ErrFraming", "EOF", "ErrUnexpectedEOF"}
  BY <1>2
<1>9. input' \in Seq(AnyUnit) /\ UNCHANGED <<writerVars, cut, ending>>
  BY <1>0, <1>1
<1>10. QED
  BY <1>1, <1>2, <1>7, <1>8, <1>9, <1>11, RefuseKeeps

LEMMA ReadByteKeeps ==
    ASSUME Inductive, ReadByte
    PROVE  Inductive'
<1>0. /\ TypeOK /\ WriterTypes /\ ReaderTypes /\ WritersInOrder /\ StreamFollowed /\ FramesIntact
      /\ order \in Seq(Writers) /\ delivered \in Seq(Seq(AnyUnit)) /\ input \in Seq(AnyUnit)
      /\ frame \in [Writers -> FrameChoices] /\ payload \in Seq(AnyUnit)
  BY DEF Inductive, TypeOK, WriterTypes, ReaderTypes
<1>1. /\ phase = "payload" /\ Len(payload) < length /\ input # <<>>
      /\ payload' = Append(payload, Head(input)) /\ input' = Tail(input)
      /\ UNCHANGED <<writerVars, cut, phase, length, sawHeader, delivered, failure, ending>>
  BY DEF ReadByte, Unit
<1>2. /\ frame' = frame /\ order' = order /\ cut' = cut /\ phase' = phase /\ length' = length
      /\ sawHeader' = sawHeader /\ delivered' = delivered /\ failure' = failure /\ ending' = ending
  BY <1>1 DEF writerVars
<1>3. PICK start \in [1..(Len(order) + 1) -> Nat], read \in Nat :
          Layout(start) /\ InputFollows(start, read) /\ ReaderFollows(start, read)
  BY <1>0, <1>1 DEF StreamFollowed
<1>21. PICK k \in Nat : k = Len(delivered)
  BY <1>0, LenProperties
<1> DEFINE c == read - start[k + 1]
<1>4. /\ k \in Nat /\ k <= Len(order) /\ start[k + 1] \in Nat /\ start[k + 1] <= read
      /\ k < Len(order) /\ order[k + 1] \in Writers /\ c < Length(order[k + 1])
      /\ c = Headers(order[k + 1]) + 1 + Len(payload)
      /\ BytesRead(order[k + 1]) /\ Len(payload) \in Nat
      /\ Headers(order[k + 1]) \in Nat /\ frame[order[k + 1]].size \in Nat
  <2>1. k \in Nat /\ k <= Len(order) /\ start[k + 1] \in Nat /\ start[k + 1] <= read
    BY <1>0, <1>3, <1>21, Position
  <2>2. /\ k < Len(order) /\ c < Length(order[k + 1])
        /\ c = Headers(order[k + 1]) + 1 + Len(payload)
        /\ BytesRead(order[k + 1]) /\ Len(payload) \in Nat
    BY <1>0, <1>1, <1>3, <1>21, InPayload
  <2>3. /\ order[k + 1] \in Writers
        /\ Headers(order[k + 1]) \in Nat /\ frame[order[k + 1]].size \in Nat
    BY <1>0, <1>3, <1>21, <2>2, Position
  <2>4. QED
    BY <2>1, <2>2, <2>3
<1>5. Whole(input) >= 1
  <2> SUFFICES ASSUME Whole(input) = 0 PROVE FALSE
    BY <1>0, WholeOf
  <2>0. k \in Nat /\ k < Len(order) /\ start[k + 1] <= read /\ c < Length(order[k + 1])
    BY <1>4
  <2>1. k + 1 = Len(order) /\ Written(order[Len(order)]) = c
    <3>1. QED
      BY <1>0, <1>3, <2>0, Consumed
  <2>2. EndsTorn(input)
    BY <1>0, <1>1, WholeOf
  <2>3. Written(order[Len(order)]) <= Headers(order[Len(order)])
    BY <1>3, <2>2 DEF InputFollows
  <2>4. c <= Headers(order[k + 1])
    BY <2>1, <2>3
  <2>5. QED
    BY <1>4, <2>4
<1>6. /\ c + 1 \in 1..Length(order[k + 1])
      /\ Head(input) = Units(order[k + 1])[c + 1]
  BY <1>0, <1>3, <1>4, <1>5, NextUnit
<1>7. PICK w \in Writers : w = order[k + 1]
  BY <1>4
<1>8. InputFollows(start, read + 1)'
  BY <1>0, <1>1, <1>3, <1>5, InputRead
<1>9. Head(input) = Byte(w, Len(payload) + 1)
  <2>1. Len(payload) + 1 \in 1..frame[w].size
    <3>1. length = frame[w].size
      BY <1>4, <1>7 DEF BytesRead
    <3>2. Len(payload) \in Nat /\ frame[w].size \in Nat
      BY <1>4, <1>7
    <3>3. QED
      BY <1>1, <3>1, <3>2
  <2>2. Units(w)[Headers(w) + 1 + (Len(payload) + 1)] = Byte(w, Len(payload) + 1)
    BY <1>0, <2>1, UnitsShape
  <2>3. c + 1 = Headers(w) + 1 + (Len(payload) + 1)
    BY <1>4, <1>7
  <2>4. QED
    BY <1>6, <1>7, <2>2, <2>3
<1> DEFINE u == Head(input)
           r == Append(payload, u)
<1>10. Tail(input) \in Seq(AnyUnit) /\ u \in AnyUnit
  BY <1>0, <1>1, HeadTail
<1> HIDE DEF u
<1>11. r \in Seq(AnyUnit) /\ Len(r) = Len(payload) + 1
  BY <1>0, <1>10, Extended
<1>12. \A i \in 1..Len(payload) : r[i] = payload[i]
  BY <1>0, <1>10, Extended
<1>13. r[Len(payload) + 1] = Byte(w, Len(payload) + 1)
  <2>1. r[Len(payload) + 1] = u
    BY <1>0, <1>10, Extended
  <2>2. QED
    BY <1>9, <2>1 DEF u
<1>14. payload' = r
  BY <1>1 DEF u
<1> HIDE DEF r
<1>15. ReaderTypes'
  <2>1. input' \in Seq(AnyUnit) /\ payload' \in Seq(AnyUnit)
    BY <1>1, <1>10, <1>11, <1>14
  <2>2. QED
    BY <1>0, <1>2, <2>1 DEF ReaderTypes
<1>16. BytesRead(w)'
  <2>1. /\ WellFormed(w) /\ length = frame[w].size
        /\ \A i \in 1..Len(payload) : payload[i] = Byte(w, i)
    BY <1>4, <1>7 DEF BytesRead
  <2>2. \A i \in 1..(Len(payload) + 1) : r[i] = Byte(w, i)
    <3>1. \A i \in 1..(Len(payload) + 1) : i \in 1..Len(payload) \/ i = Len(payload) + 1
      BY <1>4
    <3>2. QED
      BY <1>12, <1>13, <2>1, <3>1
  <2>3. Len(payload) + 1 <= length /\ length \in Nat
    <3>1. length \in Nat /\ Len(payload) \in Nat
      BY <1>4, <1>7, <2>1
    <3>2. QED
      BY <1>1, <3>1
  <2>4. WellFormed(w)' /\ length' = length /\ length' = frame'[w].size
        /\ Len(payload)' = Len(payload) + 1
    BY <1>2, <1>11, <1>14, <2>1 DEF WellFormed
  <2>5. (\A i \in 1..Len(payload) : payload[i] = Byte(w, i))'
    BY <1>11, <1>14, <2>2 DEF Byte
  <2>6. QED
    BY <2>3, <2>4, <2>5 DEF BytesRead
<1>17. ReaderFollows(start, read + 1)'
  <2>1. Len(delivered)' = k /\ order' = order /\ order[k + 1] = w /\ phase' = "payload"
    BY <1>1, <1>2, <1>7, <1>21
  <2>2. Headers(w)' = Headers(w) /\ Len(payload)' = Len(payload) + 1
    BY <1>2, <1>11, <1>14 DEF Headers
  <2>3. read + 1 = start[k + 1] + Headers(w) + 1 + (Len(payload) + 1) /\ start[k + 1] < read + 1
    <3>1. Headers(w) \in Nat /\ read - start[k + 1] = Headers(w) + 1 + Len(payload)
          /\ start[k + 1] \in Nat /\ Len(payload) \in Nat
      BY <1>4, <1>7
    <3>2. read = start[k + 1] + Headers(w) + 1 + Len(payload)
      BY <1>0, <1>1, <1>3, <1>7, <1>21, InPayload
    <3>3. start[k + 1] < read + 1
      BY <1>4
    <3>4. PICK a \in Nat, b \in Nat, d \in Nat :
              a = start[k + 1] /\ b = Headers(w) /\ d = Len(payload)
      BY <3>1
    <3>5. read + 1 = a + b + 1 + (d + 1)
      <4>1. read = a + b + 1 + d
        BY <3>2, <3>4
      <4>2. QED
        BY <4>1
    <3>6. QED
      BY <3>3, <3>4, <3>5
  <2>4. start[k + 1] <= read + 1
    BY <1>4
  <2> HIDE DEF c
  <2>5. QED
    BY <1>4, <1>16, <2>1, <2>2, <2>3, <2>4 DEF ReaderFollows
<1>18. FramesIntact'
  BY <1>0, <1>2, IntactFixed
<1>19. phase # "ended" /\ phase' # "ended" /\ UNCHANGED <<writerVars, cut, failure, ending>>
       /\ read + 1 \in Nat
  BY <1>1
<1>20. QED
  BY <1>3, <1>8, <1>15, <1>17, <1>18, <1>19, GoesOn

LEMMA PayloadEndsKeeps ==
    ASSUME Inductive, PayloadEnds
    PROVE  Inductive'
<1>0. /\ TypeOK /\ WriterTypes /\ ReaderTypes /\ WritersInOrder /\ StreamFollowed
      /\ order \in Seq(Writers) /\ delivered \in Seq(Seq(AnyUnit)) /\ input \in Seq(AnyUnit)
      /\ payload \in Seq(AnyUnit)
  BY DEF Inductive, TypeOK, WriterTypes, ReaderTypes
<1> DEFINE errors == {"ErrFraming", IF payload = <<>> THEN "EOF" ELSE "ErrUnexpectedEOF"}
<1>1. /\ phase = "payload" /\ Len(payload) < length /\ cut /\ input = <<>>
      /\ Refuse(errors) /\ UNCHANGED <<writerVars, input, cut, ending>>
  BY DEF PayloadEnds
<1>2. Whole(input) = 0
  BY <1>0, <1>1, WholeOf
<1>3. PICK start \in [1..(Len(order) + 1) -> Nat], read \in Nat :
          Layout(start) /\ InputFollows(start, read) /\ ReaderFollows(start, read)
  BY <1>0, <1>1 DEF StreamFollowed
<1>21. PICK k \in Nat : k = Len(delivered)
  BY <1>0, LenProperties
<1> DEFINE c == read - start[k + 1]
<1>4. /\ k \in Nat /\ k <= Len(order) /\ start[k + 1] \in Nat /\ start[k + 1] <= read
      /\ k < Len(order) /\ c < Length(order[k + 1])
      /\ c = Headers(order[k + 1]) + 1 + Len(payload)
      /\ Headers(order[k + 1]) \in Nat
  <2>1. k \in Nat /\ k <= Len(order) /\ start[k + 1] \in Nat /\ start[k + 1] <= read
    BY <1>0, <1>3, <1>21, Position
  <2>2. /\ k < Len(order) /\ c < Length(order[k + 1])
        /\ c = Headers(order[k + 1]) + 1 + Len(payload)
    BY <1>0, <1>1, <1>3, <1>21, InPayload
  <2>3. Headers(order[k + 1]) \in Nat
    BY <1>0, <1>3, <1>21, <2>2, Position
  <2>4. QED
    BY <2>1, <2>2, <2>3
<1>5. payload = <<>> =>
          \A i \in 1..Len(order) : Len(unwritten[order[i]]) < frame[order[i]].size => i <= k
  <2> SUFFICES ASSUME payload = <<>>
               PROVE  \A i \in 1..Len(order) :
                          Len(unwritten[order[i]]) < frame[order[i]].size => i <= k
    OBVIOUS
  <2>1. Len(payload) = 0
    OBVIOUS
  <2>2. c <= Headers(order[k + 1]) + 1
    BY <1>4, <2>1
  <2>3. QED
    BY <1>0, <1>2, <1>3, <1>4, <2>2, EndBeforeBytes
<1>6. /\ errors # {} /\ errors \subseteq {"ErrFraming", "EOF", "ErrUnexpectedEOF"}
      /\ "EOF" \in errors => payload = <<>>
  OBVIOUS
<1> HIDE DEF errors
<1>7. input' \in Seq(AnyUnit) /\ UNCHANGED <<writerVars, cut, ending>>
  BY <1>0, <1>1
<1>8. QED
  BY <1>1, <1>5, <1>6, <1>7, <1>21, RefuseKeeps

LEMMA ReturnKeeps ==
    ASSUME Inductive, Return
    PROVE  Inductive'
<1>0. /\ TypeOK /\ WriterTypes /\ ReaderTypes /\ WritersInOrder /\ StreamFollowed /\ FramesIntact
      /\ order \in Seq(Writers) /\ delivered \in Seq(Seq(AnyUnit)) /\ input \in Seq(AnyUnit)
      /\ frame \in [Writers -> FrameChoices] /\ payload \in Seq(AnyUnit) /\ unwritten' = unwritten
  BY DEF Inductive, TypeOK, WriterTypes, ReaderTypes, Return, writerVars
<1>1. /\ phase = "payload" /\ Len(payload) = length
      /\ delivered' = Append(delivered, payload) /\ phase' = "headers" /\ length' = NoLength
      /\ sawHeader' = FALSE /\ payload' = <<>>
      /\ UNCHANGED <<writerVars, input, cut, failure, ending>>
  BY DEF Return
<1>2. /\ frame' = frame /\ order' = order /\ input' = input /\ cut' = cut
      /\ failure' = failure /\ ending' = ending
  BY <1>1 DEF writerVars
<1>3. PICK start \in [1..(Len(order) + 1) -> Nat], read \in Nat :
          Layout(start) /\ InputFollows(start, read) /\ ReaderFollows(start, read)
  BY <1>0, <1>1 DEF StreamFollowed
<1> DEFINE k == Len(delivered)
<1>4. k \in Nat /\ Len(order) \in Nat /\ Len(payload) \in Nat /\ DOMAIN delivered = 1..k
  BY <1>0, LenProperties
<1>5. /\ k < Len(order) /\ BytesRead(order[k + 1])
      /\ read = start[k + 1] + Headers(order[k + 1]) + 1 + Len(payload)
  BY <1>1, <1>3 DEF ReaderFollows
<1>6. k + 1 \in 1..Len(order) /\ k + 1 \in 1..(Len(order) + 1) /\ k + 1 + 1 \in 1..(Len(order) + 1)
  BY <1>4, <1>5
<1>7. PICK w \in Writers : w = order[k + 1]
  BY <1>0, <1>6, ElementOfSeq
<1>8. /\ Length(w) = Headers(w) + 1 + frame[w].size /\ Headers(w) \in Nat /\ frame[w].size \in Nat
      /\ Payload(w) \in Seq(AnyUnit) /\ Len(Payload(w)) = frame[w].size
  BY <1>0, UnitsShape
<1>9. /\ WellFormed(w) /\ length = frame[w].size
      /\ \A i \in 1..Len(payload) : payload[i] = Byte(w, i)
  BY <1>5, <1>7 DEF BytesRead
<1>10. start[k + 1 + 1] = read
  <2>1. start[k + 1 + 1] = start[k + 1] + Length(w)
    BY <1>3, <1>6, <1>7 DEF Layout
  <2>2. start[k + 1] \in Nat
    BY <1>6
  <2>3. read = start[k + 1] + Headers(w) + 1 + frame[w].size
    BY <1>1, <1>5, <1>7, <1>9
  <2>4. Length(w) = Headers(w) + 1 + frame[w].size /\ Headers(w) \in Nat /\ frame[w].size \in Nat
    BY <1>8
  <2>5. start[k + 1] + Length(w) = start[k + 1] + Headers(w) + 1 + frame[w].size
    <3>1. PICK a \in Nat, b \in Nat, d \in Nat :
              a = start[k + 1] /\ b = Headers(w) /\ d = frame[w].size
      BY <2>2, <2>4
    <3>2. Length(w) = b + 1 + d
      BY <2>4, <3>1
    <3>3. a + (b + 1 + d) = a + b + 1 + d
      OBVIOUS
    <3>4. QED
      BY <3>1, <3>2, <3>3
  <2>6. QED
    BY <2>1, <2>3, <2>5
<1>11. payload = Payload(w)
  <2>1. Len(payload) = Len(Payload(w))
    BY <1>1, <1>8, <1>9
  <2>2. \A i \in 1..Len(payload) : payload[i] = Payload(w)[i]
    BY <1>1, <1>9 DEF Payload
  <2> DEFINE p == Payload(w)
  <2>3. /\ payload \in Seq(AnyUnit) /\ p \in Seq(AnyUnit) /\ Len(payload) = Len(p)
        /\ \A i \in 1..Len(payload) : payload[i] = p[i]
    BY <1>0, <1>8, <2>1, <2>2
  <2> HIDE DEF p
  <2>4. payload = p
    BY <2>3, SeqEqual
  <2>5. QED
    BY <2>4 DEF p
<1> DEFINE r == Append(delivered, payload)
<1>12. r \in Seq(Seq(AnyUnit)) /\ Len(r) = k + 1
  BY <1>0, Extended
<1>13. \A i \in 1..k : r[i] = delivered[i]
  BY <1>0, Extended
<1>14. r[k + 1] = payload
  BY <1>0, Extended
<1>15. delivered' = r
  BY <1>1
<1> HIDE DEF r
<1>16. ReaderTypes'
  <2>1. payload' \in Seq(AnyUnit)
    BY <1>1, EmptySeq
  <2>2. NoLength \in 0..NoLength
    BY FramingAssumption DEF NoLength
  <2>3. QED
    BY <1>0, <1>1, <1>2, <1>12, <1>15, <2>1, <2>2 DEF ReaderTypes
<1>17. InputFollows(start, read)'
  BY <1>0, <1>2, <1>3, InputFixed
<1>18. ReaderFollows(start, read)'
  <2>1. Len(delivered)' = k + 1 /\ Len(order)' = Len(order) /\ k + 1 <= Len(order)
    BY <1>2, <1>4, <1>5, <1>12, <1>15
  <2>2. ~(start[k + 1 + 1] < read) /\ start[k + 1 + 1] <= read
    BY <1>10
  <2>3. QED
    BY <1>1, <1>10, <2>1, <2>2 DEF ReaderFollows
<1>19. FramesIntact'
  <2>1. ASSUME NEW i \in 1..(k + 1)
        PROVE  /\ i <= Len(order) /\ r[i] = Payload(order[i])
               /\ \A j \in 1..i : WellFormed(order[j])
    <3>1. ASSUME NEW j \in 1..k
          PROVE  j <= Len(order) /\ delivered[j] = Payload(order[j]) /\ WellFormed(order[j])
      <4>1. j \in DOMAIN delivered /\ j \in 1..j
        BY <1>4
      <4>2. QED
        BY <1>0, <4>1 DEF FramesIntact
    <3>2. i \in 1..k \/ i = k + 1
      BY <1>4
    <3>3. r[i] = Payload(order[i])
      BY <1>7, <1>11, <1>13, <1>14, <3>1, <3>2
    <3>4. ASSUME NEW j \in 1..i PROVE WellFormed(order[j])
      <4>1. j \in 1..k \/ j = k + 1
        BY <1>4
      <4>2. QED
        BY <1>7, <1>9, <3>1, <4>1
    <3>5. QED
      BY <1>4, <1>5, <3>3, <3>4
  <2>2. DOMAIN delivered' = 1..(k + 1)
    BY <1>12, <1>15, LenProperties
  <2>3. ASSUME NEW i \in 1..(k + 1)
        PROVE  (/\ i <= Len(order) /\ delivered[i] = Payload(order[i])
                /\ \A j \in 1..i : WellFormed(order[j]))'
    <3>1. (i <= Len(order) /\ delivered[i] = Payload(order[i]))'
      BY <1>2, <1>15, <2>1 DEF Payload
    <3>2. ASSUME NEW j \in 1..i PROVE WellFormed(order[j])'
      <4>1. WellFormed(order[j])
        BY <2>1
      <4>2. QED
        BY <1>2, <4>1 DEF WellFormed
    <3>3. QED
      BY <3>1, <3>2
  <2>4. QED
    BY <2>2, <2>3 DEF FramesIntact
<1>20. phase # "ended" /\ phase' # "ended" /\ UNCHANGED <<writerVars, cut, failure, ending>>
  BY <1>1
<1>21. QED
  BY <1>3, <1>16, <1>17, <1>18, <1>19, <1>20, GoesOn

LEMMA TakeEndKeeps ==
    ASSUME Inductive, TakeEnd
    PROVE  Inductive'
<1>0. /\ TypeOK /\ WriterTypes /\ ReaderTypes /\ WritersInOrder /\ StreamFollowed /\ FramesIntact
      /\ EndIsBeforePayload
      /\ order \in Seq(Writers) /\ delivered \in Seq(Seq(AnyUnit))
  BY DEF Inductive, TypeOK, WriterTypes, ReaderTypes
<1>1. /\ phase = "ended" /\ ending' = IF "EOF" \in failure THEN "clean" ELSE "failed"
      /\ UNCHANGED <<writerVars, cut>>
      /\ frame' = frame /\ unwritten' = unwritten /\ order' = order /\ input' = input /\ cut' = cut
      /\ phase' = phase /\ length' = length /\ sawHeader' = sawHeader /\ payload' = payload
      /\ delivered' = delivered /\ failure' = failure
  BY DEF TakeEnd, writerVars, readerVars
<1>2. WriterTypes' /\ WritersInOrder'
  BY <1>0, <1>1, WritersFixed
<1>3. ReaderTypes'
  BY <1>0, <1>1 DEF ReaderTypes
<1>4. StreamFollowed'
  BY <1>1 DEF StreamFollowed
<1>5. EndIsBeforePayload'
  BY <1>0, <1>1 DEF EndIsBeforePayload
<1>6. FramesIntact'
  BY <1>0, <1>1, IntactFixed
<1>7. QED
  BY <1>2, <1>3, <1>4, <1>5, <1>6 DEF Inductive, TypeOK

-----------------------------------------------------------------------------
(* The theorems.                                                           *)

LEMMA NextKeeps ==
    ASSUME Inductive, [Next]_vars
    PROVE  Inductive'
<1>1. ASSUME NEW w \in Writers, Lock(w) PROVE Inductive'
  BY <1>1, LockKeeps
<1>2. ASSUME NEW w \in Writers, WriteUnit(w) PROVE Inductive'
  BY <1>2, WriteUnitKeeps
<1>3. ASSUME NEW w \in Writers, Unlock(w) PROVE Inductive'
  BY <1>3, UnlockKeeps
<1>4. CASE Cut
  BY <1>4, CutKeeps
<1>5. CASE Reader
  BY <1>5, ReadLineKeeps, HeadersEndKeeps, ReadByteKeeps, PayloadEndsKeeps, ReturnKeeps,
     TakeEndKeeps DEF Reader
<1>6. CASE UNCHANGED vars
  <2>1. /\ frame' = frame /\ mutex' = mutex /\ unwritten' = unwritten /\ order' = order
        /\ input' = input /\ cut' = cut /\ phase' = phase /\ length' = length
        /\ sawHeader' = sawHeader /\ payload' = payload /\ delivered' = delivered
        /\ failure' = failure /\ ending' = ending /\ UNCHANGED <<writerVars, cut>>
    BY <1>6 DEF vars, writerVars, readerVars
  <2>2. /\ WriterTypes /\ ReaderTypes /\ WritersInOrder /\ StreamFollowed /\ EndIsBeforePayload
        /\ FramesIntact /\ order \in Seq(Writers) /\ delivered \in Seq(Seq(AnyUnit))
    BY DEF Inductive, TypeOK, WriterTypes, ReaderTypes
  <2>3. WriterTypes' /\ WritersInOrder'
    BY <2>1, <2>2, WritersFixed
  <2>4. ReaderTypes'
    BY <2>1, <2>2 DEF ReaderTypes
  <2>5. StreamFollowed'
    <3>1. ASSUME phase # "ended"
          PROVE  (\E start \in [1..(Len(order) + 1) -> Nat], read \in Nat :
                      Layout(start) /\ InputFollows(start, read) /\ ReaderFollows(start, read))'
      <4>1. PICK start \in [1..(Len(order) + 1) -> Nat], read \in Nat :
                Layout(start) /\ InputFollows(start, read) /\ ReaderFollows(start, read)
        BY <2>2, <3>1 DEF StreamFollowed
      <4>2. Layout(start)' /\ ReaderFollows(start, read)'
        BY <2>1, <4>1, PlaceFixed
      <4>3. InputFollows(start, read)'
        BY <2>1, <4>1, InputFixed
      <4>4. start \in [1..(Len(order)' + 1) -> Nat]
        BY <2>1, <4>1
      <4>5. QED
        BY <4>2, <4>3, <4>4
    <3>2. QED
      BY <2>1, <3>1 DEF StreamFollowed
  <2>6. EndIsBeforePayload'
    BY <2>1, <2>2 DEF EndIsBeforePayload
  <2>7. FramesIntact'
    BY <2>1, <2>2, IntactFixed
  <2>8. QED
    BY <2>3, <2>4, <2>5, <2>6, <2>7 DEF Inductive, TypeOK
<1>7. QED
  BY <1>1, <1>2, <1>3, <1>4, <1>5, <1>6 DEF Next, Terminated

\* The inductive invariant of the stream: the writers' frames lie one behind the other,
\* and the reader is where the units it took have brought it.
THEOREM FramingInvariance == Spec => []Inductive
<1>1. Init => Inductive
  BY InitInductive
<1>2. Inductive /\ [Next]_vars => Inductive'
  BY NextKeeps
<1>3. QED
  BY <1>1, <1>2, PTL DEF Spec

\* Every variable of writers, stream and reader has its type; a reader that has left the
\* headers has a length, and one that has ended has an error.
THEOREM FramingTypeCorrect == Spec => []TypeOK
<1>1. Inductive => TypeOK
  BY DEF Inductive
<1>2. QED
  BY <1>1, FramingInvariance, PTL

\* Writers that hold FrameWriter.mu for a frame never interleave, and FrameReader.Read
\* returns whole payloads of well-formed frames in the order in which they were begun,
\* for any number of writers and payloads of any size, wherever the stream is cut.
THEOREM FramesAlwaysIntact == Spec => []FramesIntact
<1>1. Inductive => FramesIntact
  BY DEF Inductive
<1>2. QED
  BY <1>1, FramingInvariance, PTL

\* Serve and Client.finish take the end of the stream for the end of input only where no
\* byte of an undelivered payload was written: a frame cut inside its payload is reported.
THEOREM DamageAlwaysReported == Spec => []DamageIsReported
<1>1. Inductive => DamageIsReported
  <2> SUFFICES ASSUME Inductive, ending = "clean", NEW i \in DOMAIN order,
                      Len(unwritten[order[i]]) < frame[order[i]].size
               PROVE  i <= Len(delivered) /\ delivered[i] = Payload(order[i])
    BY DEF DamageIsReported
  <2>1. /\ order \in Seq(Writers) /\ delivered \in Seq(Seq(AnyUnit))
        /\ EndIsBeforePayload /\ FramesIntact
    BY DEF Inductive, TypeOK, WriterTypes, ReaderTypes
  <2>2. i \in 1..Len(order) /\ DOMAIN delivered = 1..Len(delivered) /\ Len(delivered) \in Nat
        /\ Len(order) \in Nat
    BY <2>1, LenProperties
  <2>3. i <= Len(delivered)
    BY <2>1, <2>2 DEF EndIsBeforePayload
  <2>4. i \in DOMAIN delivered
    BY <2>2, <2>3
  <2>5. QED
    BY <2>1, <2>3, <2>4 DEF FramesIntact
<1>2. QED
  BY <1>1, FramingInvariance, PTL
==============================================================================
