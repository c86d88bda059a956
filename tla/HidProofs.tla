------------------------------ MODULE HidProofs -------------------------------
(***************************************************************************)
(* The framing of usb.go for every size of packet, of byte and of packet   *)
(* index: what FormatResponse writes is what a Session reads back, packet  *)
(* by packet.  What follows from it for the host that reads replies and    *)
(* for programs that send messages, whichever device they talk to.         *)
(***************************************************************************)
EXTENDS HidPrograms, SequenceTheorems, TLAPS

\* A message that the two bytes of DataLength can announce.
Sendable(m) == m \in Seq(Byte) /\ Len(m) \in 1 .. LenMod - 1

\* Bytes of a message that its first k packets hold.
Held(k) == IF k = 0 THEN 0 ELSE hidFrameMaxDataSize + (k - 1) * nextChunkSize

\* Packets that a message takes.
Count(m) ==
  IF Len(m) <= hidFrameMaxDataSize
  THEN 1
  ELSE 1 + (Len(m) - hidFrameMaxDataSize + nextChunkSize - 1) \div nextChunkSize

\* The session that has read k packets of m on channel c, and misses some.
Reading(c, m, k) ==
  IF k = 0
  THEN Fresh
  ELSE [channelID |-> c, lastReadFrameIndex |-> k - 1, data |-> SubSeq(m, 1, Held(k)),
        ShouldReadMore |-> TRUE, amountToRead |-> Len(m)]

\* The session that has read all of m.
HasRead(c, m) ==
  [channelID |-> c, lastReadFrameIndex |-> Count(m) - 1, data |-> m,
   ShouldReadMore |-> FALSE, amountToRead |-> Len(m)]

\* Packet p is the k-th of message m on channel c.
Carries(p, c, m, k) ==
  /\ p \in Packet /\ p.sized /\ p.tagged /\ p.chan = c /\ p.idx = k - 1
  /\ k = 1 => /\ p.body[1] * Base + p.body[2] = Len(m)
              /\ \A i \in 1 .. hidFrameMaxDataSize :
                   p.body[i + 2] = IF i <= Len(m) THEN m[i] ELSE 0
  /\ k > 1 => \A i \in 1 .. nextChunkSize :
                p.body[i] = IF Held(k - 1) + i <= Len(m) THEN m[Held(k - 1) + i] ELSE 0

-------------------------------------------------------------------------------
(* Arithmetic *)

\* What the assumption on the sizes says of the numbers derived from them.
LEMMA Sizes ==
  /\ Base \in Nat /\ Base >= 2
  /\ hidFrameMaxDataSize \in Nat /\ hidFrameMaxDataSize >= 1
  /\ nextChunkSize \in Nat /\ nextChunkSize = hidFrameMaxDataSize + 2
  /\ IndexMod \in Nat /\ IndexMod >= 2
  /\ LenMod \in Nat /\ LenMod >= 2
  /\ 0 \notin Channels /\ Channels \subseteq Nat
<1>1. Base * Base \in Nat /\ Base * Base >= 2
  BY SizesAssumption
<1> QED
  BY <1>1, SizesAssumption DEF nextChunkSize, LenMod

\* The places of short sequences.
LEMMA Places == 1 \in 1 .. 1 /\ 1 \in 1 .. 2 /\ 2 \in 1 .. 2 /\ 1 + 1 = 2 /\ 2 - 1 = 1 /\ 1 - 1 = 0
  OBVIOUS

\* Multiplication by a natural number is monotonic.
LEMMA TimesMonotonic == \A z \in Nat : \A x, y \in Nat : x <= y => z * x <= z * y
  OBVIOUS

\* A number of k packets holds what k - 1 hold, and one body more.
LEMMA HeldFacts ==
  ASSUME NEW k \in Nat
  PROVE  /\ Held(k) \in Nat
         /\ Held(0) = 0 /\ Held(1) = hidFrameMaxDataSize
         /\ k >= 1 => Held(k + 1) = Held(k) + nextChunkSize /\ Held(k) >= hidFrameMaxDataSize
<1> DEFINE s == nextChunkSize
<1>1. s \in Nat /\ hidFrameMaxDataSize \in Nat
  BY Sizes
<1>2. k >= 1 => (k - 1) * s \in Nat /\ ((k + 1) - 1) * s = (k - 1) * s + s
  BY <1>1
<1> HIDE DEF s
<1>3. (1 - 1) * s = 0
  BY <1>1
<1> QED
  BY <1>1, <1>2, <1>3 DEF Held, s

\* More packets hold more.
LEMMA HeldGrows ==
  ASSUME NEW j \in Nat, NEW k \in Nat, j <= k
  PROVE  Held(j) <= Held(k)
<1>1. CASE j = 0
  BY <1>1, HeldFacts
<1>2. CASE j >= 1
  <2>1. (j - 1) * nextChunkSize <= (k - 1) * nextChunkSize
    BY <1>2, Sizes
  <2>2. (j - 1) * nextChunkSize \in Int /\ (k - 1) * nextChunkSize \in Int
    BY Sizes
  <2> QED
    BY <1>2, <2>1, <2>2, Sizes DEF Held
<1> QED
  BY <1>1, <1>2

\* usb.go:284-311, 313-375.  The packets of a message hold all of it, no packet is
\* empty, and the packet indexes suffice.
LEMMA CountFacts ==
  ASSUME NEW m, Sendable(m)
  PROVE  /\ Count(m) \in Nat \ {0}
         /\ Count(m) <= IndexMod
         /\ Held(Count(m) - 1) < Len(m)
         /\ Len(m) <= Held(Count(m))
<1>1. Len(m) \in Nat /\ Len(m) >= 1 /\ Len(m) <= LenMod - 1
  BY Sizes DEF Sendable
<1>2. CASE Len(m) <= hidFrameMaxDataSize
  <2>1. Count(m) = 1
    BY <1>2, Zenon DEF Count
  <2>2. Held(0) = 0 /\ Held(1) = hidFrameMaxDataSize
    BY HeldFacts
  <2> QED
    BY <1>1, <1>2, <2>1, <2>2, Sizes
<1>3. CASE Len(m) > hidFrameMaxDataSize
  <2> DEFINE s == nextChunkSize
             h == hidFrameMaxDataSize
             rest == Len(m) - h
             q == (rest + s - 1) \div s
  <2>1. s \in Nat \ {0} /\ h \in Nat /\ rest \in Nat \ {0}
    BY <1>1, <1>3, Sizes
  <2>2. Count(m) = 1 + q
    BY <1>3, <2>1 DEF Count
  <2> HIDE DEF q
  <2>3. q \in Nat /\ s * q <= rest + s - 1 /\ rest + s - 1 < s * (q + 1)
    BY <2>1 DEF q
  <2>4. s * (q + 1) = s * q + s /\ s * q \in Nat /\ s * q = q * s
    BY <2>1, <2>3
  <2>5. rest <= q * s
    BY <2>1, <2>3, <2>4
  <2>6. q >= 1
    BY <2>1, <2>3, <2>4, <2>5
  <2>7. (q - 1) * s = q * s - s
    BY <2>1, <2>3
  <2>8. (q - 1) * s < rest
    BY <2>1, <2>3, <2>4, <2>7
  <2>9. Held(Count(m)) = h + q * s
    BY <2>2, <2>3 DEF Held
  <2>10. Held(Count(m) - 1) = h + (q - 1) * s
    BY <2>2, <2>3, <2>6 DEF Held
  <2>11. Count(m) <= IndexMod
    <3>1. LenMod - 1 <= h + s * (IndexMod - 1)
      BY SizesAssumption
    <3>2. (q - 1) * s < s * (IndexMod - 1)
      <4>1. (q - 1) * s \in Int /\ s * (IndexMod - 1) \in Int
        BY <2>1, <2>3, Sizes
      <4> QED
        BY <1>1, <2>1, <2>8, <3>1, <4>1, Sizes
    <3>3. ASSUME q - 1 >= IndexMod - 1 PROVE FALSE
      <4>1. s * (q - 1) >= s * (IndexMod - 1)
        BY <2>1, <2>3, <3>3, Sizes
      <4> QED
        BY <4>1, <3>2, <2>1, <2>3, Sizes
    <3> QED
      BY <3>3, <2>2, <2>3, Sizes
  <2> QED
    BY <1>1, <2>1, <2>2, <2>3, <2>4, <2>5, <2>7, <2>8, <2>9, <2>10, <2>11
<1> QED
  BY <1>1, <1>2, <1>3, Sizes

-------------------------------------------------------------------------------
(* Writing *)

\* A function on 1 .. n is a sequence of length n.
LEMMA FunctionIsSeq ==
  ASSUME NEW S, NEW n \in Nat, NEW f \in [1 .. n -> S]
  PROVE  f \in Seq(S) /\ Len(f) = n
<1>1. f \in Seq(S)
  BY SeqDef
<1> QED
  BY <1>1, LenProperties

\* The data of a packet, filled up with zeros.
LEMMA PaddedFacts ==
  ASSUME NEW d \in Seq(Byte), NEW n \in Nat
  PROVE  /\ Padded(d, n) \in [1 .. n -> Byte]
         /\ Padded(d, n) \in Seq(Byte) /\ Len(Padded(d, n)) = n
         /\ \A i \in 1 .. n : Padded(d, n)[i] = IF i <= Len(d) THEN d[i] ELSE 0
<1>1. 0 \in Byte
  BY Sizes DEF Byte
<1>2. \A i \in 1 .. n : (IF i <= Len(d) THEN d[i] ELSE 0) \in Byte
  BY <1>1
<1>3. Padded(d, n) \in [1 .. n -> Byte]
  BY <1>2 DEF Padded
<1>4. \A i \in 1 .. n : Padded(d, n)[i] = IF i <= Len(d) THEN d[i] ELSE 0
  BY DEF Padded
<1> QED
  BY <1>3, <1>4, FunctionIsSeq

\* What the device sends are packets.
LEMMA PacketType ==
  \A c \in Channels, i \in 0 .. IndexMod - 1, b \in [1 .. nextChunkSize -> Byte] :
    [sized |-> TRUE, tagged |-> TRUE, chan |-> c, idx |-> i, body |-> b] \in Packet
  BY DEF Packet

\* usb.go:313-337.  The first packet announces the length and holds the first bytes.
LEMMA InitPacketFacts ==
  ASSUME NEW c \in Channels, NEW m, Sendable(m), NEW d \in Seq(Byte),
         Len(d) <= Len(m), \A i \in 1 .. Len(d) : d[i] = m[i],
         \/ Len(d) = hidFrameMaxDataSize
         \/ Len(d) = Len(m) /\ Len(m) <= hidFrameMaxDataSize
  PROVE  Carries(InitPacket(c, Len(m), d), c, m, 1)
<1> DEFINE a == (Len(m) \div Base) % Base
           b == Len(m) % Base
           h == hidFrameMaxDataSize
           pad == Padded(d, h)
           body == <<a, b>> \o pad
<1>1. Len(m) \in Nat /\ Len(m) < Base * Base /\ Base * Base \in Nat
  BY Sizes DEF Sendable, LenMod
<1>2. a \in Byte /\ b \in Byte /\ a * Base + b = Len(m)
  <2>1. Len(m) \div Base \in Nat /\ Len(m) = Base * (Len(m) \div Base) + (Len(m) % Base)
    BY <1>1, Sizes
  <2>2. Len(m) % Base \in 0 .. Base - 1
    BY <1>1, Sizes
  <2>3. Len(m) \div Base < Base
    <3>1. ASSUME Len(m) \div Base >= Base PROVE FALSE
      <4>1. Base * (Len(m) \div Base) >= Base * Base
        BY <2>1, <3>1, Sizes, TimesMonotonic, Zenon
      <4> QED
        BY <1>1, <2>1, <2>2, <4>1, Sizes
    <3> QED
      BY <3>1, <2>1, Sizes
  <2>4. a = Len(m) \div Base
    <3>1. \A q, n \in Nat : q < n => q % n = q
      OBVIOUS
    <3> QED
      BY <2>1, <2>3, <3>1, Sizes, Zenon
  <2> HIDE DEF a, b
  <2> QED
    BY <2>1, <2>2, <2>3, <2>4, Sizes DEF Byte, b
<1> HIDE DEF a, b
<1>3. h \in Nat /\ pad \in Seq(Byte) /\ Len(pad) = h
      /\ \A i \in 1 .. h : pad[i] = IF i <= Len(d) THEN d[i] ELSE 0
  BY PaddedFacts, Sizes, Zenon
<1> HIDE DEF pad
<1>4. <<a, b>> \in Seq(Byte) /\ Len(<<a, b>>) = 2
  BY <1>2
<1>5. body \in Seq(Byte) /\ Len(body) = 2 + h
  BY <1>3, <1>4, ConcatProperties
<1>6. body[1] = a /\ body[2] = b /\ \A i \in 1 .. h : body[i + 2] = pad[i]
  BY <1>3, <1>4, Sizes
<1> HIDE DEF body
<1>7. body \in [1 .. nextChunkSize -> Byte]
  BY <1>5, Sizes, LenProperties
<1>8. \A i \in 1 .. h : body[i + 2] = IF i <= Len(m) THEN m[i] ELSE 0
  BY <1>1, <1>3, <1>6, Sizes
<1>9. 0 % IndexMod = 0 /\ 0 \in 0 .. IndexMod - 1
  BY Sizes
<1> DEFINE p == InitPacket(c, Len(m), d)
<1>10. p = [sized |-> TRUE, tagged |-> TRUE, chan |-> c, idx |-> 0, body |-> body]
  BY <1>9, Zenon DEF InitPacket, PacketOf, body, pad, a, b
<1>11. p \in Packet
  BY <1>7, <1>9, <1>10, PacketType
<1>12. p.sized /\ p.tagged /\ p.chan = c /\ p.idx = 1 - 1 /\ p.body = body
  BY <1>10
<1> QED
  BY <1>2, <1>6, <1>8, <1>11, <1>12 DEF Carries

\* usb.go:284-311.  The pieces of d, padded, are d cut at multiples of the size: none
\* of its bytes is lost, and none is in two pieces.
LEMMA ChunkFacts ==
  ASSUME NEW d \in Seq(Byte), Len(d) >= 1
  PROVE  LET s == nextChunkSize
             n == (Len(d) + s - 1) \div s
             chunks == chunkFunc(d, s)
         IN  /\ n \in Nat
             /\ chunks \in Seq(Seq(Byte)) /\ Len(chunks) = n
             /\ \A i \in 1 .. n : \A j \in 1 .. s :
                  Padded(chunks[i], s)[j] =
                    IF (i - 1) * s + j <= Len(d) THEN d[(i - 1) * s + j] ELSE 0
<1> DEFINE s == nextChunkSize
           n == (Len(d) + s - 1) \div s
           chunks == chunkFunc(d, s)
<1>1. s \in Nat /\ s >= 1 /\ Len(d) \in Nat
  BY Sizes
<1>2. n \in Nat /\ s * n <= Len(d) + s - 1 /\ Len(d) + s - 1 < s * (n + 1)
  BY <1>1
<1>3. n >= 1 /\ s * (n + 1) = s * n + s /\ s * n \in Nat
  <2> HIDE DEF n
  <2>1. s * (n + 1) = s * n + s /\ s * n \in Nat
    BY <1>1, <1>2
  <2>2. n # 0
    BY <1>1, <1>2, <2>1
  <2> QED
    BY <1>2, <2>1, <2>2
<1>4. CASE Len(d) <= s
  <2>1. n = 1
    <3> HIDE DEF n
    <3>1. ASSUME n >= 2 PROVE FALSE
      <4>1. s * 2 <= s * n
        BY <1>1, <1>2, <3>1, TimesMonotonic
      <4> QED
        BY <1>1, <1>2, <1>4, <4>1
    <3> QED
      BY <1>2, <1>3, <3>1
  <2>2. chunks = <<d>>
    BY <1>4 DEF chunkFunc
  <2>3. \A j \in 1 .. s : (1 - 1) * s + j = j
    BY <1>1
  <2> HIDE DEF n, chunks
  <2>4. \A i \in 1 .. n : i = 1 /\ chunks[i] = d
    BY <2>1, <2>2
  <2>5. \A j \in 1 .. s : Padded(d, s)[j] = IF j <= Len(d) THEN d[j] ELSE 0
    BY <1>1, PaddedFacts
  <2>6. chunks \in Seq(Seq(Byte)) /\ Len(chunks) = n
    BY <2>1, <2>2
  <2>7. \A i \in 1 .. n : \A j \in 1 .. s :
          Padded(chunks[i], s)[j] = IF (i - 1) * s + j <= Len(d) THEN d[(i - 1) * s + j] ELSE 0
    BY <2>3, <2>4, <2>5
  <2> QED
    BY <1>2, <2>6, <2>7 DEF n, chunks
<1>5. CASE Len(d) > s
  <2> DEFINE last(i) == IF i = n THEN Len(d) ELSE i * s
             piece(i) == SubSeq(d, (i - 1) * s + 1, last(i))
  <2>1. chunks = [i \in 1 .. n |-> piece(i)]
    BY <1>5, <1>1 DEF chunkFunc
  <2> HIDE DEF n, chunks
  <2>2. ASSUME NEW i \in 1 .. n
        PROVE  /\ (i - 1) * s \in Nat /\ last(i) \in Nat
               /\ i * s = (i - 1) * s + s
               /\ (i - 1) * s + 1 <= last(i) /\ last(i) <= Len(d)
               /\ last(i) <= (i - 1) * s + s
               /\ last(i) < (i - 1) * s + s => last(i) = Len(d)
    <3>1. (i - 1) * s \in Nat /\ i * s = (i - 1) * s + s /\ i * s \in Nat
      BY <1>1, <1>2
    <3>2. CASE i = n
      <4>1. i * s = s * n
        BY <1>1, <1>2, <3>2
      <4> QED
        BY <1>1, <1>2, <1>3, <3>1, <3>2, <4>1
    <3>3. CASE i # n
      <4>1. i <= n - 1 /\ n - 1 \in Nat /\ i \in Nat
        BY <1>2, <3>3
      <4>2. s * i <= s * (n - 1)
        BY <1>1, <4>1, TimesMonotonic
      <4>3. s * (n - 1) = s * n - s /\ s * i = i * s
        BY <1>1, <1>2
      <4> QED
        BY <1>1, <1>2, <1>3, <3>1, <3>3, <4>2, <4>3
    <3> QED
      BY <3>2, <3>3
  <2> HIDE DEF last
  <2>3. ASSUME NEW i \in 1 .. n
        PROVE  /\ piece(i) \in Seq(Byte)
               /\ Len(piece(i)) = last(i) - (i - 1) * s
               /\ \A j \in 1 .. Len(piece(i)) : piece(i)[j] = d[(i - 1) * s + j]
    <3> DEFINE z == (i - 1) * s
    <3>1. z \in Nat /\ last(i) \in Nat /\ z + 1 <= last(i) /\ last(i) <= Len(d)
      BY <2>2
    <3> HIDE DEF z
    <3>2. \A j \in z + 1 .. last(i) : d[j] \in Byte
      BY <3>1
    <3>3. /\ SubSeq(d, z + 1, last(i)) \in Seq(Byte)
          /\ Len(SubSeq(d, z + 1, last(i))) = last(i) - z
          /\ \A j \in 1 .. last(i) - z : SubSeq(d, z + 1, last(i))[j] = d[z + j]
      BY <3>1, <3>2, SubSeqProperties
    <3> QED
      BY <3>3 DEF z
  <2> HIDE DEF piece
  <2>4. chunks \in [1 .. n -> Seq(Byte)] /\ \A i \in 1 .. n : chunks[i] = piece(i)
    BY <2>1, <2>3
  <2>5. chunks \in Seq(Seq(Byte)) /\ Len(chunks) = n
    BY <1>2, <2>4, FunctionIsSeq
  <2>6. ASSUME NEW i \in 1 .. n, NEW j \in 1 .. s
        PROVE  Padded(chunks[i], s)[j] = IF (i - 1) * s + j <= Len(d) THEN d[(i - 1) * s + j] ELSE 0
    <3>1. Padded(piece(i), s)[j] = IF j <= Len(piece(i)) THEN piece(i)[j] ELSE 0
      BY <1>1, <2>3, PaddedFacts
    <3>2. j <= Len(piece(i)) <=> (i - 1) * s + j <= Len(d)
      BY <1>1, <2>2, <2>3
    <3>3. j <= Len(piece(i)) => piece(i)[j] = d[(i - 1) * s + j]
      BY <1>1, <2>2, <2>3
    <3> QED
      BY <2>4, <3>1, <3>2, <3>3
  <2> QED
    BY <1>2, <2>5, <2>6 DEF n, chunks
<1> QED
  BY <1>1, <1>4, <1>5

\* A later packet: an index and a body.
LEMMA NextPacketFacts ==
  ASSUME NEW c \in Channels, NEW m, NEW k \in 2 .. IndexMod, NEW d \in Seq(Byte),
         \A j \in 1 .. nextChunkSize :
           Padded(d, nextChunkSize)[j] = IF Held(k - 1) + j <= Len(m) THEN m[Held(k - 1) + j] ELSE 0
  PROVE  Carries(PacketOf(c, k - 1, Padded(d, nextChunkSize)), c, m, k)
<1> DEFINE body == Padded(d, nextChunkSize)
           p == PacketOf(c, k - 1, body)
<1>1. body \in [1 .. nextChunkSize -> Byte]
  BY Sizes, PaddedFacts
<1> HIDE DEF body
<1>2. (k - 1) % IndexMod = k - 1 /\ k - 1 \in 0 .. IndexMod - 1 /\ k # 1
  BY Sizes
<1>3. p = [sized |-> TRUE, tagged |-> TRUE, chan |-> c, idx |-> k - 1, body |-> body]
  BY <1>2, Zenon DEF PacketOf
<1>4. p \in Packet
  BY <1>1, <1>2, <1>3, PacketType
<1>5. p.sized /\ p.tagged /\ p.chan = c /\ p.idx = k - 1 /\ p.body = body
  BY <1>3
<1> QED
  BY <1>2, <1>4, <1>5 DEF Carries, body

\* usb.go:313-375.  What FormatResponse returns are the packets of the message.
LEMMA FormatResponseFacts ==
  ASSUME NEW c \in Channels, NEW m, Sendable(m)
  PROVE  /\ FormatResponse(c, m) \in Seq(Packet)
         /\ Len(FormatResponse(c, m)) = Count(m)
         /\ \A k \in 1 .. Count(m) : Carries(FormatResponse(c, m)[k], c, m, k)
<1>1. m \in Seq(Byte) /\ Len(m) \in Nat /\ Len(m) >= 1
  BY DEF Sendable
<1>2. CASE Len(m) <= hidFrameMaxDataSize
  <2> DEFINE p == InitPacket(c, Len(m), m)
  <2>1. FormatResponse(c, m) = <<p>> /\ Count(m) = 1
    BY <1>2 DEF FormatResponse, Count
  <2>2. Carries(p, c, m, 1)
    BY <1>1, <1>2, InitPacketFacts
  <2>3. p \in Packet
    BY <2>2 DEF Carries
  <2> HIDE DEF p
  <2> QED
    BY <2>1, <2>2, <2>3
<1>3. CASE Len(m) > hidFrameMaxDataSize
  <2> DEFINE h == hidFrameMaxDataSize
             s == nextChunkSize
             head == SubSeq(m, 1, h)
             rest == SubSeq(m, h + 1, Len(m))
             n == (Len(rest) + s - 1) \div s
             chunks == chunkFunc(rest, s)
             first == InitPacket(c, Len(m), head)
             later == [i \in 1 .. Len(chunks) |-> PacketOf(c, i, Padded(chunks[i], s))]
  <2>1. h \in Nat /\ h >= 1 /\ s \in Nat
    BY Sizes
  <2>2. /\ head \in Seq(Byte) /\ Len(head) = h
        /\ \A i \in 1 .. h : head[i] = m[i]
    BY <1>1, <1>3, <2>1, SubSeqProperties
  <2>3. /\ rest \in Seq(Byte) /\ Len(rest) = Len(m) - h
        /\ \A i \in 1 .. Len(m) - h : rest[i] = m[h + i]
    BY <1>1, <1>3, <2>1, SubSeqProperties
  <2>4. Carries(first, c, m, 1)
    <3> HIDE DEF head
    <3> QED
      BY <1>1, <1>3, <2>1, <2>2, InitPacketFacts
  <2>5. FormatResponse(c, m) = <<first>> \o later
    <3>1. ~(Len(m) <= h)
      BY <1>1, <1>3, <2>1
    <3> QED
      BY <3>1, Zenon DEF FormatResponse
  <2> HIDE DEF head, rest, first
  <2>6. /\ n \in Nat /\ chunks \in Seq(Seq(Byte)) /\ Len(chunks) = n
        /\ \A i \in 1 .. n : \A j \in 1 .. s :
             Padded(chunks[i], s)[j] = IF (i - 1) * s + j <= Len(rest) THEN rest[(i - 1) * s + j] ELSE 0
    <3>1. Len(rest) >= 1
      BY <1>1, <1>3, <2>1, <2>3
    <3> QED
      BY <2>3, <3>1, ChunkFacts, Zenon
  <2>7. Count(m) = n + 1
    <3>1. ~(Len(m) <= h) /\ Len(m) - h = Len(rest)
      BY <1>1, <1>3, <2>1, <2>3
    <3>2. Count(m) = 1 + n
      BY <3>1, Zenon DEF Count
    <3> HIDE DEF n
    <3> QED
      BY <2>6, <3>2
  <2> HIDE DEF n, chunks
  <2>8. n + 1 <= IndexMod
    BY <2>7, CountFacts
  <2>9. ASSUME NEW i \in 1 .. n
        PROVE  Carries(PacketOf(c, i, Padded(chunks[i], s)), c, m, i + 1)
    <3>1. (i + 1) - 1 = i /\ i + 1 \in 2 .. IndexMod /\ chunks[i] \in Seq(Byte)
      BY <2>6, <2>8, Sizes
    <3>2. (i - 1) * s \in Nat /\ Held(i) = h + (i - 1) * s
      BY <2>1, <2>6 DEF Held
    <3>3. ASSUME NEW j \in 1 .. s
          PROVE  Padded(chunks[i], s)[j] = IF Held(i) + j <= Len(m) THEN m[Held(i) + j] ELSE 0
      <4> DEFINE z == (i - 1) * s
      <4>1. Padded(chunks[i], s)[j] = IF z + j <= Len(rest) THEN rest[z + j] ELSE 0
        BY <2>6
      <4>2. z \in Nat /\ Held(i) = h + z
        BY <3>2
      <4> HIDE DEF z
      <4>3. z + j <= Len(rest) <=> Held(i) + j <= Len(m)
        BY <1>1, <2>1, <2>3, <4>2
      <4>4. z + j <= Len(rest) => rest[z + j] = m[Held(i) + j]
        BY <1>1, <2>1, <2>3, <4>2
      <4> QED
        BY <4>1, <4>3, <4>4
    <3> QED
      BY <3>1, <3>3, NextPacketFacts, Zenon
  <2>10. /\ later \in [1 .. n -> Packet]
         /\ \A i \in 1 .. n : Carries(later[i], c, m, i + 1)
    <3>1. \A i \in 1 .. n : PacketOf(c, i, Padded(chunks[i], s)) \in Packet
      BY <2>9 DEF Carries
    <3> QED
      BY <2>6, <2>9, <3>1
  <2> HIDE DEF later
  <2>11. later \in Seq(Packet) /\ Len(later) = n
    BY <2>6, <2>10, FunctionIsSeq
  <2>12. <<first>> \in Seq(Packet) /\ Len(<<first>>) = 1 /\ <<first>>[1] = first
    BY <2>4 DEF Carries
  <2>13. /\ FormatResponse(c, m) \in Seq(Packet) /\ Len(FormatResponse(c, m)) = n + 1
         /\ \A k \in 1 .. n + 1 :
              FormatResponse(c, m)[k] = IF k <= 1 THEN <<first>>[k] ELSE later[k - 1]
    BY <2>5, <2>6, <2>11, <2>12, ConcatProperties
  <2>14. ASSUME NEW k \in 1 .. n + 1
         PROVE  Carries(FormatResponse(c, m)[k], c, m, k)
    <3>1. CASE k = 1
      BY <2>4, <2>12, <2>13, <3>1
    <3>2. CASE k # 1
      <4>1. k - 1 \in 1 .. n /\ (k - 1) + 1 = k
        BY <2>6, <3>2
      <4>2. Carries(later[k - 1], c, m, (k - 1) + 1)
        BY <2>10, <4>1, Zenon
      <4> QED
        BY <2>6, <2>13, <3>2, <4>1, <4>2
    <3> QED
      BY <3>1, <3>2
  <2> QED
    BY <2>7, <2>13, <2>14
<1> QED
  BY <1>1, <1>2, <1>3, Sizes

-------------------------------------------------------------------------------
(* Reading *)

\* What ReadData makes of a packet it does not fail on, field by field.
LEMMA ReadDataOpens ==
  ASSUME NEW s, NEW p, s.channelID = 0, p.sized, p.tagged, p.chan # 0
  PROVE  LET read == ReadData(s, p)
             len == p.body[1] * Base + p.body[2]
             buf == s.data \o SubSeq(p.body, 3, nextChunkSize)
         IN  read = [ok |-> TRUE,
                     s |-> [channelID |-> p.chan, lastReadFrameIndex |-> p.idx,
                            data |-> IF Len(buf) >= len THEN SubSeq(buf, 1, len) ELSE buf,
                            ShouldReadMore |-> len > hidFrameMaxDataSize /\ ~(Len(buf) >= len),
                            amountToRead |-> len]]
  BY Zenon DEF ReadData, ReadFrame, readFrame, HIDFrame, validate

\* usb.go:229-276.  What a later frame that is next in turn makes of an open session.
LEMMA ReadDataGoesOn ==
  ASSUME NEW s, NEW p, s.channelID # 0, s.ShouldReadMore,
         p.sized, p.tagged, p.chan = s.channelID, p.idx # 0,
         (p.idx - s.lastReadFrameIndex) % IndexMod = 1
  PROVE  LET read == ReadData(s, p)
             buf == s.data \o p.body
         IN  read = [ok |-> TRUE,
                     s |-> [channelID |-> p.chan, lastReadFrameIndex |-> p.idx,
                            data |-> IF Len(buf) >= s.amountToRead
                                     THEN SubSeq(buf, 1, s.amountToRead) ELSE buf,
                            ShouldReadMore |-> ~(Len(buf) >= s.amountToRead),
                            amountToRead |-> s.amountToRead]]
  BY DEF ReadData, ReadFrame, readFrame, HIDFrameNext, validate

\* In every other case the session is left alone.
LEMMA ReadDataLeaves ==
  ASSUME NEW s, NEW p,
         ~ /\ p.sized /\ p.tagged /\ p.chan # 0
           /\ \/ s.channelID = 0
              \/ /\ s.ShouldReadMore /\ p.chan = s.channelID /\ p.idx # 0
                 /\ (p.idx - s.lastReadFrameIndex) % IndexMod = 1
  PROVE  /\ ReadData(s, p).s = s
         /\ ReadData(s, p).ok \in BOOLEAN
         /\ ReadData(s, p).ok => s.channelID # 0
  BY ZenonT(30) DEF ReadData, ReadFrame, readFrame, HIDFrame, HIDFrameNext, validate, Fail

\* The body holds the b bytes of m after the first a, as far as there are any.
Continues(body, b, m, a) ==
  /\ body \in Seq(Byte) /\ Len(body) = b
  /\ \A i \in 1 .. b : body[i] = IF a + i <= Len(m) THEN m[a + i] ELSE 0

\* The first a bytes of m, followed by such a body.
LEMMA Joined ==
  ASSUME NEW m \in Seq(Byte), NEW a \in Nat, NEW b \in Nat, a <= Len(m),
         NEW body, Continues(body, b, m, a)
  PROVE  LET buf == SubSeq(m, 1, a) \o body
         IN  /\ Len(buf) = a + b
             /\ Len(m) <= a + b => SubSeq(buf, 1, Len(m)) = m
             /\ Len(m) > a + b => buf = SubSeq(m, 1, a + b)
<1> DEFINE pre == SubSeq(m, 1, a)
           buf == pre \o body
<1>0. /\ body \in Seq(Byte) /\ Len(body) = b
      /\ \A i \in 1 .. b : body[i] = IF a + i <= Len(m) THEN m[a + i] ELSE 0
  BY DEF Continues
<1>1. pre \in Seq(Byte) /\ Len(pre) = a /\ \A i \in 1 .. a : pre[i] = m[i]
  BY SubSeqProperties
<1> HIDE DEF pre
<1>2. /\ buf \in Seq(Byte) /\ Len(buf) = a + b
      /\ \A i \in 1 .. a + b : buf[i] = IF i <= a THEN pre[i] ELSE body[i - a]
  <2>1. /\ buf \in Seq(Byte) /\ Len(buf) = Len(pre) + Len(body)
        /\ \A i \in 1 .. Len(pre) + Len(body) :
             buf[i] = IF i <= Len(pre) THEN pre[i] ELSE body[i - Len(pre)]
    BY <1>0, <1>1, ConcatProperties, Zenon
  <2> HIDE DEF buf
  <2> QED
    BY <1>0, <1>1, <2>1, Zenon
<1> HIDE DEF buf
<1>3. \A i \in 1 .. a + b : i <= Len(m) => buf[i] = m[i]
  BY <1>0, <1>1, <1>2
<1>4. ASSUME Len(m) <= a + b
      PROVE  SubSeq(buf, 1, Len(m)) = m
  <2> DEFINE cut == SubSeq(buf, 1, Len(m))
  <2>1. /\ cut \in Seq(Byte) /\ Len(cut) = Len(m)
        /\ \A i \in 1 .. Len(m) : cut[i] = buf[i]
    BY <1>2, <1>4, SubSeqProperties
  <2> HIDE DEF cut
  <2>2. \A i \in 1 .. Len(cut) : cut[i] = m[i]
    BY <1>3, <1>4, <2>1
  <2>3. cut = m
    BY <2>1, <2>2, SeqEqual
  <2> QED
    BY <2>3 DEF cut
<1>5. ASSUME Len(m) > a + b
      PROVE  buf = SubSeq(m, 1, a + b)
  <2> DEFINE cut == SubSeq(m, 1, a + b)
  <2>1. /\ cut \in Seq(Byte) /\ Len(cut) = a + b
        /\ \A i \in 1 .. a + b : cut[i] = m[i]
    BY <1>5, SubSeqProperties
  <2> HIDE DEF cut
  <2>2. ASSUME NEW i \in 1 .. Len(buf) PROVE buf[i] = cut[i]
    <3>1. i \in 1 .. a + b /\ i <= Len(m)
      BY <1>2, <1>5
    <3> QED
      BY <1>3, <2>1, <3>1
  <2>3. buf = cut
    BY <1>2, <2>1, <2>2, SeqEqual
  <2> QED
    BY <2>3 DEF cut
<1> QED
  BY <1>2, <1>4, <1>5, Zenon DEF buf, pre

\* usb.go:237-276.  A new session reads the first packet of a message.
LEMMA ReadsFirst ==
  ASSUME NEW c \in Channels, NEW m, Sendable(m), NEW p, Carries(p, c, m, 1)
  PROVE  ReadData(Fresh, p) =
           [ok |-> TRUE, s |-> IF Count(m) = 1 THEN HasRead(c, m) ELSE Reading(c, m, 1)]
<1> DEFINE h == hidFrameMaxDataSize
           data == SubSeq(p.body, 3, nextChunkSize)
           buf == <<>> \o data
<1>1. m \in Seq(Byte) /\ Len(m) \in Nat /\ Len(m) >= 1 /\ h \in Nat /\ nextChunkSize = h + 2
  BY Sizes DEF Sendable
<1>2. /\ p.sized /\ p.tagged /\ p.chan = c /\ p.idx = 0
      /\ p.body[1] * Base + p.body[2] = Len(m)
      /\ \A i \in 1 .. h : p.body[i + 2] = IF i <= Len(m) THEN m[i] ELSE 0
      /\ p.body \in [1 .. nextChunkSize -> Byte]
  BY DEF Carries, Packet
<1>3. \A i \in 3 .. nextChunkSize : p.body[i] \in Byte
  BY <1>1, <1>2
<1>4. /\ data \in Seq(Byte) /\ Len(data) = h
      /\ \A i \in 1 .. h : data[i] = p.body[i + 2]
  BY <1>1, <1>3, SubSeqProperties
<1>5. SubSeq(m, 1, 0) = <<>>
  BY <1>1, SubSeqEmpty
<1> HIDE DEF data
<1>6. Continues(data, h, m, 0)
  <2>1. \A i \in 1 .. h : 0 + i = i
    BY <1>1
  <2>2. \A i \in 1 .. h : data[i] = IF 0 + i <= Len(m) THEN m[0 + i] ELSE 0
    BY <1>2, <1>4, <2>1
  <2> QED
    BY <1>4, <2>2, Zenon DEF Continues
<1>7. /\ Len(SubSeq(m, 1, 0) \o data) = 0 + h
      /\ Len(m) <= 0 + h => SubSeq(SubSeq(m, 1, 0) \o data, 1, Len(m)) = m
      /\ Len(m) > 0 + h => SubSeq(m, 1, 0) \o data = SubSeq(m, 1, 0 + h)
  BY <1>1, <1>4, <1>6, Joined
<1>8. /\ Len(buf) = h
      /\ Len(m) <= h => SubSeq(buf, 1, Len(m)) = m
      /\ Len(m) > h => buf = SubSeq(m, 1, h)
  <2>1. SubSeq(m, 1, 0) \o data = buf
    BY <1>5, Zenon
  <2>2. 0 + h = h
    BY <1>1
  <2> HIDE DEF buf
  <2> QED
    BY <1>7, <2>1, <2>2, Zenon
<1>9. Fresh.channelID = 0 /\ Fresh.data = <<>> /\ c # 0
  BY Sizes DEF Fresh
<1>10. ReadData(Fresh, p) =
         [ok |-> TRUE,
          s |-> [channelID |-> c, lastReadFrameIndex |-> 0,
                 data |-> IF Len(buf) >= Len(m) THEN SubSeq(buf, 1, Len(m)) ELSE buf,
                 ShouldReadMore |-> Len(m) > h /\ ~(Len(buf) >= Len(m)),
                 amountToRead |-> Len(m)]]
  <2> DEFINE len == p.body[1] * Base + p.body[2]
             joint == Fresh.data \o SubSeq(p.body, 3, nextChunkSize)
  <2>1. p.chan # 0
    BY <1>2, <1>9
  <2>2. ReadData(Fresh, p) =
          [ok |-> TRUE,
           s |-> [channelID |-> p.chan, lastReadFrameIndex |-> p.idx,
                  data |-> IF Len(joint) >= len THEN SubSeq(joint, 1, len) ELSE joint,
                  ShouldReadMore |-> len > h /\ ~(Len(joint) >= len),
                  amountToRead |-> len]]
    BY <1>2, <1>9, <2>1, ReadDataOpens, Zenon
  <2>3. len = Len(m) /\ joint = buf
    BY <1>2, <1>9, Zenon DEF data
  <2> HIDE DEF len, joint, buf
  <2> QED
    BY <1>2, <2>2, <2>3, Zenon
<1> HIDE DEF buf
<1>11. CASE Len(m) <= h
  <2>1. Count(m) = 1 /\ 1 - 1 = 0
    BY <1>11 DEF Count
  <2>2. Len(buf) >= Len(m) /\ ~(Len(m) > h)
    BY <1>1, <1>8, <1>11
  <2> QED
    BY <1>8, <1>10, <1>11, <2>1, <2>2, Zenon DEF HasRead
<1>12. CASE Len(m) > h
  <2>1. Count(m) # 1
    BY <1>1, <1>12, CountFacts, HeldFacts
  <2>2. ~(Len(buf) >= Len(m)) /\ Held(1) = h /\ 1 - 1 = 0 /\ 1 # 0
    BY <1>1, <1>8, <1>12, HeldFacts
  <2> QED
    BY <1>8, <1>10, <1>12, <2>1, <2>2, Zenon DEF Reading
<1> QED
  BY <1>1, <1>11, <1>12

\* usb.go:219-276.  A session that misses packets reads the next one.
LEMMA ReadsNext ==
  ASSUME NEW c \in Channels, NEW m, Sendable(m),
         NEW k \in 1 .. Count(m) - 1, NEW p, Carries(p, c, m, k + 1)
  PROVE  ReadData(Reading(c, m, k), p) =
           [ok |-> TRUE,
            s |-> IF k + 1 = Count(m) THEN HasRead(c, m) ELSE Reading(c, m, k + 1)]
<1> DEFINE n == nextChunkSize
           a == Held(k)
           s == Reading(c, m, k)
           pre == SubSeq(m, 1, a)
           body == p.body
           buf == pre \o body
<1>1. m \in Seq(Byte) /\ Len(m) \in Nat /\ n \in Nat /\ n >= 1 /\ c # 0
  BY Sizes DEF Sendable
<1>2. Count(m) \in Nat /\ Count(m) <= IndexMod /\ k \in Nat /\ k >= 1 /\ k + 1 <= Count(m)
  BY CountFacts
<1>3. a \in Nat /\ Held(k + 1) = a + n /\ a < Len(m)
      /\ (k + 1 = Count(m) <=> Len(m) <= a + n)
  <2>1. a \in Nat /\ Held(k + 1) = a + n
    BY <1>2, HeldFacts
  <2>2. a <= Held(Count(m) - 1) /\ Held(Count(m) - 1) < Len(m) /\ Held(Count(m) - 1) \in Nat
    <3>1. Count(m) - 1 \in Nat /\ k <= Count(m) - 1
      BY <1>2
    <3>2. a <= Held(Count(m) - 1)
      BY <1>2, <3>1, HeldGrows, Zenon
    <3> QED
      BY <3>1, <3>2, CountFacts, HeldFacts, Zenon
  <2>3. k + 1 = Count(m) => Len(m) <= Held(k + 1)
    BY CountFacts
  <2>4. k + 1 # Count(m) => Held(k + 1) <= Held(Count(m) - 1)
    BY <1>2, HeldGrows
  <2> QED
    BY <1>1, <2>1, <2>2, <2>3, <2>4
<1>4. /\ p.sized /\ p.tagged /\ p.chan = c /\ p.idx = k
      /\ p.body \in [1 .. n -> Byte]
  BY <1>2 DEF Carries, Packet
<1>5. \A i \in 1 .. n : body[i] = IF a + i <= Len(m) THEN m[a + i] ELSE 0
  <2>1. k + 1 > 1 /\ (k + 1) - 1 = k
    BY <1>2
  <2> QED
    BY <2>1, Zenon DEF Carries
<1>6. body \in Seq(Byte) /\ Len(body) = n
  BY <1>1, <1>4, FunctionIsSeq
<1>7. s = [channelID |-> c, lastReadFrameIndex |-> k - 1, data |-> pre,
           ShouldReadMore |-> TRUE, amountToRead |-> Len(m)]
  BY <1>2 DEF Reading
<1> HIDE DEF s, a, pre, body
<1>8. s.channelID = c /\ s.lastReadFrameIndex = k - 1 /\ s.data = pre /\ s.ShouldReadMore
      /\ s.amountToRead = Len(m)
  BY <1>7
<1>9. /\ Len(buf) = a + n
      /\ Len(m) <= a + n => SubSeq(buf, 1, Len(m)) = m
      /\ Len(m) > a + n => buf = SubSeq(m, 1, a + n)
  <2>1. a <= Len(m) /\ a \in Nat /\ n \in Nat /\ m \in Seq(Byte)
    BY <1>1, <1>3
  <2>2. Continues(body, n, m, a)
    BY <1>5, <1>6 DEF Continues
  <2> HIDE DEF n
  <2>3. /\ Len(SubSeq(m, 1, a) \o body) = a + n
        /\ Len(m) <= a + n => SubSeq(SubSeq(m, 1, a) \o body, 1, Len(m)) = m
        /\ Len(m) > a + n => SubSeq(m, 1, a) \o body = SubSeq(m, 1, a + n)
    BY <2>1, <2>2, Joined, ZenonT(30)
  <2> QED
    BY <2>3, Zenon DEF pre
<1>10. (k - (k - 1)) % IndexMod = 1 /\ k # 0
  BY <1>2, Sizes
<1>11. ReadData(s, p) =
         [ok |-> TRUE,
          s |-> [channelID |-> c, lastReadFrameIndex |-> k,
                 data |-> IF Len(buf) >= Len(m) THEN SubSeq(buf, 1, Len(m)) ELSE buf,
                 ShouldReadMore |-> ~(Len(buf) >= Len(m)),
                 amountToRead |-> Len(m)]]
  <2> DEFINE joint == s.data \o p.body
             amt == s.amountToRead
  <2>1. s.channelID # 0 /\ p.chan = s.channelID /\ p.idx # 0
        /\ (p.idx - s.lastReadFrameIndex) % IndexMod = 1
    BY <1>1, <1>4, <1>8, <1>10, Zenon
  <2>2. ReadData(s, p) =
          [ok |-> TRUE,
           s |-> [channelID |-> p.chan, lastReadFrameIndex |-> p.idx,
                  data |-> IF Len(joint) >= amt THEN SubSeq(joint, 1, amt) ELSE joint,
                  ShouldReadMore |-> ~(Len(joint) >= amt),
                  amountToRead |-> amt]]
    BY <1>4, <1>8, <2>1, ReadDataGoesOn, Zenon
  <2>3. amt = Len(m) /\ joint = buf
    BY <1>8, Zenon DEF body
  <2> HIDE DEF amt, joint, buf
  <2> QED
    BY <1>4, <2>2, <2>3, Zenon
<1> HIDE DEF buf
<1>12. CASE k + 1 = Count(m)
  <2>1. Len(buf) >= Len(m) /\ Count(m) - 1 = k /\ SubSeq(buf, 1, Len(m)) = m
    BY <1>1, <1>2, <1>3, <1>9, <1>12
  <2> QED
    BY <1>11, <1>12, <2>1, Zenon DEF HasRead, s
<1>13. CASE k + 1 # Count(m)
  <2>1. ~(Len(buf) >= Len(m)) /\ buf = SubSeq(m, 1, Held(k + 1)) /\ (k + 1) - 1 = k /\ k + 1 # 0
    BY <1>1, <1>2, <1>3, <1>9, <1>13
  <2> QED
    BY <1>11, <1>13, <2>1, Zenon DEF Reading, s
<1> QED
  BY <1>12, <1>13

\* usb.go:196-375.  What FormatResponse cuts up, a session puts together again, for every
\* size of packet: after each packet but the last it holds that much of the message and
\* asks for more, and after the last one exactly the message.
THEOREM ReadsBack ==
  ASSUME NEW c \in Channels, NEW m, Sendable(m), NEW k \in 0 .. Count(m) - 1
  PROVE  ReadData(Reading(c, m, k), FormatResponse(c, m)[k + 1]) =
           [ok |-> TRUE,
            s |-> IF k + 1 = Count(m) THEN HasRead(c, m) ELSE Reading(c, m, k + 1)]
<1>1. Count(m) \in Nat /\ k + 1 \in 1 .. Count(m)
  BY CountFacts
<1>2. Carries(FormatResponse(c, m)[k + 1], c, m, k + 1)
  BY <1>1, FormatResponseFacts
<1>3. CASE k = 0
  <2>1. Reading(c, m, k) = Fresh /\ k + 1 = 1
    BY <1>3 DEF Reading
  <2> QED
    BY <1>2, <1>3, <2>1, ReadsFirst, Zenon
<1>4. CASE k # 0
  <2>1. k \in 1 .. Count(m) - 1
    BY <1>1, <1>4
  <2> QED
    BY <1>2, <2>1, ReadsNext, Zenon
<1> QED
  BY <1>3, <1>4

-------------------------------------------------------------------------------
(* Types *)

\* A session that has read nothing.
LEMMA FreshType == Fresh \in Session
<1>1. 0 \in 0 .. IndexMod - 1 /\ 0 \in 0 .. LenMod - 1 /\ <<>> \in Seq(Byte)
  BY Sizes
<1> QED
  BY <1>1 DEF Fresh, Session

\* An open session that misses data (usb.go:256-270).
Unfinished(s) == s.channelID \in Channels /\ s.ShouldReadMore /\ Len(s.data) < s.amountToRead

\* A session that has read something.
LEMMA SessionType ==
  \A c \in Channels, i \in 0 .. IndexMod - 1, d \in Seq(Byte), b \in BOOLEAN, a \in 0 .. LenMod - 1 :
    [channelID |-> c, lastReadFrameIndex |-> i, data |-> d, ShouldReadMore |-> b,
     amountToRead |-> a] \in Session
  BY DEF Session

\* The longest message two bytes announce.
LEMMA LengthType ==
  ASSUME NEW a \in Byte, NEW b \in Byte
  PROVE  a * Base + b \in 0 .. LenMod - 1
<1>1. a \in Nat /\ b \in Nat /\ a <= Base - 1 /\ b <= Base - 1 /\ Base \in Nat /\ Base - 1 \in Nat
  BY Sizes DEF Byte
<1>2. Base * a <= Base * (Base - 1)
  BY <1>1, TimesMonotonic
<1>3. Base * (Base - 1) = Base * Base - Base /\ Base * a = a * Base /\ a * Base \in Nat
      /\ Base * Base \in Nat
  BY <1>1
<1> QED
  BY <1>1, <1>2, <1>3 DEF LenMod

\* The data of a session is cut off at the amount it was to read.
LEMMA TrimType ==
  ASSUME NEW buf \in Seq(Byte), NEW amt \in Nat
  PROVE  (IF Len(buf) >= amt THEN SubSeq(buf, 1, amt) ELSE buf) \in Seq(Byte)
<1>1. ASSUME Len(buf) >= amt PROVE SubSeq(buf, 1, amt) \in Seq(Byte)
  BY <1>1, SubSeqProperties
<1> QED
  BY <1>1

\* usb.go:196-276.  ReadData keeps a session's types; a session that it leaves
\* unfinished misses data, and one that it fails on is left as it was.
LEMMA ReadDataFacts ==
  ASSUME NEW s \in Session, NEW p \in Packet, s = Fresh \/ Unfinished(s)
  PROVE  LET read == ReadData(s, p)
         IN  /\ read.s \in Session
             /\ read.ok \in BOOLEAN
             /\ ~read.ok => read.s = s
             /\ read.ok => read.s.channelID \in Channels
             /\ read.ok /\ read.s.ShouldReadMore => Unfinished(read.s)
<1> DEFINE read == ReadData(s, p)
           Goal == /\ read.s \in Session
                   /\ read.ok \in BOOLEAN
                   /\ ~read.ok => read.s = s
                   /\ read.ok => read.s.channelID \in Channels
                   /\ read.ok /\ read.s.ShouldReadMore => Unfinished(read.s)
<1> SUFFICES Goal
  OBVIOUS
<1>1. /\ p.idx \in 0 .. IndexMod - 1 /\ p.body \in [1 .. nextChunkSize -> Byte]
      /\ p.chan # 0 => p.chan \in Channels
  BY DEF Packet
<1>2. s.data \in Seq(Byte) /\ s.amountToRead \in 0 .. LenMod - 1
  BY DEF Session
<1>3. ASSUME NEW i \in 0 .. IndexMod - 1, NEW buf \in Seq(Byte), NEW amt \in 0 .. LenMod - 1,
             NEW b \in BOOLEAN, b => ~(Len(buf) >= amt), p.chan \in Channels,
             read = [ok |-> TRUE,
                     s |-> [channelID |-> p.chan, lastReadFrameIndex |-> i,
                            data |-> IF Len(buf) >= amt THEN SubSeq(buf, 1, amt) ELSE buf,
                            ShouldReadMore |-> b, amountToRead |-> amt]]
      PROVE  Goal
  <2> DEFINE d == IF Len(buf) >= amt THEN SubSeq(buf, 1, amt) ELSE buf
             t == [channelID |-> p.chan, lastReadFrameIndex |-> i, data |-> d,
                   ShouldReadMore |-> b, amountToRead |-> amt]
  <2>1. d \in Seq(Byte)
    BY TrimType, Sizes
  <2>2. b => Len(d) < amt
    BY <1>3, Sizes
  <2> HIDE DEF d
  <2>3. t \in Session
    BY <1>3, <2>1, SessionType
  <2>4. t.channelID \in Channels /\ (t.ShouldReadMore => Unfinished(t))
    BY <1>3, <2>2 DEF Unfinished
  <2>5. read = [ok |-> TRUE, s |-> t]
    BY <1>3 DEF d
  <2> HIDE DEF t, read
  <2>6. read.ok = TRUE /\ read.s = t
    BY <2>5
  <2> QED
    BY <2>3, <2>4, <2>6, Zenon
<1>4. CASE p.sized /\ p.tagged /\ p.chan # 0 /\ s.channelID = 0
  <2> DEFINE body == SubSeq(p.body, 3, nextChunkSize)
             len == p.body[1] * Base + p.body[2]
             buf == s.data \o body
             b == len > hidFrameMaxDataSize /\ ~(Len(buf) >= len)
  <2>1. \A i \in 3 .. nextChunkSize : p.body[i] \in Byte
    BY <1>1, Sizes
  <2>2. body \in Seq(Byte)
    BY <2>1, Sizes, SubSeqProperties
  <2>3. buf \in Seq(Byte)
    BY <1>2, <2>2, ConcatProperties
  <2>4. len \in 0 .. LenMod - 1
    <3>1. p.body[1] \in Byte /\ p.body[2] \in Byte
      BY <1>1, Sizes
    <3> QED
      BY <3>1, LengthType, Zenon
  <2>5. read = [ok |-> TRUE,
                s |-> [channelID |-> p.chan, lastReadFrameIndex |-> p.idx,
                       data |-> IF Len(buf) >= len THEN SubSeq(buf, 1, len) ELSE buf,
                       ShouldReadMore |-> b, amountToRead |-> len]]
    BY <1>4, ReadDataOpens, Zenon
  <2>6. b \in BOOLEAN /\ (b => ~(Len(buf) >= len))
    BY Zenon
  <2> HIDE DEF body, len, buf, b, read
  <2> QED
    BY <1>1, <1>3, <1>4, <2>3, <2>4, <2>5, <2>6, Zenon
<1>5. CASE /\ p.sized /\ p.tagged /\ p.chan # 0 /\ s.channelID # 0
           /\ s.ShouldReadMore /\ p.chan = s.channelID /\ p.idx # 0
           /\ (p.idx - s.lastReadFrameIndex) % IndexMod = 1
  <2> DEFINE amt == s.amountToRead
             buf == s.data \o p.body
             b == ~(Len(buf) >= amt)
  <2>1. p.body \in Seq(Byte)
    BY <1>1, Sizes, FunctionIsSeq
  <2>2. buf \in Seq(Byte)
    BY <1>2, <2>1, ConcatProperties
  <2>3. read = [ok |-> TRUE,
                s |-> [channelID |-> p.chan, lastReadFrameIndex |-> p.idx,
                       data |-> IF Len(buf) >= amt THEN SubSeq(buf, 1, amt) ELSE buf,
                       ShouldReadMore |-> b, amountToRead |-> amt]]
    BY <1>5, ReadDataGoesOn, Zenon
  <2>4. b \in BOOLEAN /\ (b => ~(Len(buf) >= amt)) /\ amt \in 0 .. LenMod - 1
    BY <1>2, Zenon
  <2> HIDE DEF amt, buf, b, read
  <2> QED
    BY <1>1, <1>3, <1>5, <2>2, <2>3, <2>4, Zenon
<1>6. CASE ~ /\ p.sized /\ p.tagged /\ p.chan # 0
             /\ \/ s.channelID = 0
                \/ /\ s.ShouldReadMore /\ p.chan = s.channelID /\ p.idx # 0
                   /\ (p.idx - s.lastReadFrameIndex) % IndexMod = 1
  <2>1. read.s = s /\ read.ok \in BOOLEAN /\ (read.ok => s.channelID # 0)
    BY <1>6, ReadDataLeaves, Zenon
  <2>2. s.channelID # 0 => Unfinished(s)
    BY DEF Fresh
  <2>3. Unfinished(s) => s.channelID \in Channels
    BY DEF Unfinished
  <2> HIDE DEF read
  <2> QED
    BY <2>1, <2>2, <2>3
<1> QED
  BY <1>4, <1>5, <1>6, Zenon

\* A session in the middle of a message misses data, and so can be read into.
LEMMA ReadingFacts ==
  ASSUME NEW c \in Channels, NEW m, Sendable(m), NEW k \in 0 .. Count(m) - 1
  PROVE  /\ Reading(c, m, k) \in Session
         /\ k = 0 => Reading(c, m, k) = Fresh
         /\ k # 0 => Unfinished(Reading(c, m, k)) /\ Reading(c, m, k).channelID = c
<1>1. CASE k = 0
  BY <1>1, FreshType DEF Reading
<1>2. CASE k # 0
  <2> DEFINE d == SubSeq(m, 1, Held(k))
             s == [channelID |-> c, lastReadFrameIndex |-> k - 1, data |-> d,
                   ShouldReadMore |-> TRUE, amountToRead |-> Len(m)]
  <2>1. Count(m) \in Nat /\ Count(m) <= IndexMod /\ m \in Seq(Byte) /\ Len(m) \in 0 .. LenMod - 1
    BY CountFacts DEF Sendable
  <2>2. Held(k) \in Nat /\ Held(k) <= Held(Count(m) - 1) /\ Held(Count(m) - 1) < Len(m)
        /\ Held(Count(m) - 1) \in Nat
    <3>1. Count(m) - 1 \in Nat /\ k \in Nat /\ k <= Count(m) - 1
      BY <2>1
    <3>2. Held(k) <= Held(Count(m) - 1)
      BY <3>1, HeldGrows, Zenon
    <3> QED
      BY <3>1, <3>2, CountFacts, HeldFacts, Zenon
  <2>3. Held(k) < Len(m) /\ k - 1 \in 0 .. IndexMod - 1
    BY <1>2, <2>1, <2>2, Sizes
  <2>4. d \in Seq(Byte) /\ Len(d) = Held(k)
    BY <2>1, <2>2, <2>3, SubSeqProperties
  <2> HIDE DEF d
  <2>5. s \in Session
    BY <2>1, <2>3, <2>4, SessionType, Zenon
  <2>6. Unfinished(s) /\ s.channelID = c
    BY <2>3, <2>4 DEF Unfinished
  <2>7. Reading(c, m, k) = s
    BY <1>2 DEF Reading, d
  <2> QED
    BY <1>2, <2>5, <2>6, <2>7
<1> QED
  BY <1>1, <1>2

\* The packets of m after the first k.
LEMMA LeftFacts ==
  ASSUME NEW c \in Channels, NEW m, Sendable(m), NEW k \in 0 .. Count(m)
  PROVE  LET rest == SubSeq(FormatResponse(c, m), k + 1, Count(m))
         IN  /\ rest \in Seq(Packet)
             /\ rest = <<>> <=> k = Count(m)
             /\ k < Count(m) =>
                  /\ Head(rest) = FormatResponse(c, m)[k + 1]
                  /\ Tail(rest) = SubSeq(FormatResponse(c, m), k + 2, Count(m))
             /\ k = 0 => rest = FormatResponse(c, m)
<1> DEFINE P == FormatResponse(c, m)
           n == Count(m)
           rest == SubSeq(P, k + 1, n)
<1>1. n \in Nat \ {0} /\ P \in Seq(Packet) /\ Len(P) = n
  BY CountFacts, FormatResponseFacts
<1> HIDE DEF P, n
<1>2. k \in Nat /\ k <= n
  BY <1>1 DEF n
<1>3. \A i \in k + 1 .. n : P[i] \in Packet
  BY <1>1, <1>2
<1>4. rest \in Seq(Packet) /\ Len(rest) = IF k + 1 <= n THEN n - (k + 1) + 1 ELSE 0
  BY <1>1, <1>2, <1>3, SubSeqProperties
<1>5. rest = <<>> <=> k = n
  BY <1>1, <1>2, <1>4
<1>6. ASSUME k < n
      PROVE  Head(rest) = P[k + 1] /\ Tail(rest) = SubSeq(P, k + 2, n)
  <2>1. k + 1 \in 1 .. Len(P) /\ n \in (k + 1) .. Len(P) /\ (k + 1) + 1 = k + 2
    BY <1>1, <1>2, <1>6
  <2> QED
    BY <1>1, <2>1, HeadTailOfSubSeq
<1>7. ASSUME k = 0
      PROVE  rest = P
  BY <1>1, <1>7, SubSeqFull
<1> QED
  BY <1>4, <1>5, <1>6, <1>7 DEF P, n

\* usb.go:219-276.  A packet on a channel other than the session's is refused.
LEMMA OtherChannelRefused ==
  ASSUME NEW s, NEW p, s.channelID # 0, p.chan # s.channelID
  PROVE  ~ReadData(s, p).ok
  BY DEF ReadData, ReadFrame, HIDFrameNext, Fail

\* usb.go:219-276.  The session stays on its channel, or takes that of the packet.
LEMMA ReadsOnChannel ==
  ASSUME NEW s, NEW p
  PROVE  ReadData(s, p).s = s \/ ReadData(s, p).s.channelID = p.chan
<1>1. CASE ~ /\ p.sized /\ p.tagged /\ p.chan # 0
             /\ \/ s.channelID = 0
                \/ /\ s.ShouldReadMore /\ p.chan = s.channelID /\ p.idx # 0
                   /\ (p.idx - s.lastReadFrameIndex) % IndexMod = 1
  BY <1>1, ReadDataLeaves
<1>2. CASE p.sized /\ p.tagged /\ p.chan # 0 /\ s.channelID = 0
  BY <1>2, ReadDataOpens
<1>3. CASE /\ p.sized /\ p.tagged /\ s.channelID # 0
           /\ s.ShouldReadMore /\ p.chan = s.channelID /\ p.idx # 0
           /\ (p.idx - s.lastReadFrameIndex) % IndexMod = 1
  BY <1>3, Zenon DEF ReadData, ReadFrame, readFrame, HIDFrameNext, validate
<1> QED
  BY <1>1, <1>2, <1>3

-------------------------------------------------------------------------------
(* Replies and their packets *)

\* The packets of a reply.
Packets(w) == FormatResponse(w.chan, w.data)

\* A reply can be sent: its packets are packets, and there is one at least.
LEMMA ReplyFacts ==
  ASSUME NEW w \in Reply
  PROVE  /\ w.chan \in Channels /\ Sendable(w.data)
         /\ Count(w.data) \in Nat \ {0}
         /\ Packets(w) \in Seq(Packet) /\ Len(Packets(w)) = Count(w.data)
<1>1. w.chan \in Channels /\ w.data \in Replies \cup {NotAllowed}
  BY DEF Reply
<1>2. Sendable(w.data)
  BY <1>1, RepliesAssumption DEF Sendable
<1>3. Count(w.data) \in Nat \ {0}
  BY <1>2, CountFacts
<1>4. Packets(w) \in Seq(Packet) /\ Len(Packets(w)) = Count(w.data)
  BY <1>1, <1>2, FormatResponseFacts DEF Packets
<1> QED
  BY <1>1, <1>2, <1>3, <1>4

\* The packets of w after the first j.
LEMMA RestFacts ==
  ASSUME NEW w \in Reply, NEW j \in 0 .. Count(w.data)
  PROVE  LET rest == SubSeq(Packets(w), j + 1, Count(w.data))
         IN  /\ rest \in Seq(Packet)
             /\ rest = <<>> <=> j = Count(w.data)
             /\ j < Count(w.data) =>
                  /\ Head(rest) = Packets(w)[j + 1]
                  /\ Tail(rest) = SubSeq(Packets(w), j + 2, Count(w.data))
             /\ j = 0 => rest = Packets(w)
<1>1. w.chan \in Channels /\ Sendable(w.data)
  BY ReplyFacts
<1> QED
  BY <1>1, LeftFacts, Zenon DEF Packets

\* usb.go:196-276.  What the host makes of the j-th packet of w, and of the last.
LEMMA HostReads ==
  ASSUME NEW w \in Reply, NEW j \in 0 .. Count(w.data) - 1,
         hostSess = Reading(w.chan, w.data, j),
         want \in Seq(Reply), want # <<>>, w = want[1]
  PROVE  LET p == Packets(w)[j + 1]
             last == j + 1 = Count(w.data)
         IN  /\ HostReadsRight(p)
             /\ HostReplyEnds(p) <=> last
             /\ ~last => HostReply(p).s = Reading(w.chan, w.data, j + 1)
             /\ p.chan = w.chan
<1> DEFINE p == Packets(w)[j + 1]
           last == j + 1 = Count(w.data)
           s == IF last THEN HasRead(w.chan, w.data) ELSE Reading(w.chan, w.data, j + 1)
<1>1. w.chan \in Channels /\ Sendable(w.data) /\ Count(w.data) \in Nat
  BY ReplyFacts
<1>2. HostReply(p) = [ok |-> TRUE, s |-> s]
  BY <1>1, ReadsBack, Zenon DEF HostReply, Packets
<1>3. j + 1 # 0 /\ j + 1 \in 1 .. Count(w.data)
  BY <1>1
<1>4. last => s.channelID = w.chan /\ s.data = w.data /\ ~s.ShouldReadMore
  BY Zenon DEF HasRead
<1>5. ~last => s.channelID = w.chan /\ s.ShouldReadMore
  BY <1>3 DEF Reading
<1>6. Head(want) = w
  OBVIOUS
<1>7. p.chan = w.chan
  <2>1. Carries(p, w.chan, w.data, j + 1)
    BY <1>1, <1>3, FormatResponseFacts DEF Packets
  <2> HIDE DEF p
  <2> QED
    BY <2>1 DEF Carries
<1>8. s = Reading(w.chan, w.data, j + 1) \/ last
  OBVIOUS
<1> HIDE DEF p, s
<1>9. HostReply(p).ok = TRUE /\ HostReply(p).s = s
  BY <1>2
<1>10. HostReadsRight(p) /\ (HostReplyEnds(p) <=> last)
  BY <1>4, <1>5, <1>6, <1>9 DEF HostReadsRight, HostReplyEnds
<1> QED
  BY <1>7, <1>8, <1>9, <1>10 DEF p

\* What the host makes of a reply.
Readable == [chan : Channels, data : Replies \cup {NotAllowed}]

\* Replies as the host sees them.
Seen(w) == [i \in 1 .. Len(w) |-> [chan |-> w[i].chan, data |-> w[i].data]]

\* The host sees as many replies as there are.
LEMMA SeenFacts ==
  ASSUME NEW w \in Seq(Reply)
  PROVE  /\ Seen(w) \in Seq(Readable)
         /\ Len(Seen(w)) = Len(w)
         /\ \A i \in 1 .. Len(w) : Seen(w)[i] = [chan |-> w[i].chan, data |-> w[i].data]
<1>1. Len(w) \in Nat
  OBVIOUS
<1>2. ASSUME NEW i \in 1 .. Len(w)
      PROVE  [chan |-> w[i].chan, data |-> w[i].data] \in Readable
  <2>1. PICK v \in Reply : v = w[i]
    OBVIOUS
  <2>2. [chan |-> v.chan, data |-> v.data] \in Readable
    BY DEF Reply, Readable
  <2> QED
    BY <2>1, <2>2
<1>3. Seen(w) \in [1 .. Len(w) -> Readable]
  BY <1>2 DEF Seen
<1>4. Seen(w) \in Seq(Readable) /\ Len(Seen(w)) = Len(w)
  BY <1>1, <1>3, FunctionIsSeq
<1> QED
  BY <1>4 DEF Seen

\* No reply is owed at first.
LEMMA SeenNothing == Seen(<<>>) = <<>>
<1>1. <<>> \in Seq(Reply) /\ Len(<<>>) = 0
  OBVIOUS
<1>2. Seen(<<>>) \in Seq(Readable) /\ Len(Seen(<<>>)) = 0
  BY <1>1, SeenFacts, Zenon
<1> QED
  BY <1>2

\* One more reply is decided on.
LEMMA SeenGrows ==
  ASSUME NEW w \in Seq(Reply), NEW v \in Reply
  PROVE  \E r \in Readable : Seen(w \o <<v>>) = Append(Seen(w), r)
<1> DEFINE r == [chan |-> v.chan, data |-> v.data]
           u == w \o <<v>>
<1>1. r \in Readable
  BY DEF Reply, Readable
<1>2. /\ u \in Seq(Reply) /\ Len(u) = Len(w) + 1 /\ Len(w) \in Nat
      /\ u[Len(w) + 1] = v /\ \A i \in 1 .. Len(w) : u[i] = w[i]
  OBVIOUS
<1> HIDE DEF u
<1>3. /\ Seen(w) \in Seq(Readable) /\ Len(Seen(w)) = Len(w)
      /\ \A i \in 1 .. Len(w) : Seen(w)[i] = [chan |-> w[i].chan, data |-> w[i].data]
  BY SeenFacts
<1>4. /\ Seen(u) \in Seq(Readable) /\ Len(Seen(u)) = Len(u)
      /\ \A i \in 1 .. Len(u) : Seen(u)[i] = [chan |-> u[i].chan, data |-> u[i].data]
  BY <1>2, SeenFacts
<1>5. Seen(u)[Len(w) + 1] = r
  BY <1>2, <1>4
<1> HIDE DEF r
<1> DEFINE a == Append(Seen(w), r)
<1>6. /\ a \in Seq(Readable) /\ Len(a) = Len(w) + 1
      /\ \A i \in 1 .. Len(w) : a[i] = Seen(w)[i]
      /\ a[Len(w) + 1] = r
  BY <1>1, <1>3, AppendProperties
<1> HIDE DEF a
<1>7. ASSUME NEW i \in 1 .. Len(Seen(u))
      PROVE  Seen(u)[i] = a[i]
  <2>1. CASE i = Len(w) + 1
    BY <1>5, <1>6, <2>1
  <2>2. CASE i # Len(w) + 1
    <3>1. i \in 1 .. Len(w) /\ i \in 1 .. Len(u)
      BY <1>2, <1>4, <2>2
    <3>2. u[i] = w[i] /\ a[i] = Seen(w)[i]
      BY <1>2, <1>6, <3>1
    <3> QED
      BY <1>3, <1>4, <3>1, <3>2, Zenon
  <2> QED
    BY <2>1, <2>2
<1>8. Seen(u) = a
  BY <1>2, <1>4, <1>6, <1>7, SeqEqual
<1> QED
  BY <1>1, <1>8 DEF a, u

\* The host has read the oldest reply.
LEMMA SeenShrinks ==
  ASSUME NEW w \in Seq(Reply), w # <<>>
  PROVE  Seen(w) # <<>> /\ Seen(Tail(w)) = Tail(Seen(w))
<1> DEFINE u == Tail(w)
           a == Tail(Seen(w))
<1>1. /\ u \in Seq(Reply) /\ Len(u) = Len(w) - 1 /\ Len(w) \in Nat \ {0}
      /\ \A i \in 1 .. Len(u) : u[i] = w[i + 1]
  BY HeadTailProperties
<1> HIDE DEF u
<1>2. /\ Seen(w) \in Seq(Readable) /\ Len(Seen(w)) = Len(w)
      /\ \A i \in 1 .. Len(w) : Seen(w)[i] = [chan |-> w[i].chan, data |-> w[i].data]
  BY SeenFacts
<1>3. Seen(w) # <<>>
  BY <1>1, <1>2
<1>4. /\ a \in Seq(Readable) /\ Len(a) = Len(w) - 1
      /\ \A i \in 1 .. Len(a) : a[i] = Seen(w)[i + 1]
  BY <1>2, <1>3, HeadTailProperties
<1>5. /\ Seen(u) \in Seq(Readable) /\ Len(Seen(u)) = Len(u)
      /\ \A i \in 1 .. Len(u) : Seen(u)[i] = [chan |-> u[i].chan, data |-> u[i].data]
  BY <1>1, SeenFacts
<1> HIDE DEF a
<1>6. ASSUME NEW i \in 1 .. Len(Seen(u))
      PROVE  Seen(u)[i] = a[i]
  <2>1. i \in 1 .. Len(u) /\ i + 1 \in 1 .. Len(w) /\ i \in 1 .. Len(a)
    BY <1>1, <1>4, <1>5
  <2>2. u[i] = w[i + 1] /\ a[i] = Seen(w)[i + 1]
    BY <1>1, <1>4, <2>1
  <2> QED
    BY <1>2, <1>5, <2>1, <2>2, Zenon
<1>7. Seen(u) = a
  BY <1>1, <1>4, <1>5, <1>6, SeqEqual
<1> QED
  BY <1>3, <1>7 DEF a, u

-------------------------------------------------------------------------------
(* Programs *)

\* Program c has sent k packets of its message.
Sent(c, k) ==
  /\ Sendable(msg[c])
  /\ todo[c] = SubSeq(FormatResponse(c, msg[c]), k + 1, Count(msg[c]))

\* A program has sent a part of its message, or takes no part at all.
ProgInv ==
  /\ msg \in [Channels -> Seq(Byte)]
  /\ todo \in [Channels -> Seq(Packet)]
  /\ inbox \in [Channels -> Nat]
  /\ \A c \in Channels :
       \/ msg[c] = <<>> /\ todo[c] = <<>> /\ inbox[c] = 0
       \/ \E k \in 0 .. Count(msg[c]) : Sent(c, k)

\* The packet that follows the first k of a message.
LEMMA SentNext ==
  ASSUME NEW c \in Channels, NEW k \in 0 .. Count(msg[c]) - 1, Sent(c, k)
  PROVE  /\ todo[c] # <<>>
         /\ Head(todo[c]) = FormatResponse(c, msg[c])[k + 1]
         /\ Carries(Head(todo[c]), c, msg[c], k + 1)
         /\ Tail(todo[c]) = SubSeq(FormatResponse(c, msg[c]), k + 2, Count(msg[c]))
         /\ k + 1 = Count(msg[c]) => Tail(todo[c]) = <<>>
<1> DEFINE m == msg[c]
<1>1. Sendable(m) /\ todo[c] = SubSeq(FormatResponse(c, m), k + 1, Count(m))
  BY DEF Sent
<1>2. Count(m) \in Nat \ {0}
  BY <1>1, CountFacts
<1>3. k < Count(m) /\ k + 1 \in 1 .. Count(m) /\ k \in 0 .. Count(m) /\ k # Count(m)
      /\ (k + 1) + 1 = k + 2 /\ k + 1 \in 0 .. Count(m)
  BY <1>2
<1>4. /\ Head(todo[c]) = FormatResponse(c, m)[k + 1]
      /\ Tail(todo[c]) = SubSeq(FormatResponse(c, m), k + 2, Count(m))
      /\ todo[c] # <<>>
  <2> DEFINE rest == SubSeq(FormatResponse(c, m), k + 1, Count(m))
  <2>1. rest = <<>> <=> k = Count(m)
    BY <1>1, <1>3, LeftFacts, ZenonT(30)
  <2>2. Head(rest) = FormatResponse(c, m)[k + 1]
    BY <1>1, <1>3, LeftFacts, ZenonT(30)
  <2>3. Tail(rest) = SubSeq(FormatResponse(c, m), k + 2, Count(m))
    BY <1>1, <1>3, LeftFacts, ZenonT(30)
  <2> QED
    BY <1>1, <1>3, <2>1, <2>2, <2>3, Zenon
<1>5. Carries(Head(todo[c]), c, m, k + 1)
  BY <1>1, <1>3, <1>4, FormatResponseFacts, Zenon
<1>6. k + 1 = Count(m) => SubSeq(FormatResponse(c, m), (k + 1) + 1, Count(m)) = <<>>
  BY <1>1, <1>3, LeftFacts, Zenon
<1> QED
  BY <1>3, <1>4, <1>5, <1>6, Zenon

\* A program with packets left is about to send one of its message.
LEMMA NextOfProgram ==
  ASSUME ProgInv, NEW c \in Channels, todo[c] # <<>>
  PROVE  /\ Sendable(msg[c]) /\ msg[c] # <<>>
         /\ \E k \in 0 .. Count(msg[c]) - 1 : Sent(c, k)
<1>1. PICK k \in 0 .. Count(msg[c]) : Sent(c, k)
  BY DEF ProgInv
<1>2. Sendable(msg[c]) /\ todo[c] = SubSeq(FormatResponse(c, msg[c]), k + 1, Count(msg[c]))
  BY <1>1 DEF Sent
<1>3. k # Count(msg[c]) /\ Count(msg[c]) \in Nat
  BY <1>2, LeftFacts, CountFacts
<1>4. k \in 0 .. Count(msg[c]) - 1
  BY <1>3
<1>5. msg[c] # <<>>
  BY <1>2 DEF Sendable
<1> QED
  BY <1>1, <1>2, <1>4, <1>5

\* A program without a message sends nothing and is sent nothing.
LEMMA TakesNoPart ==
  ASSUME ProgInv, NEW c \in Channels, msg[c] = <<>>
  PROVE  todo[c] = <<>> /\ inbox[c] = 0
<1>1. Sendable(msg[c]) => msg[c] # <<>>
  BY DEF Sendable
<1> QED
  BY <1>1 DEF ProgInv, Sent

\* The packets that reach the device are packets.
LEMMA NextIsPacket ==
  ASSUME ProgInv, NEW c \in Channels, todo[c] # <<>>
  PROVE  Head(todo[c]) \in Packet /\ Head(todo[c]).chan = c
  BY NextOfProgram, SentNext DEF Carries

\* A program that begins an exchange has sent no packet of its message.
LEMMA SentNothing ==
  ASSUME NEW c \in Channels, NEW m \in Messages[c]
  PROVE  /\ Sendable(m) /\ m # <<>> /\ m \in Seq(Byte)
         /\ Count(m) \in Nat \ {0} /\ 0 \in 0 .. Count(m)
         /\ FormatResponse(c, m) \in Seq(Packet)
         /\ FormatResponse(c, m) = SubSeq(FormatResponse(c, m), 0 + 1, Count(m))
<1>1. Sendable(m) /\ m # <<>> /\ m \in Seq(Byte)
  BY MessagesAssumption DEF Sendable
<1>2. Count(m) \in Nat \ {0}
  BY <1>1, CountFacts
<1>3. 0 \in 0 .. Count(m)
  BY <1>2
<1>4. FormatResponse(c, m) = SubSeq(FormatResponse(c, m), 0 + 1, Count(m))
  BY <1>1, <1>3, LeftFacts
<1>5. FormatResponse(c, m) \in Seq(Packet)
  BY <1>1, FormatResponseFacts
<1> QED
  BY <1>1, <1>2, <1>3, <1>4, <1>5

\* There is a packet to send.
LEMMA HasPackets ==
  ASSUME NEW c \in Channels, NEW m \in Messages[c]
  PROVE  FormatResponse(c, m) # <<>>
<1>1. Len(FormatResponse(c, m)) \in Nat \ {0}
  BY SentNothing, FormatResponseFacts, CountFacts, Zenon
<1> QED
  BY <1>1

\* At first a program has sent nothing.
LEMMA ProgInvInit == ProgInit => ProgInv
<1> SUFFICES ASSUME ProgInit PROVE ProgInv
  OBVIOUS
<1>1. /\ \A c \in Channels : msg[c] \in Messages[c] \cup {<<>>}
      /\ \E T : msg \in [Channels -> T]
      /\ todo = [c \in Channels |-> IF msg[c] = <<>> THEN <<>> ELSE FormatResponse(c, msg[c])]
      /\ inbox = [c \in Channels |-> 0]
  BY Zenon DEF ProgInit
<1>2. <<>> \in Seq(Byte) /\ <<>> \in Seq(Packet)
  OBVIOUS
<1>3. \A c \in Channels : msg[c] \in Seq(Byte) /\ todo[c] \in Seq(Packet)
  BY <1>1, <1>2, SentNothing, Zenon
<1>4. /\ msg \in [Channels -> Seq(Byte)]
      /\ todo \in [Channels -> Seq(Packet)]
      /\ inbox \in [Channels -> Nat]
  BY <1>1, <1>3
<1>5. ASSUME NEW c \in Channels, msg[c] # <<>>
      PROVE  Sent(c, 0) /\ 0 \in 0 .. Count(msg[c])
  BY <1>1, <1>5, SentNothing DEF Sent
<1>6. \A c \in Channels : msg[c] = <<>> => todo[c] = <<>> /\ inbox[c] = 0
  BY <1>1, Zenon
<1> QED
  BY <1>4, <1>5, <1>6 DEF ProgInv

\* A program that reads its reply takes part, and begins another exchange.
LEMMA ProgInvStart ==
  ASSUME ProgInv, NEW c \in Channels, ProgStart(c)
  PROVE  /\ ProgInv' /\ msg[c] # <<>> /\ msg'[c] # <<>> /\ todo[c] = <<>>
         /\ Sent(c, 0)' /\ 0 \in 0 .. Count(msg'[c]) - 1 /\ inbox'[c] = inbox[c] - 1
         /\ \A d \in Channels \ {c} : msg'[d] = msg[d] /\ todo'[d] = todo[d] /\ inbox'[d] = inbox[d]
<1>1. PICK m \in Messages[c] :
        /\ msg' = [msg EXCEPT ![c] = m] /\ todo' = [todo EXCEPT ![c] = FormatResponse(c, m)]
        /\ inbox' = [inbox EXCEPT ![c] = @ - 1] /\ inbox[c] > 0 /\ todo[c] = <<>>
  BY Zenon DEF ProgStart
<1>2. /\ msg \in [Channels -> Seq(Byte)] /\ todo \in [Channels -> Seq(Packet)]
      /\ inbox \in [Channels -> Nat]
  BY DEF ProgInv
<1>3. /\ Sendable(m) /\ m # <<>> /\ m \in Seq(Byte)
      /\ Count(m) \in Nat \ {0} /\ 0 \in 0 .. Count(m)
      /\ FormatResponse(c, m) \in Seq(Packet)
      /\ FormatResponse(c, m) = SubSeq(FormatResponse(c, m), 0 + 1, Count(m))
  BY SentNothing
<1>4. msg'[c] = m /\ todo'[c] = FormatResponse(c, m) /\ inbox'[c] = inbox[c] - 1
  BY <1>1, <1>2
<1>5. \A d \in Channels \ {c} : msg'[d] = msg[d] /\ todo'[d] = todo[d] /\ inbox'[d] = inbox[d]
  BY <1>1, <1>2
<1>6. /\ msg' \in [Channels -> Seq(Byte)] /\ todo' \in [Channels -> Seq(Packet)]
      /\ inbox' \in [Channels -> Nat]
  <2>1. inbox[c] - 1 \in Nat
    BY <1>1, <1>2
  <2> QED
    BY <1>1, <1>2, <1>3, <2>1
<1>7. Sent(c, 0)' /\ 0 \in 0 .. Count(msg'[c]) /\ 0 \in 0 .. Count(msg'[c]) - 1
  BY <1>3, <1>4 DEF Sent
<1>8. ASSUME NEW d \in Channels \ {c}
      PROVE  (\/ msg[d] = <<>> /\ todo[d] = <<>> /\ inbox[d] = 0
              \/ \E k \in 0 .. Count(msg[d]) : Sent(d, k))'
  <2>1. \/ msg[d] = <<>> /\ todo[d] = <<>> /\ inbox[d] = 0
        \/ \E k \in 0 .. Count(msg[d]) : Sent(d, k)
    BY Zenon DEF ProgInv
  <2> QED
    BY <1>5, <2>1 DEF Sent
<1>9. ProgInv'
  BY <1>6, <1>7, <1>8, Zenon DEF ProgInv
<1>10. msg[c] # <<>>
  BY <1>1, TakesNoPart
<1> QED
  BY <1>1, <1>3, <1>4, <1>5, <1>7, <1>9, <1>10

\* One packet more is sent.
LEMMA ProgInvEmit ==
  ASSUME ProgInv, NEW c \in Channels, ProgEmit(c)
  PROVE  /\ ProgInv' /\ msg' = msg /\ inbox' = inbox
         /\ todo'[c] = Tail(todo[c])
         /\ \A d \in Channels \ {c} : todo'[d] = todo[d]
<1>1. /\ todo[c] # <<>> /\ todo' = [todo EXCEPT ![c] = Tail(@)]
      /\ msg' = msg /\ inbox' = inbox
  BY DEF ProgEmit
<1>2. /\ msg \in [Channels -> Seq(Byte)] /\ todo \in [Channels -> Seq(Packet)]
      /\ inbox \in [Channels -> Nat]
  BY DEF ProgInv
<1>3. todo'[c] = Tail(todo[c]) /\ \A d \in Channels \ {c} : todo'[d] = todo[d]
  BY <1>1, <1>2
<1>4. Tail(todo[c]) \in Seq(Packet)
  BY <1>1, <1>2
<1>5. todo' \in [Channels -> Seq(Packet)]
  BY <1>1, <1>2, <1>4
<1>6. PICK k \in 0 .. Count(msg[c]) - 1 :
        /\ Sent(c, k)
        /\ Tail(todo[c]) = SubSeq(FormatResponse(c, msg[c]), k + 2, Count(msg[c]))
  BY <1>1, NextOfProgram, SentNext, Zenon
<1>7. Sent(c, k + 1)' /\ k + 1 \in 0 .. Count(msg'[c])
  <2>1. Sendable(msg[c]) /\ (k + 1) + 1 = k + 2
    BY <1>6 DEF Sent
  <2>2. Count(msg[c]) \in Nat
    BY <2>1, CountFacts
  <2>3. k + 1 \in 0 .. Count(msg[c])
    BY <2>2
  <2> QED
    BY <1>1, <1>3, <1>6, <2>1, <2>3, Zenon DEF Sent
<1>8. ASSUME NEW d \in Channels \ {c}
      PROVE  (\/ msg[d] = <<>> /\ todo[d] = <<>> /\ inbox[d] = 0
              \/ \E j \in 0 .. Count(msg[d]) : Sent(d, j))'
  <2>1. \/ msg[d] = <<>> /\ todo[d] = <<>> /\ inbox[d] = 0
        \/ \E j \in 0 .. Count(msg[d]) : Sent(d, j)
    BY DEF ProgInv
  <2> QED
    BY <1>1, <1>3, <2>1 DEF Sent
<1>9. ProgInv'
  <2>1. \A d \in Channels : (\/ msg[d] = <<>> /\ todo[d] = <<>> /\ inbox[d] = 0
                            \/ \E j \in 0 .. Count(msg[d]) : Sent(d, j))'
    BY <1>7, <1>8, Zenon
  <2> QED
    BY <1>1, <1>2, <1>5, <2>1, Zenon DEF ProgInv
<1> QED
  BY <1>1, <1>3, <1>9

\* A reply has been read on the channel of a program that takes part.
LEMMA ProgInvDeliver ==
  ASSUME ProgInv, NEW p, p.chan \in Channels, msg[p.chan] # <<>>, ProgDeliver(p)
  PROVE  ProgInv' /\ msg' = msg /\ todo' = todo
<1>1. /\ msg' = msg /\ todo' = todo
      /\ inbox' = inbox \/ inbox' = [inbox EXCEPT ![p.chan] = @ + 1]
  BY DEF ProgDeliver
<1>2. /\ inbox \in [Channels -> Nat]
      /\ \A c \in Channels : msg[c] = <<>> => inbox[c] = 0 /\ todo[c] = <<>>
  BY TakesNoPart, Zenon DEF ProgInv
<1>3. inbox' \in [Channels -> Nat]
  BY <1>1, <1>2
<1>4. \A c \in Channels : msg[c] = <<>> => inbox'[c] = 0
  BY <1>1, <1>2
<1> QED
  BY <1>1, <1>2, <1>3, <1>4, Zenon DEF ProgInv, Sent
===============================================================================
