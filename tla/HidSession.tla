------------------------------ MODULE HidSession ------------------------------
(***************************************************************************)
(* usb/usb.go: the framing of upper-level messages in 64-byte HID packets. *)
(*                                                                         *)
(* A packet carries a channel, a tag, a packet index and a body.  The body *)
(* of a HIDFrame starts with the two bytes of DataLength; that of a        *)
(* HIDFrameNext is all data.  Which of the two a packet is read as depends *)
(* on the Session only, so the packet is kept undecoded, as on the wire.   *)
(* A byte ranges over 0 .. Base-1, so DataLength over 0 .. Base^2-1.       *)
(***************************************************************************)
EXTENDS Integers, Sequences

CONSTANTS
  Base,                 \* values of a byte                  (256 in the code)
  hidFrameMaxDataSize,  \* data bytes of a HIDFrame          (57 in the code)
  IndexMod,             \* values of PacketIndex, a uint16   (65536 in the code)
  Channels              \* channel IDs hosts use, zero is never one of them

LenMod == Base * Base
nextChunkSize == hidFrameMaxDataSize + 2

(***************************************************************************)
(* The last assumption says that the packets of one message never use up   *)
(* the packet indexes: 65535 bytes take 1111 packets.                      *)
(***************************************************************************)
ASSUME SizesAssumption ==
  /\ Base \in Nat /\ Base >= 2
  /\ hidFrameMaxDataSize \in Nat /\ hidFrameMaxDataSize >= 1
  /\ IndexMod \in Nat /\ IndexMod >= 2
  /\ Channels \subseteq Nat \ {0}
  /\ LenMod - 1 <= hidFrameMaxDataSize + nextChunkSize * (IndexMod - 1)

Byte == 0 .. Base - 1

\* sized: binary.Read gets the 64 bytes it needs;  tagged: the tag is 0x05.
Packet == [sized : BOOLEAN, tagged : BOOLEAN, chan : Channels \cup {0},
           idx : 0 .. IndexMod - 1, body : [1 .. nextChunkSize -> Byte]]

Session == [channelID : Channels \cup {0}, lastReadFrameIndex : 0 .. IndexMod - 1,
            data : Seq(Byte), ShouldReadMore : BOOLEAN, amountToRead : 0 .. LenMod - 1]

\* The value NewSession starts from.  The handlers' nil session is Fresh too:
\* a Session returned by NewSession has read a frame and has a channel.
Fresh == [channelID |-> 0, lastReadFrameIndex |-> 0, data |-> <<>>,
          ShouldReadMore |-> TRUE, amountToRead |-> 0]

-------------------------------------------------------------------------------
(* Reading *)

HIDFrame(p) ==
  [first |-> TRUE, chan |-> p.chan, idx |-> p.idx,
   len |-> p.body[1] * Base + p.body[2], data |-> SubSeq(p.body, 3, nextChunkSize)]

HIDFrameNext(p) ==
  [first |-> FALSE, chan |-> p.chan, idx |-> p.idx, len |-> 0, data |-> p.body]

validate(p) == p.tagged /\ p.chan # 0

Fail(s) == [ok |-> FALSE, s |-> s]

\* Mutant: the padding of the last frame stays in the message.
readFrameNoTrim(s, f) ==
  LET buf  == s.data \o f.data
      amt  == IF f.first THEN f.len ELSE s.amountToRead
      more == IF f.first THEN f.len > hidFrameMaxDataSize ELSE s.ShouldReadMore
  IN  IF s.channelID # 0 /\ f.idx = 0
      THEN Fail(s)
      ELSE [ok |-> TRUE,
            s |-> [channelID |-> f.chan, lastReadFrameIndex |-> f.idx, data |-> buf,
                   ShouldReadMore |-> more /\ Len(buf) < amt, amountToRead |-> amt]]

\* Mutant: a message whose last frame is full is taken for unfinished.
readFrameStrict(s, f) ==
  LET buf  == s.data \o f.data
      amt  == IF f.first THEN f.len ELSE s.amountToRead
      more == IF f.first THEN f.len > hidFrameMaxDataSize ELSE s.ShouldReadMore
      full == Len(buf) > amt
  IN  IF s.channelID # 0 /\ f.idx = 0
      THEN Fail(s)
      ELSE [ok |-> TRUE,
            s |-> [channelID |-> f.chan, lastReadFrameIndex |-> f.idx,
                   data |-> IF full THEN SubSeq(buf, 1, amt) ELSE buf,
                   ShouldReadMore |-> more /\ ~full, amountToRead |-> amt]]

\* Session.readFrame.  On the last frame the padding is trimmed.
readFrame(s, f) ==
  LET buf  == s.data \o f.data
      amt  == IF f.first THEN f.len ELSE s.amountToRead
      more == IF f.first THEN f.len > hidFrameMaxDataSize ELSE s.ShouldReadMore
      full == Len(buf) >= amt
  IN  IF s.channelID # 0 /\ f.idx = 0
      THEN Fail(s)
      ELSE [ok |-> TRUE,
            s |-> [channelID |-> f.chan, lastReadFrameIndex |-> f.idx,
                   data |-> IF full THEN SubSeq(buf, 1, amt) ELSE buf,
                   ShouldReadMore |-> more /\ ~full, amountToRead |-> amt]]

\* Mutant: the channel of a later packet is not compared.
ReadFrameAnyChannel(s, f) ==
  IF s.channelID = 0
  THEN readFrame(s, f)
  ELSE IF s.ShouldReadMore /\ (f.idx - s.lastReadFrameIndex) % IndexMod = 1
       THEN [ok |-> TRUE, s |-> readFrame(s, f).s]
       ELSE Fail(s)

\* Session.ReadFrame.  It drops the error of readFrame on an open session.
ReadFrame(s, f) ==
  IF s.channelID = 0
  THEN readFrame(s, f)
  ELSE IF /\ s.ShouldReadMore
          /\ s.channelID = f.chan
          /\ (f.idx - s.lastReadFrameIndex) % IndexMod = 1
       THEN [ok |-> TRUE, s |-> readFrame(s, f).s]
       ELSE Fail(s)

ReadData(s, p) ==
  IF p.sized /\ validate(p)
  THEN ReadFrame(s, IF s.channelID # 0 THEN HIDFrameNext(p) ELSE HIDFrame(p))
  ELSE Fail(s)

-------------------------------------------------------------------------------
(* Writing *)

\* Mutant: the last, shorter piece is lost.
chunkFuncFloor(data, size) ==
  IF Len(data) <= size
  THEN <<data>>
  ELSE [i \in 1 .. Len(data) \div size |-> SubSeq(data, (i - 1) * size + 1, i * size)]

\* Pieces of at most size bytes, in order.
chunkFunc(data, size) ==
  LET chunks == (Len(data) + size - 1) \div size
  IN  IF Len(data) <= size
      THEN <<data>>
      ELSE [i \in 1 .. chunks |->
              SubSeq(data, (i - 1) * size + 1,
                     IF i = chunks THEN Len(data) ELSE i * size)]

Padded(data, size) == [i \in 1 .. size |-> IF i <= Len(data) THEN data[i] ELSE 0]

PacketOf(chan, idx, body) ==
  [sized |-> TRUE, tagged |-> TRUE, chan |-> chan, idx |-> idx % IndexMod, body |-> body]

\* Mutant: the length is written as one byte.
InitPacketByteLength(chan, len, data) ==
  PacketOf(chan, 0, <<0, len>> \o Padded(data, hidFrameMaxDataSize))

InitPacket(chan, len, data) ==
  PacketOf(chan, 0, <<(len \div Base) % Base, len % Base>> \o Padded(data, hidFrameMaxDataSize))

FormatResponse(chan, data) ==
  IF Len(data) <= hidFrameMaxDataSize
  THEN <<InitPacket(chan, Len(data), data)>>
  ELSE LET head   == SubSeq(data, 1, hidFrameMaxDataSize)
           chunks == chunkFunc(SubSeq(data, hidFrameMaxDataSize + 1, Len(data)), nextChunkSize)
       IN  <<InitPacket(chan, Len(data), head)>>
             \o [i \in 1 .. Len(chunks) |-> PacketOf(chan, i, Padded(chunks[i], nextChunkSize))]
===============================================================================
