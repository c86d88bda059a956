---------------------------- MODULE FirmwareProofs ----------------------------
(***************************************************************************)
(* The firmware's hidHandler, for every size of packet, every packet the   *)
(* host may send and every reply: the packets under way are those of the   *)
(* replies decided on.                                                     *)
(***************************************************************************)
EXTENDS FirmwareHid, HidProofs

\* Nothing is under way.
Quiet == tx = <<>> /\ outbound = <<>> /\ hostSess = Fresh

\* The host has read j packets of w; the next is with Tx, or still with Rx.
UnderWay(w, j) ==
  /\ hostSess = Reading(w.chan, w.data, j)
  /\ \/ tx = <<>> /\ outbound = SubSeq(Packets(w), j + 1, Count(w.data))
     \/ tx = <<Packets(w)[j + 1]>> /\ outbound = SubSeq(Packets(w), j + 2, Count(w.data))

\* The last packet of w is with Tx, and Rx has all those of v.
Overlap(w, v) ==
  /\ hostSess = Reading(w.chan, w.data, Count(w.data) - 1)
  /\ tx = <<Packets(w)[Count(w.data)]>>
  /\ outbound = Packets(v)

\* The packets still with Rx and Tx are the rest of the replies the host has not read.
StreamInv ==
  /\ want \in Seq(Reply)
  /\ \/ want = <<>> /\ Quiet
     \/ Len(want) = 1 /\ \E j \in 0 .. Count(want[1].data) - 1 : UnderWay(want[1], j)
     \/ Len(want) = 2 /\ Overlap(want[1], want[2])

\* While Rx is not about to drop the session, there is none or it misses data.
SessionInv ==
  /\ up \in BOOLEAN /\ closing \in BOOLEAN /\ session \in Session
  /\ closing => outbound # <<>>
  /\ ~closing => session = Fresh \/ Unfinished(session)

\* The inductive invariant of the handler.
HInv == SessionInv /\ StreamInv

-------------------------------------------------------------------------------
(* The stream of packets *)

\* wallera.go:43-47, 78-80.  Rx, which has sent all it had, decides on a reply and has
\* its packets ready; the one before is all with the host but for its last packet.
LEMMA StreamPromised ==
  ASSUME StreamInv, outbound = <<>>, NEW v \in Reply,
         outbound' = Packets(v), want' = want \o <<v>>, tx' = tx, hostSess' = hostSess
  PROVE  StreamInv' /\ outbound' # <<>>
<1>1. want \in Seq(Reply) /\ <<v>> \in Seq(Reply) /\ Len(<<v>>) = 1 /\ <<v>>[1] = v
  BY DEF StreamInv
<1>2. /\ want' \in Seq(Reply) /\ Len(want') = Len(want) + 1
      /\ want'[Len(want) + 1] = v /\ (Len(want) >= 1 => want'[1] = want[1])
  BY <1>1
<1>3. Count(v.data) \in Nat \ {0} /\ Packets(v) \in Seq(Packet) /\ Len(Packets(v)) = Count(v.data)
  BY ReplyFacts, Zenon
<1>4. outbound' # <<>>
  BY <1>3, Zenon
<1>5. CASE want = <<>> /\ Quiet
  <2>1. Len(want') = 1 /\ want'[1] = v
    BY <1>2, <1>5
  <2>2. 0 \in 0 .. Count(v.data) - 1 /\ 0 + 1 = 1
    BY <1>3
  <2>3. outbound' = SubSeq(Packets(v), 0 + 1, Count(v.data))
    BY <1>3, <2>2, RestFacts
  <2>4. UnderWay(v, 0)'
    BY <1>5, <2>3, Zenon DEF UnderWay, Quiet, Reading
  <2> QED
    BY <1>2, <1>4, <2>1, <2>2, <2>4, Zenon DEF StreamInv
<1>6. CASE Len(want) = 1 /\ \E j \in 0 .. Count(want[1].data) - 1 : UnderWay(want[1], j)
  <2>1. PICK w \in Reply : w = want[1]
    BY <1>1, <1>6
  <2> DEFINE n == Count(w.data)
  <2>2. PICK j \in 0 .. n - 1 : UnderWay(w, j)
    BY <1>6, <2>1, Zenon
  <2>3. n \in Nat \ {0}
    BY ReplyFacts, Zenon
  <2>4. j \in 0 .. n /\ j # n /\ j + 1 \in 0 .. n /\ (j + 1) + 1 = j + 2
    BY <2>3
  <2>5. outbound # SubSeq(Packets(w), j + 1, n)
    BY <2>4, RestFacts, Zenon
  <2> HIDE DEF n
  <2>6. tx = <<Packets(w)[j + 1]>> /\ outbound = SubSeq(Packets(w), j + 2, n)
    BY <2>2, <2>5, Zenon DEF UnderWay, n
  <2>7. j + 1 = n
    BY <2>1, <2>4, <2>6, RestFacts, Zenon DEF n
  <2>8. hostSess = Reading(w.chan, w.data, n - 1) /\ tx = <<Packets(w)[n]>>
    <3>1. n - 1 = j
      BY <2>3, <2>7
    <3> QED
      BY <2>2, <2>6, <2>7, <3>1, Zenon DEF UnderWay
  <2>9. Overlap(w, v)'
    BY <2>8, Zenon DEF Overlap, n
  <2>10. Len(want') = 2 /\ want'[1] = w /\ want'[2] = v
    BY <1>2, <1>6, <2>1
  <2> QED
    BY <1>2, <1>4, <2>9, <2>10, Zenon DEF StreamInv
<1>7. CASE Len(want) = 2 /\ Overlap(want[1], want[2])
  <2>1. want[2] \in Reply /\ outbound = Packets(want[2])
    BY <1>1, <1>7 DEF Overlap
  <2>2. Len(outbound) \in Nat \ {0}
    BY <2>1, ReplyFacts, Zenon
  <2> QED
    BY <2>2, Zenon
<1> QED
  BY <1>5, <1>6, <1>7, Zenon DEF StreamInv

\* wallera.go:25-29.  Tx takes the next packet from Rx.
LEMMA StreamSent ==
  ASSUME StreamInv, Send
  PROVE  StreamInv'
<1>1. /\ outbound # <<>> /\ tx = <<>>
      /\ tx' = <<Head(outbound)>> /\ outbound' = Tail(outbound)
      /\ want' = want /\ hostSess' = hostSess
  BY Zenon DEF Send, hostVars
<1>2. want \in Seq(Reply)
  BY Zenon DEF StreamInv
<1>3. Len(want) = 1 /\ \E j \in 0 .. Count(want[1].data) - 1 : UnderWay(want[1], j)
  BY <1>1, Zenon DEF StreamInv, Quiet, Overlap
<1>4. PICK w \in Reply : w = want[1]
  <2>1. Len(want) = 1
    BY <1>3, Zenon
  <2>2. want[1] \in Reply
    BY <1>2, <2>1
  <2> QED
    BY <2>2, Zenon
<1> DEFINE n == Count(w.data)
<1>5. PICK j \in 0 .. n - 1 : UnderWay(w, j)
  BY <1>3, <1>4, Zenon
<1>6. n \in Nat \ {0}
  BY ReplyFacts, Zenon
<1>7. j \in 0 .. n /\ j < n
  BY <1>6
<1>8. outbound = SubSeq(Packets(w), j + 1, n)
  BY <1>1, <1>5, Zenon DEF UnderWay
<1>9. Head(outbound) = Packets(w)[j + 1] /\ Tail(outbound) = SubSeq(Packets(w), j + 2, n)
  BY <1>7, <1>8, RestFacts, Zenon
<1>10. UnderWay(w, j)'
  BY <1>1, <1>5, <1>9, Zenon DEF UnderWay
<1> QED
  BY <1>1, <1>2, <1>3, <1>4, <1>10, Zenon DEF StreamInv

\* The packet that Tx holds is right, whatever is under way.
LEMMA StreamRight ==
  ASSUME StreamInv, tx # <<>>
  PROVE  /\ tx[1] \in Packet
         /\ HostReadsRight(tx[1])
         /\ want # <<>> /\ tx[1].chan = want[1].chan
<1>1. want \in Seq(Reply)
  BY Zenon DEF StreamInv
<1>2. CASE Len(want) = 1 /\ \E j \in 0 .. Count(want[1].data) - 1 : UnderWay(want[1], j)
  <2>1. PICK w \in Reply : w = want[1]
    BY <1>1, <1>2, Places, ElementOfSeq, Zenon
  <2>2. PICK j \in 0 .. Count(w.data) - 1 : UnderWay(w, j)
    BY <1>2, <2>1, Zenon
  <2>3. hostSess = Reading(w.chan, w.data, j) /\ tx[1] = Packets(w)[j + 1] /\ want # <<>>
    BY <1>2, <2>2 DEF UnderWay
  <2>4. tx[1] \in Packet
    BY <2>3, ReplyFacts
  <2> QED
    BY <2>1, <2>3, <2>4, <1>1, HostReads, Zenon
<1>3. CASE Len(want) = 2 /\ Overlap(want[1], want[2])
  <2>1. PICK w \in Reply : w = want[1]
    BY <1>1, <1>3
  <2> DEFINE j == Count(w.data) - 1
  <2>2. j \in 0 .. Count(w.data) - 1 /\ j + 1 = Count(w.data)
    BY ReplyFacts
  <2>3. hostSess = Reading(w.chan, w.data, j) /\ tx[1] = Packets(w)[Count(w.data)] /\ want # <<>>
    BY <1>3, <2>1 DEF Overlap
  <2> HIDE DEF j
  <2>4. tx[1] = Packets(w)[j + 1]
    BY <2>2, <2>3, Zenon
  <2>5. tx[1] \in Packet
    BY <2>2, <2>4, ReplyFacts
  <2> QED
    BY <2>1, <2>2, <2>3, <2>4, <2>5, <1>1, HostReads, Zenon
<1> QED
  BY <1>2, <1>3, Zenon DEF StreamInv, Quiet

\* The host polls the packet that Tx holds.
LEMMA StreamPolled ==
  ASSUME StreamInv, Poll
  PROVE  StreamInv'
<1>1. /\ tx # <<>> /\ tx' = <<>> /\ outbound' = outbound
      /\ HostRead(tx[1])
  BY Zenon DEF Poll
<1>2. want \in Seq(Reply)
  BY Zenon DEF StreamInv
<1>3. CASE Len(want) = 1 /\ \E j \in 0 .. Count(want[1].data) - 1 : UnderWay(want[1], j)
  <2>1. PICK w \in Reply : w = want[1]
    <3>1. Len(want) = 1
      BY <1>3, Zenon
    <3>2. want[1] \in Reply
      BY <1>2, <3>1
    <3> QED
      BY <3>2, Zenon
  <2> DEFINE n == Count(w.data)
  <2>2. PICK j \in 0 .. n - 1 : UnderWay(w, j)
    BY <1>3, <2>1, Zenon
  <2>3. /\ hostSess = Reading(w.chan, w.data, j) /\ tx[1] = Packets(w)[j + 1] /\ want # <<>>
        /\ outbound = SubSeq(Packets(w), j + 2, n)
    BY <1>1, <1>3, <2>2 DEF UnderWay
  <2>4. n \in Nat \ {0} /\ j + 1 \in 0 .. n /\ (j + 1) + 1 = j + 2
    BY ReplyFacts
  <2>5. CASE j + 1 = n
    <3>1. HostReplyEnds(tx[1])
      BY <2>1, <2>3, <2>5, <1>2, HostReads, Zenon
    <3>2. hostSess' = Fresh /\ want' = Tail(want)
      BY <1>1, <3>1, Zenon DEF HostRead
    <3>3. want' = <<>>
      BY <1>2, <1>3, <3>2
    <3>4. outbound = <<>>
      BY <2>3, <2>4, <2>5, RestFacts, Zenon
    <3> QED
      BY <1>1, <3>2, <3>3, <3>4 DEF StreamInv, Quiet
  <2>6. CASE j + 1 # n
    <3>1. ~HostReplyEnds(tx[1]) /\ HostReply(tx[1]).s = Reading(w.chan, w.data, j + 1)
      BY <2>1, <2>3, <2>6, <1>2, HostReads, Zenon
    <3>2. hostSess' = Reading(w.chan, w.data, j + 1) /\ want' = want
      BY <1>1, <3>1, Zenon DEF HostRead
    <3>3. UnderWay(w, j + 1)'
      BY <1>1, <2>3, <2>4, <3>2, Zenon DEF UnderWay
    <3>4. j + 1 \in 0 .. n - 1
      BY <2>4, <2>6
    <3> QED
      BY <1>2, <1>3, <2>1, <3>2, <3>3, <3>4, Zenon DEF StreamInv
  <2> QED
    BY <2>5, <2>6, Zenon
<1>4. CASE Len(want) = 2 /\ Overlap(want[1], want[2])
  <2>1. PICK w \in Reply, v \in Reply : w = want[1] /\ v = want[2]
    <3>1. Len(want) = 2
      BY <1>4, Zenon
    <3>2. want[1] \in Reply /\ want[2] \in Reply
      BY <1>2, <3>1
    <3> QED
      BY <3>2, Zenon
  <2> DEFINE j == Count(w.data) - 1
  <2>2. j \in 0 .. Count(w.data) - 1 /\ j + 1 = Count(w.data)
    BY ReplyFacts
  <2>3. /\ hostSess = Reading(w.chan, w.data, j) /\ tx[1] = Packets(w)[Count(w.data)] /\ want # <<>>
        /\ outbound = Packets(v)
    <3>1. Overlap(w, v) /\ Len(want) = 2
      BY <1>4, <2>1, Zenon
    <3> QED
      BY <3>1 DEF Overlap
  <2> HIDE DEF j
  <2>4. HostReplyEnds(tx[1])
    BY <2>1, <2>2, <2>3, <1>2, HostReads
  <2>5. hostSess' = Fresh /\ want' = Tail(want)
    BY <1>1, <2>4, Zenon DEF HostRead
  <2>6. want' \in Seq(Reply) /\ Len(want') = 1 /\ want'[1] = v
    <3>1. /\ Tail(want) \in Seq(Reply) /\ Len(Tail(want)) = Len(want) - 1
          /\ \A i \in 1 .. Len(Tail(want)) : Tail(want)[i] = want[i + 1]
      BY <1>2, <2>3, HeadTailProperties, Zenon
    <3>2. Len(want) = 2
      BY <1>4, Zenon
    <3>3. Len(Tail(want)) = 1
      BY <3>1, <3>2
    <3>4. Tail(want)[1] = want[2]
      <4>1. 1 \in 1 .. Len(Tail(want)) /\ 1 + 1 = 2
        BY <3>3
      <4> QED
        BY <3>1, <4>1, Zenon
    <3> QED
      BY <2>1, <2>5, <3>1, <3>3, <3>4, Zenon
  <2>7. Count(v.data) \in Nat \ {0}
    BY ReplyFacts, Zenon
  <2>8. 0 \in 0 .. Count(v.data) - 1 /\ 0 \in 0 .. Count(v.data) /\ 0 + 1 = 1
    BY <2>7
  <2>9. outbound' = SubSeq(Packets(v), 0 + 1, Count(v.data))
    BY <1>1, <2>3, <2>8, RestFacts, Zenon
  <2>10. UnderWay(v, 0)'
    BY <1>1, <2>5, <2>9, Zenon DEF UnderWay, Reading
  <2> QED
    BY <2>6, <2>8, <2>10, Zenon DEF StreamInv
<1> QED
  BY <1>1, <1>3, <1>4, Zenon DEF StreamInv, Quiet

-------------------------------------------------------------------------------
(* The handler *)

\* A handler with nothing to do satisfies the invariant.
LEMMA HInvInit == Init => HInv
<1> SUFFICES ASSUME Init PROVE HInv
  BY Zenon
<1> USE DEF Init, DevInit, HostInit
<1>1. SessionInv
  BY FreshType, Zenon DEF SessionInv
<1>2. StreamInv
  BY DEF StreamInv, Quiet
<1> QED
  BY <1>1, <1>2, Zenon DEF HInv

\* wallera.go:34-87.  The packet is read into the session or refused.
LEMMA HInvRxContinue ==
  ASSUME HInv, NEW p \in Packet, RxContinue(p)
  PROVE  HInv'
<1> DEFINE read == ReadData(session, p)
<1>1. /\ up /\ outbound = <<>>
      /\ ~FirstPacketBad(p) /\ read.s.ShouldReadMore
      /\ session' = read.s
      /\ outbound' = RefusalFrames(read) /\ want' = want \o Refusal(read)
      /\ up' = up /\ closing' = closing /\ tx' = tx /\ hostSess' = hostSess
  BY Zenon DEF RxContinue, RxIdle
<1>2. SessionInv /\ StreamInv
  BY Zenon DEF HInv
<1>3. closing = FALSE /\ up \in BOOLEAN /\ session \in Session /\ (session = Fresh \/ Unfinished(session))
  BY <1>1, <1>2, Zenon DEF SessionInv
<1>4. /\ read.s \in Session /\ read.ok \in BOOLEAN
      /\ ~read.ok => read.s = session
      /\ read.ok => Unfinished(read.s)
  BY <1>1, <1>3, ReadDataFacts, Zenon
<1>5. ~read.ok => Unfinished(session)
  BY <1>1, <1>3, Zenon DEF FirstPacketBad
<1> HIDE DEF read
<1>6. SessionInv'
  BY <1>1, <1>3, <1>4, <1>5, Zenon DEF SessionInv
<1>7. CASE read.ok
  <2>1. outbound' = <<>> /\ want' = want \o <<>>
    BY <1>1, <1>7, Zenon DEF RefusalFrames, Refusal
  <2>2. want' = want
    BY <1>2, <2>1 DEF StreamInv
  <2>3. StreamInv'
    BY <1>1, <1>2, <2>1, <2>2, Zenon DEF StreamInv, Quiet, UnderWay, Overlap
  <2> QED
    BY <1>6, <2>3, Zenon DEF HInv
<1>8. CASE ~read.ok
  <2> DEFINE v == Rejection(read.s)
  <2>1. read.s.channelID \in Channels
    BY <1>4, <1>5, <1>8, Zenon DEF Unfinished
  <2>2. PICK r \in Reply : r = v
    <3>1. <<>> \in Seq(Byte) /\ NotAllowed \in Replies \cup {NotAllowed}
      OBVIOUS
    <3>2. v \in Reply
      BY <2>1, <3>1, Zenon DEF Rejection, Reply
    <3> QED
      BY <3>2, Zenon
  <2>3. outbound' = Packets(r) /\ want' = want \o <<r>>
    BY <1>1, <1>8, <2>2, Zenon DEF RefusalFrames, Refusal, Rejection, Packets
  <2>4. StreamInv'
    BY <1>1, <1>2, <2>3, StreamPromised, Zenon
  <2> QED
    BY <1>6, <2>4, Zenon DEF HInv
<1> QED
  BY <1>4, <1>7, <1>8, Zenon

\* wallera.go:56-83.  The message is complete: no refusal can have come with it, for a
\* session that is refused a packet misses data.
LEMMA HInvRxHandle ==
  ASSUME HInv, NEW p \in Packet, RxHandle(p)
  PROVE  /\ HInv'
         /\ ReadData(session, p).ok
         /\ closing'
<1> DEFINE read == ReadData(session, p)
<1>1. PICK r \in Replies :
        /\ up /\ outbound = <<>>
        /\ ~FirstPacketBad(p) /\ ~read.s.ShouldReadMore
        /\ session' = read.s
        /\ outbound' = RefusalFrames(read) \o FormatResponse(read.s.channelID, r)
        /\ want' = want \o Refusal(read) \o <<Answer(read.s, r)>>
        /\ up' = up /\ closing' = TRUE /\ tx' = tx /\ hostSess' = hostSess
  BY Zenon DEF RxHandle, RxIdle
<1>2. SessionInv /\ StreamInv
  BY Zenon DEF HInv
<1>3. closing = FALSE /\ up \in BOOLEAN /\ session \in Session /\ (session = Fresh \/ Unfinished(session))
  BY <1>1, <1>2, Zenon DEF SessionInv
<1>4. /\ read.s \in Session /\ read.ok \in BOOLEAN
      /\ ~read.ok => read.s = session
      /\ read.ok => read.s.channelID \in Channels
  BY <1>3, ReadDataFacts, Zenon
<1>5. read.ok
  BY <1>1, <1>3, <1>4, Zenon DEF FirstPacketBad, Unfinished
<1>6. read.s.data \in Seq(Byte) /\ read.s.channelID \in Channels
  BY <1>4, <1>5, Zenon DEF Session
<1> HIDE DEF read
<1>7. PICK v \in Reply : v = Answer(read.s, r)
  BY <1>6, Zenon DEF Answer, Reply
<1>8. RefusalFrames(read) = <<>> /\ Refusal(read) = <<>>
  BY <1>5, Zenon DEF RefusalFrames, Refusal
<1>9. outbound' = Packets(v)
  <2>1. v.chan = read.s.channelID /\ v.data = r
    BY <1>7, Zenon DEF Answer
  <2>2. outbound' = <<>> \o Packets(v)
    BY <1>1, <1>8, <2>1, Zenon DEF Packets
  <2>3. Packets(v) \in Seq(Packet)
    BY ReplyFacts, Zenon
  <2> QED
    BY <2>2, <2>3
<1>10. want' = want \o <<v>>
  <2>1. want \o <<>> = want
    BY <1>2 DEF StreamInv
  <2> QED
    BY <1>1, <1>7, <1>8, <2>1, Zenon
<1>11. StreamInv' /\ outbound' # <<>>
  BY <1>1, <1>2, <1>9, <1>10, StreamPromised, Zenon
<1>12. SessionInv'
  BY <1>1, <1>3, <1>4, <1>11, Zenon DEF SessionInv
<1> QED
  BY <1>1, <1>5, <1>11, <1>12, Zenon DEF HInv, read

\* Whatever packet arrives, Rx keeps the invariant; a panic leaves everything as it is.
LEMMA HInvRx ==
  ASSUME HInv, NEW p \in Packet, Rx(p)
  PROVE  HInv'
<1>1. CASE RxContinue(p)
  BY <1>1, HInvRxContinue, Zenon
<1>2. CASE RxHandle(p)
  BY <1>2, HInvRxHandle, Zenon
<1>3. CASE RxPanic(p)
  <2>1. /\ up' = FALSE /\ session' = session /\ outbound' = outbound /\ closing' = closing
        /\ tx' = tx /\ hostSess' = hostSess /\ want' = want
    BY <1>3, Zenon DEF RxPanic, hostVars
  <2> QED
    BY <2>1, Zenon DEF HInv, SessionInv, StreamInv, Quiet, UnderWay, Overlap
<1> QED
  BY <1>1, <1>2, <1>3, Zenon DEF Rx

\* wallera.go:25-29, 78-87.  After its last send Rx drops the session it has answered.
LEMMA HInvSend ==
  ASSUME HInv, Send
  PROVE  HInv'
<1> DEFINE returns == Tail(outbound) = <<>>
<1>1. /\ outbound' = Tail(outbound) /\ up' = up
      /\ session' = IF returns /\ closing THEN Fresh ELSE session
      /\ closing' = (closing /\ ~returns)
  BY Zenon DEF Send
<1>2. SessionInv /\ StreamInv
  BY Zenon DEF HInv
<1>3. StreamInv'
  BY <1>2, StreamSent, Zenon
<1>4. SessionInv'
  <2>1. up \in BOOLEAN /\ closing \in BOOLEAN /\ session \in Session
        /\ (~closing => session = Fresh \/ Unfinished(session))
    BY <1>2, Zenon DEF SessionInv
  <2>2. CASE returns
    BY <1>1, <2>1, <2>2, FreshType, Zenon DEF SessionInv
  <2>3. CASE ~returns
    BY <1>1, <2>1, <2>3, Zenon DEF SessionInv
  <2> QED
    BY <2>2, <2>3, Zenon
<1> QED
  BY <1>3, <1>4, Zenon DEF HInv

\* A poll concerns the packets only.
LEMMA HInvPoll ==
  ASSUME HInv, Poll
  PROVE  HInv'
<1>1. up' = up /\ session' = session /\ outbound' = outbound /\ closing' = closing
  BY Zenon DEF Poll
<1>2. SessionInv' /\ StreamInv'
  BY <1>1, StreamPolled, Zenon DEF HInv, SessionInv
<1> QED
  BY <1>2, Zenon DEF HInv

\* The invariant depends on nothing but the handler and the host.
LEMMA HInvStutter ==
  ASSUME HInv, UNCHANGED vars
  PROVE  HInv'
  BY Zenon DEF HInv, SessionInv, StreamInv, Quiet, UnderWay, Overlap, vars, devVars, hostVars

\* A step of the handler, whatever packets the host sends.
AnyStep == (\E p \in Packet : Rx(p)) \/ Send \/ Poll \/ PowerCycle

\* HostPackets are packets.
LEMMA NextIsAnyStep == [Next]_vars => [AnyStep]_vars
  BY PacketsAssumption, Zenon DEF Next, Rx, AnyStep

\* The invariant is inductive.
LEMMA HInvNext ==
  ASSUME HInv, [AnyStep]_vars
  PROVE  HInv'
<1>1. ASSUME NEW p \in Packet, Rx(p)
      PROVE  HInv'
  BY <1>1, HInvRx, Zenon
<1>2. CASE Send
  BY <1>2, HInvSend, Zenon
<1>3. CASE Poll
  BY <1>3, HInvPoll, Zenon
<1>4. CASE PowerCycle
  <2>1. SessionInv'
    BY <1>4, FreshType, Zenon DEF PowerCycle, SessionInv
  <2>2. StreamInv'
    BY <1>4 DEF PowerCycle, StreamInv, Quiet
  <2> QED
    BY <2>1, <2>2, Zenon DEF HInv
<1>5. CASE UNCHANGED vars
  BY <1>5, HInvStutter, Zenon
<1> QED
  BY <1>1, <1>2, <1>3, <1>4, <1>5, Zenon DEF AnyStep

\* What is under way is well typed.
LEMMA HInvTypeOK == HInv => TypeOK
<1> SUFFICES ASSUME HInv PROVE TypeOK
  BY Zenon
<1>1. want \in Seq(Reply)
  BY Zenon DEF HInv, StreamInv
<1>2. DevTypeOK /\ hostSess \in Session
  <2> DEFINE Goal == outbound \in Seq(Packet) /\ tx \in Seq(Packet) /\ Len(tx) <= 1 /\ hostSess \in Session
  <2> SUFFICES Goal
    BY Zenon DEF DevTypeOK, HInv, SessionInv
  <2>1. CASE want = <<>> /\ Quiet
    BY <2>1, FreshType DEF Quiet
  <2>2. CASE Len(want) = 1 /\ \E j \in 0 .. Count(want[1].data) - 1 : UnderWay(want[1], j)
    <3>1. Len(want) = 1
      BY <2>2, Zenon
    <3>2. PICK w \in Reply : w = want[1]
      BY <1>1, <3>1
    <3>3. PICK j \in 0 .. Count(w.data) - 1 : UnderWay(w, j)
      BY <2>2, <3>2, Zenon
    <3>4. Count(w.data) \in Nat \ {0} /\ w.chan \in Channels /\ Sendable(w.data)
          /\ Packets(w) \in Seq(Packet) /\ Len(Packets(w)) = Count(w.data)
      BY ReplyFacts, Zenon
    <3>5. j \in 0 .. Count(w.data) /\ j + 1 \in 0 .. Count(w.data) /\ (j + 1) + 1 = j + 2
          /\ j + 1 \in 1 .. Len(Packets(w))
      BY <3>4
    <3>6. hostSess \in Session
      BY <3>3, <3>4, ReadingFacts, Zenon DEF UnderWay
    <3>7. Packets(w)[j + 1] \in Packet
      BY <3>4, <3>5
    <3>8. SubSeq(Packets(w), j + 1, Count(w.data)) \in Seq(Packet)
      BY <3>5, RestFacts, Zenon
    <3>9. SubSeq(Packets(w), j + 2, Count(w.data)) \in Seq(Packet)
      BY <3>5, RestFacts, Zenon
    <3>10. \/ tx = <<>> /\ outbound = SubSeq(Packets(w), j + 1, Count(w.data))
           \/ tx = <<Packets(w)[j + 1]>> /\ outbound = SubSeq(Packets(w), j + 2, Count(w.data))
      BY <3>3, Zenon DEF UnderWay
    <3>11. tx \in Seq(Packet) /\ Len(tx) <= 1
      <4>1. PICK x \in Packet : tx = <<>> \/ tx = <<x>>
        BY <3>7, <3>10, Zenon
      <4>2. <<>> \in Seq(Packet) /\ Len(<<>>) = 0
        OBVIOUS
      <4>3. <<x>> \in Seq(Packet) /\ Len(<<x>>) = 1
        OBVIOUS
      <4>4. Len(<<>>) <= 1 /\ Len(<<x>>) <= 1
        BY <4>2, <4>3
      <4> QED
        BY <4>1, <4>2, <4>3, <4>4, Zenon
    <3>12. outbound \in Seq(Packet)
      BY <3>8, <3>9, <3>10, Zenon
    <3> QED
      BY <3>6, <3>11, <3>12, Zenon
  <2>3. CASE Len(want) = 2 /\ Overlap(want[1], want[2])
    <3>1. PICK w \in Reply, v \in Reply : Overlap(w, v)
      <4>1. want \in Seq(Reply) /\ 1 \in 1 .. Len(want) /\ 2 \in 1 .. Len(want)
        <5>1. want \in Seq(Reply)
          BY <1>1, Zenon
        <5> QED
          BY <2>3, <5>1
      <4>2. want[1] \in Reply /\ want[2] \in Reply
        BY ONLY <4>1
      <4> QED
        BY <2>3, <4>2, Zenon
    <3>2. Count(w.data) \in Nat \ {0} /\ w.chan \in Channels /\ Sendable(w.data)
          /\ Packets(w) \in Seq(Packet) /\ Len(Packets(w)) = Count(w.data)
          /\ Packets(v) \in Seq(Packet)
      BY ReplyFacts, Zenon
    <3>3. hostSess \in Session
      BY <3>1, <3>2, ReadingFacts DEF Overlap
    <3>4. Packets(w)[Count(w.data)] \in Packet
      BY <3>2
    <3> QED
      BY <3>1, <3>2, <3>3, <3>4 DEF Overlap
  <2> HIDE DEF Goal
  <2> QED
    BY <2>1, <2>2, <2>3, Zenon DEF HInv, StreamInv
<1> QED
  BY <1>1, <1>2, Zenon DEF TypeOK, HostTypeOK

\* The invariant holds throughout.
LEMMA HInvHolds == Spec => []HInv
<1>1. Init => HInv
  BY HInvInit, Zenon
<1>2. HInv /\ [Next]_vars => HInv'
  BY HInvNext, NextIsAnyStep, Zenon
<1> QED
  BY <1>1, <1>2, PTL DEF Spec

\* wallera.go:22-87.  The handler and the host keep their types: for every packet and
\* every reply, Tx holds one packet at most, and what Rx sends are packets.
THEOREM TypeCorrect == Spec => []TypeOK
  BY HInvHolds, HInvTypeOK, PTL

\* A session that is not about to be dropped misses data.
LEMMA HInvAtRest == HInv => NoCompleteSessionAtRest
  BY Zenon DEF HInv, SessionInv, NoCompleteSessionAtRest, RxIdle, Unfinished

\* wallera.go:34-83.  Whatever packets arrive, Rx never waits for the next one with a
\* complete message in its session.
THEOREM NoCompleteSessionLeft == Spec => []NoCompleteSessionAtRest
  BY HInvAtRest, HInvHolds, PTL

\* usb.go:313-375 with wallera.go:43-47, 78-80.  For every size of packet and every
\* reply, the host reads exactly the replies the handler decided on, in their order.
THEOREM RepliesWhole == Spec => []RepliesArriveWhole
<1>1. HInv => RepliesArriveWhole
  BY StreamRight, Zenon DEF HInv, RepliesArriveWhole
<1> QED
  BY <1>1, HInvHolds, PTL

-------------------------------------------------------------------------------
(* The abstract port *)

\* What is owed are the replies the host has not read, while the device is up.
Promised == INSTANCE HidPort
              WITH Payloads <- Replies \cup {NotAllowed},
                   owed <- IF up THEN Seen(want) ELSE <<>>

\* A packet that Rx takes adds one reply at most.
LEMMA RxPromises ==
  ASSUME HInv, NEW p \in Packet, RxContinue(p) \/ RxHandle(p)
  PROVE  want' = want \/ \E v \in Reply : want' = want \o <<v>>
<1> DEFINE read == ReadData(session, p)
<1>1. up /\ outbound = <<>> /\ ~FirstPacketBad(p)
  BY Zenon DEF RxContinue, RxHandle, RxIdle
<1>2. want \in Seq(Reply) /\ want \o <<>> = want
  BY DEF HInv, StreamInv
<1>3. session \in Session /\ (session = Fresh \/ Unfinished(session))
  BY <1>1, Zenon DEF HInv, SessionInv
<1>4. /\ read.s \in Session /\ read.ok \in BOOLEAN
      /\ ~read.ok => read.s = session
      /\ read.ok => read.s.channelID \in Channels
  BY <1>3, ReadDataFacts, Zenon
<1>5. ~read.ok => session # Fresh
  BY <1>1, Zenon DEF FirstPacketBad
<1>6. read.s.channelID \in Channels /\ read.s.data \in Seq(Byte)
  BY <1>3, <1>4, <1>5, Zenon DEF Unfinished, Session
<1>7. CASE RxContinue(p)
  <2>1. want' = want \o Refusal(read)
    BY <1>7, Zenon DEF RxContinue
  <2> HIDE DEF read
  <2>2. CASE read.ok
    BY <1>2, <2>1, <2>2, Zenon DEF Refusal
  <2>3. CASE ~read.ok
    <3>1. <<>> \in Seq(Byte) /\ NotAllowed \in Replies \cup {NotAllowed}
      OBVIOUS
    <3>2. Rejection(read.s) \in Reply
      BY <1>6, <3>1, Zenon DEF Rejection, Reply
    <3>3. want' = want \o <<Rejection(read.s)>>
      BY <2>1, <2>3, Zenon DEF Refusal
    <3> QED
      BY <3>2, <3>3, Zenon
  <2> QED
    BY <1>4, <2>2, <2>3, Zenon
<1>8. CASE RxHandle(p)
  <2>1. PICK r \in Replies : want' = want \o Refusal(read) \o <<Answer(read.s, r)>>
    BY <1>8, Zenon DEF RxHandle
  <2>2. read.ok
    BY <1>8, HInvRxHandle, Zenon
  <2> HIDE DEF read
  <2>3. Refusal(read) = <<>>
    BY <2>2, Zenon DEF Refusal
  <2>4. Answer(read.s, r) \in Reply
    BY <1>6, Zenon DEF Answer, Reply
  <2>5. want' = want \o <<Answer(read.s, r)>>
    BY <1>2, <2>1, <2>3, Zenon
  <2> QED
    BY <2>4, <2>5, Zenon
<1> QED
  BY <1>7, <1>8, Zenon

\* While Rx waits for a packet, one reply at most is under way.
LEMMA RoomForOne ==
  ASSUME StreamInv, outbound = <<>>
  PROVE  want \in Seq(Reply) /\ Len(want) < 2
<1>1. want \in Seq(Reply)
  BY Zenon DEF StreamInv
<1>2. CASE Len(want) = 2 /\ Overlap(want[1], want[2])
  <2>1. want[2] \in Reply /\ outbound = Packets(want[2])
    BY <1>1, <1>2 DEF Overlap
  <2>2. Len(outbound) \in Nat \ {0}
    BY <2>1, ReplyFacts, Zenon
  <2> QED
    BY <2>2, Zenon
<1>3. want = <<>> => Len(want) = 0
  OBVIOUS
<1> QED
  BY <1>1, <1>2, <1>3 DEF StreamInv

\* Every step of the handler is a step of the port, or none.
LEMMA StepsOfPort ==
  ASSUME HInv, [AnyStep]_vars
  PROVE  [Promised!Next]_Promised!vars
<1>1. want \in Seq(Reply) /\ StreamInv /\ up \in BOOLEAN
  BY Zenon DEF HInv, StreamInv, SessionInv
<1>2. ASSUME NEW p \in Packet, RxContinue(p) \/ RxHandle(p)
      PROVE  [Promised!Next]_Promised!vars
  <2>1. up /\ up' = up /\ outbound = <<>>
    BY <1>2, Zenon DEF RxContinue, RxHandle, RxIdle
  <2>2. Len(want) < 2
    BY <1>1, <2>1, RoomForOne, Zenon
  <2>3. want' = want \/ \E v \in Reply : want' = want \o <<v>>
    BY <1>2, RxPromises, Zenon
  <2>4. CASE want' = want
    BY <2>1, <2>4, Zenon DEF Promised!vars
  <2>5. ASSUME NEW v \in Reply, want' = want \o <<v>>
        PROVE  Promised!Reply
    <3>1. PICK r \in Readable : Seen(want \o <<v>>) = Append(Seen(want), r)
      BY <1>1, SeenGrows, Zenon
    <3>2. Len(Seen(want)) < 2
      BY <1>1, <2>2, SeenFacts, Zenon
    <3>3. r \in [chan : Channels, data : Replies \cup {NotAllowed}]
      BY Zenon DEF Readable
    <3> QED
      BY <2>1, <2>5, <3>1, <3>2, <3>3, Zenon DEF Promised!Reply
  <2> QED
    BY <2>3, <2>4, <2>5, Zenon DEF Promised!Next
<1>3. ASSUME NEW p \in Packet, RxPanic(p)
      PROVE  Promised!Panic
  BY <1>3, Zenon DEF RxPanic, RxIdle, Promised!Panic
<1>4. CASE Send
  BY <1>4, Zenon DEF Send, hostVars, Promised!vars
<1>5. CASE Poll
  <2>1. up /\ up' = up /\ HostRead(tx[1]) /\ tx # <<>>
    BY <1>5, Zenon DEF Poll
  <2>2. want # <<>>
    BY <1>1, <2>1, StreamRight, Zenon
  <2>3. CASE want' = want
    BY <2>1, <2>3, Zenon DEF Promised!vars
  <2>4. CASE want' = Tail(want)
    BY <1>1, <2>1, <2>2, <2>4, SeenShrinks, Zenon DEF Promised!Next, Promised!Deliver
  <2> QED
    BY <2>1, <2>3, <2>4, Zenon DEF HostRead
<1>6. CASE PowerCycle
  <2>1. ~up /\ up' = TRUE /\ want' = <<>>
    BY <1>6, Zenon DEF PowerCycle
  <2>2. Seen(<<>>) = <<>>
    BY SeenNothing, Zenon
  <2> QED
    BY <2>1, <2>2, Zenon DEF Promised!Next, Promised!Restart
<1>7. CASE UNCHANGED vars
  BY <1>7, Zenon DEF vars, devVars, hostVars, Promised!vars
<1> QED
  BY <1>2, <1>3, <1>4, <1>5, <1>6, <1>7, Zenon DEF AnyStep, Rx, Promised!Next

\* Nothing is owed at first.
LEMMA InitOfPort == Init => Promised!Init
<1> SUFFICES ASSUME Init PROVE Promised!Init
  BY Zenon
<1>1. up = TRUE /\ want = <<>>
  BY Zenon DEF Init, DevInit, HostInit
<1> QED
  BY <1>1, SeenNothing, Zenon DEF Promised!Init

\* wallera.go:22-87.  Packets and goroutines left out, the handler is the port of HidPort:
\* a packet is met with one reply at most, two are owed at most, and they are delivered
\* whole and in order, until a panic loses them all.
THEOREM ImplementsPort == Spec => Promised!Spec
<1>1. HInv /\ [Next]_vars => [Promised!Next]_Promised!vars
  BY StepsOfPort, NextIsAnyStep, Zenon
<1> QED
  BY <1>1, InitOfPort, HInvHolds, PTL DEF Spec, Promised!Spec

-------------------------------------------------------------------------------
(* What keeps Rx *)

\* Hand-overs and polls until the host has all that Rx has to send.
Left == 2 * Len(outbound) + Len(tx)

\* Each of them brings the end nearer.
LEMMA Shrinks ==
  ASSUME HInv, Send \/ Poll
  PROVE  Left \in Nat /\ Left' \in Nat /\ Left' < Left
<1>1. outbound \in Seq(Packet) /\ tx \in Seq(Packet) /\ Len(tx) <= 1
  BY HInvTypeOK, Zenon DEF TypeOK, DevTypeOK
<1>2. Len(outbound) \in Nat /\ Len(tx) \in Nat
  BY <1>1
<1>3. CASE Send
  <2>1. tx = <<>> /\ Len(tx') = 1 /\ outbound # <<>> /\ outbound' = Tail(outbound)
    BY <1>3 DEF Send
  <2>2. Len(tx) = 0 /\ Len(outbound') = Len(outbound) - 1 /\ Len(outbound) # 0
    BY <1>1, <2>1, HeadTailProperties
  <2> QED
    BY <1>2, <2>1, <2>2 DEF Left
<1>4. CASE Poll
  <2>1. tx # <<>> /\ Len(tx') = 0 /\ outbound' = outbound
    BY <1>4 DEF Poll
  <2>2. Len(tx) # 0
    BY <1>1, <2>1
  <2> QED
    BY <1>2, <2>1, <2>2 DEF Left
<1> QED
  BY <1>3, <1>4, Zenon

\* While Rx is sending, there are no other steps.
LEMMA SendingShrinks ==
  ASSUME HInv, AnyStep, up, outbound # <<>>
  PROVE  Left' < Left
<1>1. \A p \in Packet : ~Rx(p)
  BY Zenon DEF Rx, RxContinue, RxHandle, RxPanic, RxIdle
<1> QED
  BY <1>1, Shrinks, Zenon DEF AnyStep, PowerCycle

\* wallera.go:43-47, 78-80.  While Rx sends a reply, nothing can lengthen what it has to
\* send: every step of anyone takes it one hand-over or one poll nearer to its return.
RxAdvances == [][up /\ outbound # <<>> => Left' < Left]_vars

\* wallera.go:43-47, 78-80.  So it is for every packet, reply and size of packet.  This is
\* what RxReturns rests on besides fairness.
THEOREM RxAlwaysAdvances == Spec => RxAdvances
<1>1. HInv /\ [Next]_vars => [up /\ outbound # <<>> => Left' < Left]_vars
  BY SendingShrinks, NextIsAnyStep, Zenon
<1> QED
  BY <1>1, HInvHolds, PTL DEF Spec, RxAdvances
===============================================================================
