----------------------------- MODULE LinuxProofs ------------------------------
(***************************************************************************)
(* cmd/wallera-linux: its handler, for every packet the host may send and  *)
(* every reply; the gadget under it, whatever the handler does meanwhile;  *)
(* and programs whose messages fit one packet.                             *)
(***************************************************************************)
EXTENDS LinuxMain, LinuxLink, HidProofs

\* The host has read j packets of w, the tx goroutine has the others.
Writing(w, j) ==
  /\ hostSess = Reading(w.chan, w.data, j)
  /\ tx = SubSeq(Packets(w), j + 1, Count(w.data))

\* Rx is blocked on the newest reply, the tx goroutine is writing the one before.
StreamInv ==
  /\ want \in Seq(Reply)
  /\ \/ want = <<>> /\ outbound = <<>> /\ tx = <<>> /\ hostSess = Fresh
     \/ Len(want) = 1 /\ outbound = Packets(want[1]) /\ tx = <<>> /\ hostSess = Fresh
     \/ /\ Len(want) = 1 /\ outbound = <<>>
        /\ \E j \in 0 .. Count(want[1].data) - 1 : Writing(want[1], j)
     \/ /\ Len(want) = 2 /\ outbound = Packets(want[2])
        /\ \E j \in 0 .. Count(want[1].data) - 1 : Writing(want[1], j)

\* A session that has its message; packets may still come, and are refused.
Complete(s) == s.channelID \in Channels /\ ~s.ShouldReadMore

\* What h.session may be.
Kept(s) == s \in Session /\ (s = Fresh \/ Unfinished(s) \/ Complete(s))

\* The inductive invariant of the handler.
HInv ==
  /\ up \in BOOLEAN /\ closing \in BOOLEAN /\ Kept(session)
  /\ ~up => want = <<>>
  /\ StreamInv

-------------------------------------------------------------------------------
(* The stream of packets *)

\* usb.go:196-276.  A session stays one that misses data or has its message.
LEMMA ReadsKept ==
  ASSUME NEW s, Kept(s), NEW p \in Packet
  PROVE  /\ Kept(ReadData(s, p).s)
         /\ s = Fresh /\ ReadData(s, p).ok =>
              ReadData(s, p).s.channelID \in Channels /\ ReadData(s, p).s.data \in Seq(Byte)
         /\ s # Fresh => s.channelID \in Channels
<1> DEFINE read == ReadData(s, p)
<1>1. CASE s = Fresh \/ Unfinished(s)
  <2>1. /\ read.s \in Session /\ read.ok \in BOOLEAN
        /\ ~read.ok => read.s = s
        /\ read.ok => read.s.channelID \in Channels
        /\ read.ok /\ read.s.ShouldReadMore => Unfinished(read.s)
    BY <1>1, ReadDataFacts, Zenon DEF Kept
  <2> HIDE DEF read
  <2>2. read.s.data \in Seq(Byte)
    BY <2>1, Zenon DEF Session
  <2>3. Kept(read.s)
    BY <2>1, Zenon DEF Kept, Complete
  <2> QED
    BY <1>1, <2>1, <2>2, <2>3, Zenon DEF read, Unfinished
<1>2. CASE Complete(s)
  <2>1. s.channelID \in Channels /\ s.channelID # 0 /\ ~s.ShouldReadMore
    BY <1>2, Sizes, Zenon DEF Complete
  <2>2. read.s = s
    BY <2>1, ReadDataLeaves, Zenon
  <2> QED
    BY <2>1, <2>2 DEF Fresh
<1> QED
  BY <1>1, <1>2, Zenon DEF Kept

\* main.go:145-149.  Rx, which is not blocked, has a reply to hand over.
LEMMA StreamPromised ==
  ASSUME StreamInv, outbound = <<>>, NEW v \in Reply,
         outbound' = Packets(v), want' = Append(want, v), tx' = tx, hostSess' = hostSess
  PROVE  StreamInv' /\ outbound' # <<>> /\ Len(want) < 2
<1>1. want \in Seq(Reply)
  BY Zenon DEF StreamInv
<1>2. /\ want' \in Seq(Reply) /\ Len(want') = Len(want) + 1
      /\ want'[Len(want) + 1] = v /\ (Len(want) >= 1 => want'[1] = want[1])
  BY <1>1
<1>3. Count(v.data) \in Nat \ {0} /\ Packets(v) \in Seq(Packet) /\ Len(Packets(v)) = Count(v.data)
  BY ReplyFacts, Zenon
<1>4. outbound' # <<>>
  BY <1>3, Zenon
<1>5. CASE want = <<>> /\ tx = <<>> /\ hostSess = Fresh
  <2>1. Len(want) = 0 /\ Len(want') = 1 /\ want'[1] = v
    BY <1>2, <1>5
  <2> QED
    BY <1>2, <1>4, <1>5, <2>1 DEF StreamInv
<1>6. CASE Len(want) = 1 /\ \E j \in 0 .. Count(want[1].data) - 1 : Writing(want[1], j)
  <2>1. Len(want) = 1
    BY <1>6, Zenon
  <2>2. PICK w \in Reply : w = want[1]
    <3>1. want[1] \in Reply
      BY <1>1, <2>1
    <3> QED
      BY <3>1, Zenon
  <2>3. PICK j \in 0 .. Count(w.data) - 1 : Writing(w, j)
    BY <1>6, <2>2, Zenon
  <2>4. Len(want') = 2 /\ want'[1] = w /\ want'[2] = v
    BY <1>2, <2>1, <2>2
  <2>5. Writing(w, j)'
    BY <2>3, Zenon DEF Writing
  <2> QED
    BY <1>2, <1>4, <2>1, <2>4, <2>5 DEF StreamInv
<1>7. ASSUME NEW i \in 1 .. Len(want) PROVE outbound # Packets(want[i])
  <2>1. PICK u \in Reply : u = want[i]
    BY <1>1
  <2>2. Len(Packets(u)) \in Nat \ {0}
    BY ReplyFacts, Zenon
  <2> QED
    BY <2>1, <2>2, Zenon
<1>8. (Len(want) = 1 => 1 \in 1 .. Len(want)) /\ (Len(want) = 2 => 2 \in 1 .. Len(want))
  BY Places, Zenon
<1> QED
  BY <1>5, <1>6, <1>7, <1>8, Zenon DEF StreamInv

\* main.go:145-149.  The tx goroutine, which has written all it had, receives the reply.
LEMMA StreamHanded ==
  ASSUME StreamInv, writeOutbound
  PROVE  StreamInv'
<1>1. /\ outbound # <<>> /\ tx = <<>> /\ tx' = outbound /\ outbound' = <<>>
      /\ want' = want /\ hostSess' = hostSess
  BY Zenon DEF writeOutbound, hostVars
<1>2. want \in Seq(Reply)
  BY Zenon DEF StreamInv
<1>3. ASSUME NEW w \in Reply, NEW j \in 0 .. Count(w.data) - 1
      PROVE  ~Writing(w, j)
  <2>1. Count(w.data) \in Nat
    BY ReplyFacts, Zenon
  <2>2. j \in 0 .. Count(w.data) /\ j # Count(w.data)
    BY <2>1
  <2> QED
    BY <1>1, <2>2, RestFacts, Zenon DEF Writing
<1>4. Len(want) = 2 => want[1] \in Reply
  BY <1>2
<1>5. Len(want) = 1 /\ outbound = Packets(want[1]) /\ hostSess = Fresh
  BY <1>1, <1>3, <1>4, Zenon DEF StreamInv
<1>6. PICK w \in Reply : w = want[1]
  BY <1>2, <1>5
<1>7. Count(w.data) \in Nat \ {0}
  BY ReplyFacts, Zenon
<1>8. 0 \in 0 .. Count(w.data) - 1 /\ 0 \in 0 .. Count(w.data)
  BY <1>7
<1>9. tx' = SubSeq(Packets(w), 0 + 1, Count(w.data))
  BY <1>1, <1>5, <1>6, <1>8, RestFacts, Zenon
<1>10. Writing(w, 0)'
  BY <1>1, <1>5, <1>9, Zenon DEF Writing, Reading
<1> QED
  BY <1>1, <1>2, <1>5, <1>6, <1>8, <1>10, Zenon DEF StreamInv

\* While the tx goroutine has packets, they are those of the oldest reply.
LEMMA StreamWrites ==
  ASSUME StreamInv, tx # <<>>
  PROVE  /\ want \in Seq(Reply) /\ want # <<>> /\ want[1] \in Reply
         /\ \/ Len(want) = 1 /\ outbound = <<>>
            \/ Len(want) = 2 /\ outbound = Packets(want[2]) /\ want[2] \in Reply
         /\ \E j \in 0 .. Count(want[1].data) - 1 : Writing(want[1], j)
<1>1. want \in Seq(Reply)
  BY Zenon DEF StreamInv
<1>2. \E j \in 0 .. Count(want[1].data) - 1 : Writing(want[1], j)
  BY Zenon DEF StreamInv
<1>3. \/ Len(want) = 1 /\ outbound = <<>>
      \/ Len(want) = 2 /\ outbound = Packets(want[2])
  BY Zenon DEF StreamInv
<1>4. want # <<>> /\ want[1] \in Reply /\ (Len(want) = 2 => want[2] \in Reply)
  BY <1>1, <1>3
<1> QED
  BY <1>1, <1>2, <1>3, <1>4, Zenon

\* What the host makes of the packet written next.
LEMMA StreamRight ==
  ASSUME StreamInv, tx # <<>>, NEW w \in Reply, w = want[1],
         NEW j \in 0 .. Count(w.data) - 1, Writing(w, j)
  PROVE  /\ HostReadsRight(Head(tx))
         /\ HostReplyEnds(Head(tx)) <=> j + 1 = Count(w.data)
         /\ j + 1 # Count(w.data) => HostReply(Head(tx)).s = Reading(w.chan, w.data, j + 1)
         /\ Head(tx).chan = w.chan
         /\ Tail(tx) = SubSeq(Packets(w), j + 2, Count(w.data))
<1>1. Count(w.data) \in Nat \ {0}
  BY ReplyFacts, Zenon
<1>2. j \in 0 .. Count(w.data) /\ j < Count(w.data)
  BY <1>1
<1>3. hostSess = Reading(w.chan, w.data, j) /\ tx = SubSeq(Packets(w), j + 1, Count(w.data))
  BY Zenon DEF Writing
<1>4. Head(tx) = Packets(w)[j + 1] /\ Tail(tx) = SubSeq(Packets(w), j + 2, Count(w.data))
  BY <1>2, <1>3, RestFacts, Zenon
<1>5. want \in Seq(Reply) /\ want # <<>>
  BY StreamWrites, Zenon
<1> QED
  BY <1>3, <1>4, <1>5, HostReads, ZenonT(30)

\* The tx goroutine writes a packet.
LEMMA StreamWritten ==
  ASSUME StreamInv, WriteChunk
  PROVE  /\ StreamInv'
         /\ want # <<>> /\ (want' = want \/ want' = Tail(want))
<1>1. /\ tx # <<>> /\ tx' = Tail(tx) /\ outbound' = outbound
      /\ HostRead(Head(tx))
  BY Zenon DEF WriteChunk
<1>2. /\ want \in Seq(Reply) /\ want # <<>> /\ want[1] \in Reply
      /\ \/ Len(want) = 1 /\ outbound = <<>>
         \/ Len(want) = 2 /\ outbound = Packets(want[2]) /\ want[2] \in Reply
      /\ \E j \in 0 .. Count(want[1].data) - 1 : Writing(want[1], j)
  BY <1>1, StreamWrites, Zenon
<1>3. PICK w \in Reply : w = want[1]
  BY <1>2, Zenon
<1>4. PICK j \in 0 .. Count(w.data) - 1 : Writing(w, j)
  BY <1>2, <1>3, Zenon
<1>5. Count(w.data) \in Nat \ {0} /\ j + 1 \in 0 .. Count(w.data) /\ (j + 1) + 1 = j + 2
  BY ReplyFacts
<1>6. CASE j + 1 = Count(w.data)
  <2>1. HostReplyEnds(Head(tx)) /\ Tail(tx) = SubSeq(Packets(w), j + 2, Count(w.data))
    BY <1>1, <1>3, <1>4, <1>6, StreamRight, Zenon
  <2>2. hostSess' = Fresh /\ want' = Tail(want)
    BY <1>1, <2>1, Zenon DEF HostRead
  <2>3. tx' = <<>>
    BY <1>1, <1>5, <1>6, <2>1, RestFacts, ZenonT(30)
  <2>4. /\ Tail(want) \in Seq(Reply) /\ Len(Tail(want)) = Len(want) - 1
        /\ \A i \in 1 .. Len(Tail(want)) : Tail(want)[i] = want[i + 1]
    BY <1>2, HeadTailProperties, Zenon
  <2>5. CASE Len(want) = 1 /\ outbound = <<>>
    <3>1. Len(want') = 0
      BY <2>2, <2>4, <2>5
    <3>2. want' = <<>>
      BY <2>2, <2>4, <3>1
    <3> QED
      BY <1>1, <1>2, <2>2, <2>3, <2>4, <2>5, <3>2, Zenon DEF StreamInv
  <2>6. CASE Len(want) = 2 /\ outbound = Packets(want[2])
    <3>1. Len(want') = 1 /\ 1 \in 1 .. Len(Tail(want)) /\ 1 + 1 = 2
      <4>1. Len(want) = 2 /\ Len(Tail(want)) = Len(want) - 1
        BY <2>4, <2>6, Zenon
      <4> QED
        BY <2>2, <4>1, Places, Zenon
    <3>2. want'[1] = want[2]
      BY <2>2, <2>4, <3>1, Zenon
    <3>3. want' \in Seq(Reply) /\ outbound' = Packets(want'[1])
      BY <1>1, <2>2, <2>4, <2>6, <3>2, Zenon
    <3> QED
      BY <1>2, <2>2, <2>3, <3>1, <3>3, Zenon DEF StreamInv
  <2> QED
    BY <1>2, <2>5, <2>6, Zenon
<1>7. CASE j + 1 # Count(w.data)
  <2>1. /\ ~HostReplyEnds(Head(tx)) /\ HostReply(Head(tx)).s = Reading(w.chan, w.data, j + 1)
        /\ Tail(tx) = SubSeq(Packets(w), j + 2, Count(w.data))
    BY <1>1, <1>3, <1>4, <1>7, StreamRight, Zenon
  <2>2. hostSess' = Reading(w.chan, w.data, j + 1) /\ want' = want
    BY <1>1, <2>1, Zenon DEF HostRead
  <2>3. Writing(w, j + 1)'
    BY <1>1, <1>5, <2>1, <2>2, Zenon DEF Writing
  <2>4. j + 1 \in 0 .. Count(w.data) - 1
    BY <1>5, <1>7
  <2>5. (\E i \in 0 .. Count(want[1].data) - 1 : Writing(want[1], i))'
    BY <1>3, <2>2, <2>3, <2>4, Zenon
  <2> QED
    BY <1>1, <1>2, <2>2, <2>5, Zenon DEF StreamInv
<1> QED
  BY <1>6, <1>7, Zenon

-------------------------------------------------------------------------------
(* The handler *)

\* A handler that has received nothing, whether it runs yet or not.
LEMMA HInvIdle ==
  ASSUME up \in BOOLEAN, Idle, HostInit
  PROVE  HInv
<1> USE DEF Idle, HostInit
<1>1. StreamInv
  BY DEF StreamInv
<1>2. Kept(session)
  BY FreshType, Zenon DEF Kept
<1> QED
  BY <1>1, <1>2, Zenon DEF HInv

\* The process is gone, with what it held.
LEMMA HInvGone ==
  ASSUME Gone
  PROVE  HInv'
<1> USE DEF Gone
<1>1. StreamInv'
  BY DEF StreamInv
<1>2. Kept(session)'
  BY FreshType, Zenon DEF Kept
<1> QED
  BY <1>1, <1>2, Zenon DEF HInv

\* main.go:161-204.  A packet decides on one reply at most, and Rx blocks on it.
LEMMA HInvRx ==
  ASSUME HInv, NEW p \in Packet, Rx(p)
  PROVE  /\ HInv'
         /\ up /\ outbound = <<>>
         /\ \/ Gone
            \/ up' = up /\ want' = want
            \/ up' = up /\ Len(want) < 2 /\ \E v \in Reply : want' = want \o <<v>>
<1> DEFINE read == ReadData(session, p)
<1>1. up /\ outbound = <<>>
  BY Zenon DEF Rx, RxOpen, RxHandle, RxRefuse, RxPanic, RxIdle
<1>2. closing \in BOOLEAN /\ Kept(session) /\ StreamInv /\ want \in Seq(Reply)
  BY Zenon DEF HInv, StreamInv
<1>3. /\ Kept(read.s)
      /\ session = Fresh /\ read.ok => read.s.channelID \in Channels /\ read.s.data \in Seq(Byte)
      /\ session # Fresh => session.channelID \in Channels
  BY <1>2, ReadsKept, Zenon
<1>4. \A v : Append(want, v) = want \o <<v>>
  BY <1>2
<1>5. CASE RxPanic(p)
  BY <1>1, <1>5, HInvGone, Zenon DEF RxPanic
<1>6. CASE RxOpen(p)
  <2>1. /\ up' = up /\ session' = read.s /\ outbound' = outbound /\ closing' = closing
        /\ tx' = tx /\ hostSess' = hostSess /\ want' = want
    BY <1>6, Zenon DEF RxOpen, hostVars
  <2> HIDE DEF read
  <2>2. StreamInv'
    BY <1>2, <2>1, Zenon DEF StreamInv, Writing
  <2>3. Kept(session)'
    BY <1>3, <2>1, Zenon
  <2> QED
    BY <1>1, <1>2, <2>1, <2>2, <2>3, Zenon DEF HInv
<1>7. CASE RxHandle(p)
  <2>1. PICK r \in Replies :
          /\ session = Fresh /\ read.ok /\ session' = read.s
          /\ outbound' = FormatResponse(read.s.channelID, r)
          /\ want' = Append(want, [kind |-> "answer", chan |-> read.s.channelID,
                                   req |-> read.s.data, data |-> r])
          /\ closing' = TRUE /\ up' = up /\ tx' = tx /\ hostSess' = hostSess
    BY <1>7, Zenon DEF RxHandle
  <2> HIDE DEF read
  <2>2. PICK v \in Reply : v = [kind |-> "answer", chan |-> read.s.channelID,
                                req |-> read.s.data, data |-> r]
    BY <1>3, <2>1, Zenon DEF Reply
  <2>3. outbound' = Packets(v) /\ want' = Append(want, v)
    BY <2>1, <2>2, Zenon DEF Packets
  <2>4. StreamInv' /\ Len(want) < 2
    BY <1>1, <1>2, <2>1, <2>3, StreamPromised, Zenon
  <2>5. Kept(session)'
    BY <1>3, <2>1, Zenon
  <2> QED
    BY <1>1, <1>4, <2>1, <2>3, <2>4, <2>5, Zenon DEF HInv
<1>8. CASE RxRefuse(p)
  <2>1. /\ session # Fresh /\ session' = read.s
        /\ outbound' = FormatResponse(session.channelID, NotAllowed)
        /\ want' = Append(want, [kind |-> "reject", chan |-> session.channelID,
                                 req |-> <<>>, data |-> NotAllowed])
        /\ closing' = closing /\ up' = up /\ tx' = tx /\ hostSess' = hostSess
    BY <1>8, Zenon DEF RxRefuse
  <2> HIDE DEF read
  <2>2. PICK v \in Reply : v = [kind |-> "reject", chan |-> session.channelID,
                                req |-> <<>>, data |-> NotAllowed]
    <3>1. <<>> \in Seq(Byte) /\ NotAllowed \in Replies \cup {NotAllowed}
      OBVIOUS
    <3> QED
      BY <1>3, <2>1, <3>1, Zenon DEF Reply
  <2>3. outbound' = Packets(v) /\ want' = Append(want, v)
    BY <2>1, <2>2, Zenon DEF Packets
  <2>4. StreamInv' /\ Len(want) < 2
    BY <1>1, <1>2, <2>1, <2>3, StreamPromised, Zenon
  <2>5. Kept(session)'
    BY <1>3, <2>1, Zenon
  <2> QED
    BY <1>1, <1>2, <1>4, <2>1, <2>3, <2>4, <2>5, Zenon DEF HInv
<1> QED
  BY <1>5, <1>6, <1>7, <1>8, Zenon DEF Rx

\* main.go:145-149, 196-202.  Rx returns, and drops the session it has answered.
LEMMA HInvHanded ==
  ASSUME HInv, writeOutbound
  PROVE  HInv'
<1>1. /\ up /\ up' = up /\ closing' = FALSE
      /\ session' = IF closing THEN Fresh ELSE session
  BY Zenon DEF writeOutbound
<1>2. StreamInv'
  BY StreamHanded, Zenon DEF HInv
<1>3. Kept(session)'
  <2>1. Kept(Fresh)
    BY FreshType, Zenon DEF Kept
  <2> QED
    BY <1>1, <2>1, Zenon DEF HInv
<1> QED
  BY <1>1, <1>2, <1>3, Zenon DEF HInv

\* main.go:123-127.  A write concerns the packets only.
LEMMA HInvWritten ==
  ASSUME HInv, WriteChunk
  PROVE  HInv'
<1>1. /\ up /\ up' = up /\ session' = session /\ closing' = closing
  BY Zenon DEF WriteChunk
<1>2. StreamInv'
  BY StreamWritten, Zenon DEF HInv
<1> QED
  BY <1>1, <1>2, Zenon DEF HInv

\* The invariant depends on nothing but the handler and the host.
LEMMA HInvStutter ==
  ASSUME HInv, UNCHANGED vars
  PROVE  HInv'
  BY Zenon DEF HInv, Kept, StreamInv, Writing, vars, devVars, hostVars

\* What the invariant says of types.
LEMMA HInvTypeOK == HInv => TypeOK
<1> SUFFICES ASSUME HInv PROVE TypeOK
  BY Zenon
<1>1. want \in Seq(Reply) /\ StreamInv
  BY Zenon DEF HInv, StreamInv
<1> DEFINE Goal == outbound \in Seq(Packet) /\ tx \in Seq(Packet) /\ hostSess \in Session
<1>2. <<>> \in Seq(Packet) /\ Fresh \in Session
  BY FreshType
<1>3. \A w \in Reply : Packets(w) \in Seq(Packet)
  BY ReplyFacts, Zenon
<1>4. ASSUME NEW w \in Reply, NEW j \in 0 .. Count(w.data) - 1, Writing(w, j)
      PROVE  tx \in Seq(Packet) /\ hostSess \in Session
  <2>1. w.chan \in Channels /\ Sendable(w.data) /\ Count(w.data) \in Nat
    BY ReplyFacts, Zenon
  <2>2. j \in 0 .. Count(w.data)
    BY <2>1
  <2>3. SubSeq(Packets(w), j + 1, Count(w.data)) \in Seq(Packet)
    BY <2>2, RestFacts, Zenon
  <2>4. Reading(w.chan, w.data, j) \in Session
    BY <2>1, ReadingFacts, Zenon
  <2> QED
    BY <1>4, <2>3, <2>4, Zenon DEF Writing
<1>5. (Len(want) = 1 => want[1] \in Reply) /\ (Len(want) = 2 => want[1] \in Reply /\ want[2] \in Reply)
  BY <1>1
<1>6. Goal
  <2>1. CASE want = <<>> /\ outbound = <<>> /\ tx = <<>> /\ hostSess = Fresh
    BY <1>2, <2>1, Zenon
  <2>2. CASE Len(want) = 1 /\ outbound = Packets(want[1]) /\ tx = <<>> /\ hostSess = Fresh
    BY <1>2, <1>3, <1>5, <2>2, Zenon
  <2>3. CASE /\ Len(want) = 1 /\ outbound = <<>>
             /\ \E j \in 0 .. Count(want[1].data) - 1 : Writing(want[1], j)
    BY <1>2, <1>4, <1>5, <2>3, Zenon
  <2>4. CASE /\ Len(want) = 2 /\ outbound = Packets(want[2])
             /\ \E j \in 0 .. Count(want[1].data) - 1 : Writing(want[1], j)
    BY <1>3, <1>4, <1>5, <2>4, Zenon
  <2> QED
    BY <1>1, <2>1, <2>2, <2>3, <2>4, Zenon DEF StreamInv
<1> HIDE DEF Goal
<1> QED
  BY <1>1, <1>6, Zenon DEF Goal, HInv, Kept, TypeOK, HostTypeOK

\* What the invariant says of the packet written next.
LEMMA HInvWhole == HInv => RepliesArriveWhole
<1> SUFFICES ASSUME HInv, tx # <<>> PROVE HostReadsRight(Head(tx))
  BY Zenon DEF RepliesArriveWhole
<1>1. StreamInv
  BY Zenon DEF HInv
<1>2. PICK w \in Reply : w = want[1]
  BY <1>1, StreamWrites, Zenon
<1>3. PICK j \in 0 .. Count(w.data) - 1 : Writing(w, j)
  BY <1>1, <1>2, StreamWrites, Zenon
<1> QED
  BY <1>1, <1>2, <1>3, StreamRight, Zenon

-------------------------------------------------------------------------------
(* The set-up of the gadget and its removal, by any number of runs in any order *)

\* While nobody else touches the gadget, configure_hidg either made all there is of
\* it or found something that its first call cannot work on.
ConfiguresAsLeft ==
  main.saw = "nothing" =>
    /\ main.pc = "configure" =>
         /\ main.left < enabled
         /\ (main.step = 0 /\ g1 = main.left) \/ (main.left = 0 /\ g1 = main.step)
    /\ main.pc = "open" => g1 = enabled

GInv == GadgetTypeOK /\ ConfiguresAsLeft /\ StartsAsLeft /\ CleanLeavesNone

-------------------------------------------------------------------------------
(* What an assignment to a field leaves of a run's record *)

\* The next call of configure_hidg.
LEMMA SetStep ==
  ASSUME NEW m \in Main, NEW v \in 0 .. 4
  PROVE  LET n == [m EXCEPT !.step = v]
         IN  n \in Main /\ n.step = v /\ n.pc = m.pc /\ n.left = m.left /\ n.saw = m.saw
  BY Zenon DEF Main

\* The last one succeeds.
LEMMA SetPc ==
  ASSUME NEW m \in Main, NEW v \in {"set up", "open"}
  PROVE  LET n == [m EXCEPT !.pc = v]
         IN  n \in Main /\ n.pc = v /\ n.left = m.left /\ n.saw = m.saw
  BY Zenon DEF Main

\* A call fails.
LEMMA SetFailed ==
  ASSUME NEW m \in Main, NEW v \in {"nothing", "fault", "clean"}
  PROVE  LET n == [m EXCEPT !.pc = "failed", !.saw = v]
         IN  n \in Main /\ n.pc = "failed" /\ n.left = m.left /\ n.saw = v
  BY Zenon DEF Main

\* The other run changed the gadget, or failed to.
LEMMA SetSaw ==
  ASSUME NEW m \in Main, NEW v \in {"clean", "fault"}
  PROVE  LET n == [m EXCEPT !.saw = v]
         IN  /\ n \in Main /\ n.saw = v
             /\ n.pc = m.pc /\ n.left = m.left /\ n.step = m.step
  BY Zenon DEF Main

\* A run with -clean goes on, or sees a call of configure_hidg.
LEMMA SetClean ==
  ASSUME NEW c \in Clean
  PROVE  /\ [c EXCEPT !.saw = "configure"] \in Clean
         /\ [c EXCEPT !.saw = "configure"].saw = "configure"
         /\ [c EXCEPT !.pc = "remove"] \in Clean /\ [c EXCEPT !.pc = "remove"].pc = "remove"
         /\ [c EXCEPT !.pc = "visited"] \in Clean
  BY Zenon DEF Clean

-------------------------------------------------------------------------------
(* The inductive invariant *)

\* No gadget at first.
LEMMA InitGInv == GadgetInit => GInv
  BY DEF GadgetInit, At, GInv, GadgetTypeOK, ConfiguresAsLeft, StartsAsLeft, CleanLeavesNone,
         Main, Clean, enabled

\* One step of either run keeps it.
LEMMA NextGInv == GInv /\ [GadgetNext]_gadgetVars => GInv'
<1> SUFFICES ASSUME GInv, [GadgetNext]_gadgetVars PROVE GInv'
  OBVIOUS
<1>0. g1 \in 0 .. 5 /\ main \in Main /\ clean \in Clean
  BY DEF GInv, GadgetTypeOK, enabled
<1>1. main.step \in 0 .. 4 /\ main.left \in 0 .. 5
  BY <1>0, Zenon DEF Main, enabled
<1>2. enabled = 5 /\ enabled - 1 = 4
  BY DEF enabled
<1>3. ASSUME NEW flag \in {"-setup", "none"}, Start(flag) PROVE GInv'
  <2>1. 0 \in 0 .. 4 /\ g1 \in 0 .. 5 /\ (g1 # 5 => g1 < 5)
    BY <1>0
  <2>2. main' \in Main
    BY <1>2, <1>3, <2>1, Zenon DEF Start, Main
  <2>3. /\ IF g1 = 5 THEN main'.pc \in {"set up", "open"} ELSE main'.pc = "configure"
        /\ main'.step = 0 /\ main'.left = g1
    BY <1>2, <1>3, Zenon DEF Start, hidgExists
  <2>4. g1' = g1 /\ clean' = clean
    BY <1>3, Zenon DEF Start
  <2> QED
    BY <1>0, <1>2, <2>1, <2>2, <2>3, <2>4, Zenon
    DEF GInv, GadgetTypeOK, ConfiguresAsLeft, StartsAsLeft, CleanLeavesNone
<1>4. CASE Configure
  <2>1. g1 = main.step /\ g1' = g1 + 1 /\ main.pc = "configure"
    BY <1>4, Zenon DEF Configure
  <2>2. clean' \in Clean /\ clean'.saw = "configure"
    BY <1>0, <1>4, SetClean, Zenon DEF Configure
  <2>3. main.saw = "nothing" => main.left = 0 /\ main.left < 5
    BY <1>2, <2>1 DEF GInv, ConfiguresAsLeft
  <2>4. g1' \in 0 .. 5 /\ (g1' < 5 => g1' \in 0 .. 4) /\ (~(g1' < 5) => g1' = 5)
    BY <1>1, <2>1
  <2>5. CASE g1' < 5
    <3>1. /\ main' \in Main /\ main'.step = g1'
          /\ main'.pc = main.pc /\ main'.left = main.left /\ main'.saw = main.saw
      BY <1>0, <1>2, <1>4, <2>4, <2>5, SetStep, ZenonT(30) DEF Configure
    <3> QED
      BY <1>2, <2>1, <2>2, <2>3, <2>4, <3>1, Zenon
      DEF GInv, GadgetTypeOK, ConfiguresAsLeft, StartsAsLeft, CleanLeavesNone
  <2>6. CASE ~(g1' < 5)
    <3>1. /\ main' \in Main /\ main'.pc \in {"set up", "open"}
          /\ main'.left = main.left /\ main'.saw = main.saw
      BY <1>0, <1>2, <1>4, <2>6, SetPc, ZenonT(30) DEF Configure
    <3> QED
      BY <1>2, <2>2, <2>3, <2>4, <2>6, <3>1, Zenon
      DEF GInv, GadgetTypeOK, ConfiguresAsLeft, StartsAsLeft, CleanLeavesNone
  <2> QED
    BY <2>5, <2>6
<1>5. CASE ConfigureFails \/ OpenFails
  <2>1. PICK v \in {"nothing", "fault", "clean"} :
          /\ main' = [main EXCEPT !.pc = "failed", !.saw = v]
          /\ v = "nothing" =>
               /\ main.saw = "nothing"
               /\ (main.pc = "configure" /\ g1 # main.step) \/ (main.pc = "open" /\ g1 # 5)
    <3>1. main.saw \in {"nothing", "fault", "clean"}
      BY <1>0, Zenon DEF Main
    <3>2. CASE ConfigureFails
      <4>1. CASE g1 = main.step
        BY <3>2, <4>1, Zenon DEF ConfigureFails
      <4>2. CASE g1 # main.step
        <5>1. main' = [main EXCEPT !.pc = "failed", !.saw = main.saw] /\ main.pc = "configure"
          BY <3>2, <4>2, Zenon DEF ConfigureFails
        <5> QED
          BY <3>1, <4>2, <5>1, Zenon
      <4> QED
        BY <4>1, <4>2
    <3>3. CASE OpenFails
      <4>1. CASE g1 = 5
        BY <1>2, <3>3, <4>1, Zenon DEF OpenFails, hidgExists
      <4>2. CASE g1 # 5
        BY <1>2, <3>1, <3>3, <4>2, Zenon DEF OpenFails, hidgExists
      <4> QED
        BY <4>1, <4>2
    <3> QED
      BY <1>5, <3>2, <3>3
  <2>2. main' \in Main /\ main'.pc = "failed" /\ main'.left = main.left /\ main'.saw = v
    BY <1>0, <2>1, SetFailed, Zenon
  <2>3. g1' = g1 /\ clean' = clean
    BY <1>5, Zenon DEF ConfigureFails, OpenFails
  <2>4. v = "nothing" => main.left < 5 /\ main.left # 0
    BY <1>2, <2>1, Zenon DEF GInv, ConfiguresAsLeft
  <2>5. main.left < 5 /\ main.left # 0 => main.left \in 1 .. 4
    BY <1>1
  <2> QED
    BY <1>2, <2>2, <2>3, <2>4, <2>5, Zenon
    DEF GInv, GadgetTypeOK, ConfiguresAsLeft, StartsAsLeft, CleanLeavesNone
<1>6. CASE CleanStart
  <2>1. clean' \in Clean /\ (clean'.pc = "visited" => ~(g1 > 0)) /\ g1' = g1 /\ main' = main
    BY <1>6, Zenon DEF CleanStart, Clean
  <2>2. ~(g1 > 0) => g1 = 0
    BY <1>0
  <2> QED
    BY <2>1, <2>2, Zenon
    DEF GInv, GadgetTypeOK, ConfiguresAsLeft, StartsAsLeft, CleanLeavesNone
<1>7. CASE CleanDisables \/ CleanRemoves
  <2>1. clean' \in Clean /\ (clean'.pc = "remove" \/ g1' = 0)
    BY <1>0, <1>7, SetClean, Zenon DEF CleanDisables, CleanRemoves
  <2>2. g1' \in {0, 4, g1}
    BY <1>2, <1>7, Zenon DEF CleanDisables, CleanRemoves
  <2>3. g1' \in 0 .. 5
    BY <1>0, <2>2
  <2>4. \/ main' = main /\ main.pc \notin {"configure", "open"}
        \/ main' \in Main /\ main'.saw = "clean"
    BY <1>0, <1>7, SetSaw, Zenon DEF CleanDisables, CleanRemoves, Met
  <2> QED
    BY <1>0, <1>2, <2>1, <2>3, <2>4, Zenon
    DEF GInv, GadgetTypeOK, ConfiguresAsLeft, StartsAsLeft, CleanLeavesNone
<1>8. CASE CleanEnds
  <2>1. clean' \in Clean /\ clean'.pc = "off" /\ g1' = g1
    BY <1>8, Zenon DEF CleanEnds, Clean
  <2>2. main' = main \/ (main' \in Main /\ main'.saw = "fault")
    BY <1>0, <1>8, SetSaw, Zenon DEF CleanEnds
  <2> QED
    BY <1>0, <2>1, <2>2, Zenon DEF GInv, GadgetTypeOK, ConfiguresAsLeft, StartsAsLeft, CleanLeavesNone
<1>9. ASSUME main' \in {main, At("off"), At("serving")}, g1' = g1, clean' = clean
      PROVE  GInv'
  <2>1. 0 \in 0 .. 4 /\ 0 \in 0 .. 5
    OBVIOUS
  <2>2. main' = main \/ (main' \in Main /\ main'.pc \in {"off", "serving"})
    <3>1. ASSUME NEW p \in {"off", "serving"} PROVE At(p) \in Main /\ At(p).pc = p
      BY <1>2, <2>1, Zenon DEF At, Main
    <3> QED
      BY <1>9, <3>1, Zenon
  <2> QED
    BY <1>9, <2>2, Zenon
    DEF GInv, GadgetTypeOK, ConfiguresAsLeft, StartsAsLeft, CleanLeavesNone
<1>10. CASE Open \/ Stop
  <2>1. main' \in {main, At("off"), At("serving")} /\ g1' = g1 /\ clean' = clean
    BY <1>10, Zenon DEF Open, Stop
  <2> QED
    BY <1>9, <2>1
<1>11. CASE UNCHANGED gadgetVars
  BY <1>9, <1>11, Zenon DEF gadgetVars
<1> QED
  BY <1>3, <1>4, <1>5, <1>6, <1>7, <1>8, <1>10, <1>11 DEF GadgetNext, SetUp, CleanUp

-------------------------------------------------------------------------------
(* What a start and a run with -clean leave together *)

\* configure_hidg's next call finds what its calls made, or what was there, or nothing;
\* a gadget to be opened is whole, or gone, or was disabled by a -clean that is about to
\* remove it or that failed to; and so a start that failed of -clean.
PartsLeft ==
  /\ main.pc = "configure" => g1 \in {0, main.step, main.left} /\ main.left < 5
  /\ main.pc = "open" =>
       \/ g1 \in {0, 5}
       \/ main.saw = "fault"
       \/ main.saw = "clean" /\ clean.pc = "remove"
  /\ main.pc = "failed" /\ main.saw # "fault" =>
       \/ g1 \in {0, main.left} /\ g1 < 5
       \/ main.saw = "clean" /\ clean.pc = "remove"

\* One step of either run keeps what is left to these.
LEMMA NextPartsLeft ==
  ASSUME GadgetTypeOK, PartsLeft, [GadgetNext]_gadgetVars
  PROVE  PartsLeft'
<1>0. g1 \in 0 .. 5 /\ main \in Main /\ clean \in Clean
  BY DEF GadgetTypeOK, enabled
<1>1. main.step \in 0 .. 4 /\ main.left \in 0 .. 5 /\ main.saw \in {"nothing", "fault", "clean"}
  BY <1>0, Zenon DEF Main, enabled
<1>2. enabled = 5 /\ enabled - 1 = 4
  BY DEF enabled
<1>3. ASSUME NEW flag \in {"-setup", "none"}, Start(flag) PROVE PartsLeft'
  <2>1. g1 # 5 => g1 < 5
    BY <1>0
  <2>2. /\ IF g1 = 5 THEN main'.pc \in {"set up", "open"} ELSE main'.pc = "configure"
        /\ main'.left = g1
    BY <1>2, <1>3, Zenon DEF Start, hidgExists
  <2>3. g1' = g1
    BY <1>3, Zenon DEF Start
  <2> QED
    BY <2>1, <2>2, <2>3, Zenon DEF PartsLeft
<1>4. CASE Configure
  <2>1. g1 = main.step /\ g1' = g1 + 1 /\ main.pc = "configure"
    BY <1>4, Zenon DEF Configure
  <2>2. (g1' < 5 => g1' \in 0 .. 4) /\ (~(g1' < 5) => g1' = 5)
    BY <1>1, <2>1
  <2>3. CASE g1' < 5
    <3>1. main'.step = g1' /\ main'.pc = "configure" /\ main'.left = main.left
      BY <1>0, <1>2, <1>4, <2>1, <2>2, <2>3, SetStep, ZenonT(30) DEF Configure
    <3> QED
      BY <2>1, <3>1, Zenon DEF PartsLeft
  <2>4. CASE ~(g1' < 5)
    <3>1. main'.pc \in {"set up", "open"}
      BY <1>0, <1>2, <1>4, <2>4, SetPc, ZenonT(30) DEF Configure
    <3> QED
      BY <2>2, <2>4, <3>1, Zenon DEF PartsLeft
  <2> QED
    BY <2>3, <2>4
<1>5. CASE ConfigureFails \/ OpenFails
  <2>1. g1' = g1 /\ clean' = clean
    BY <1>5, Zenon DEF ConfigureFails, OpenFails
  <2>2. CASE ConfigureFails
    <3>1. CASE g1 = main.step
      <4>1. main' = [main EXCEPT !.pc = "failed", !.saw = "fault"]
        BY <2>2, <3>1, Zenon DEF ConfigureFails
      <4>2. main'.pc = "failed" /\ main'.saw = "fault"
        BY <1>0, <4>1, SetFailed, Zenon
      <4> QED
        BY <4>2, Zenon DEF PartsLeft
    <3>2. CASE g1 # main.step
      <4>0. main' = [main EXCEPT !.pc = "failed", !.saw = main.saw] /\ main.pc = "configure"
        BY <2>2, <3>2, Zenon DEF ConfigureFails
      <4>1. main'.pc = "failed" /\ main'.left = main.left /\ main.pc = "configure"
        BY <1>0, <1>1, <4>0, SetFailed, Zenon
      <4>2. g1 \in {0, main.left} /\ main.left < 5
        BY <3>2, <4>1, Zenon DEF PartsLeft
      <4>3. g1 < 5
        BY <4>2
      <4> QED
        BY <2>1, <4>1, <4>2, <4>3, Zenon DEF PartsLeft
    <3> QED
      BY <3>1, <3>2
  <2>3. CASE OpenFails
    <3>1. CASE g1 = 5
      <4>1. main' = [main EXCEPT !.pc = "failed", !.saw = "fault"]
        BY <1>2, <2>3, <3>1, Zenon DEF OpenFails, hidgExists
      <4>2. main'.pc = "failed" /\ main'.saw = "fault"
        BY <1>0, <4>1, SetFailed, Zenon
      <4> QED
        BY <4>2, Zenon DEF PartsLeft
    <3>2. CASE g1 # 5
      <4>0. main' = [main EXCEPT !.pc = "failed", !.saw = main.saw] /\ main.pc = "open"
        BY <1>2, <2>3, <3>2, Zenon DEF OpenFails, hidgExists
      <4>1. /\ main'.pc = "failed" /\ main'.left = main.left /\ main'.saw = main.saw
            /\ main.pc = "open"
        BY <1>0, <1>1, <4>0, SetFailed, Zenon
      <4>2. g1 = 0 => g1 < 5
        OBVIOUS
      <4> QED
        BY <2>1, <3>2, <4>1, <4>2, Zenon DEF PartsLeft
    <3> QED
      BY <3>1, <3>2
  <2> QED
    BY <1>5, <2>2, <2>3
<1>6. CASE CleanStart
  <2>1. g1' = g1 /\ main' = main /\ clean.pc # "remove"
    BY <1>6, Zenon DEF CleanStart
  <2> QED
    BY <2>1, Zenon DEF PartsLeft
<1>7. CASE CleanDisables
  <2>1. clean'.pc = "remove" /\ clean.pc # "remove"
    BY <1>0, <1>7, SetClean, Zenon DEF CleanDisables
  <2>2. g1' = g1 \/ (g1 = 5 /\ g1' = 4)
    BY <1>2, <1>7, Zenon DEF CleanDisables, hidgExists
  <2>3. CASE main.pc \in {"configure", "open"}
    <3>1. /\ main'.saw = "clean" /\ main'.pc = main.pc
          /\ main'.step = main.step /\ main'.left = main.left
      BY <1>0, <1>7, <2>3, SetSaw, Zenon DEF CleanDisables, Met
    <3>2. main.pc = "configure" => g1 # 5
      BY <1>1 DEF PartsLeft
    <3> QED
      BY <2>1, <2>2, <2>3, <3>1, <3>2, Zenon DEF PartsLeft
  <2>4. CASE main.pc \notin {"configure", "open"}
    <3>1. main' = main
      BY <1>7, <2>4, Zenon DEF CleanDisables, Met
    <3>2. ~(5 < 5)
      OBVIOUS
    <3> QED
      BY <2>1, <2>2, <2>4, <3>1, <3>2, Zenon DEF PartsLeft
  <2> QED
    BY <2>3, <2>4
<1>8. CASE CleanRemoves
  <2>1. g1' = 0
    BY <1>8, Zenon DEF CleanRemoves
  <2>2. main' = main \/ (main'.pc = main.pc /\ main'.left = main.left)
    BY <1>0, <1>8, SetSaw, Zenon DEF CleanRemoves, Met
  <2>3. 0 < 5
    OBVIOUS
  <2> QED
    BY <2>1, <2>2, <2>3, Zenon DEF PartsLeft
<1>9. CASE CleanEnds
  <2>1. g1' = g1
    BY <1>9, Zenon DEF CleanEnds
  <2>2. CASE clean.pc = "remove" /\ main.saw = "clean"
    <3>1. /\ main'.saw = "fault" /\ main'.pc = main.pc
          /\ main'.step = main.step /\ main'.left = main.left
      BY <1>0, <1>9, <2>2, SetSaw, Zenon DEF CleanEnds
    <3> QED
      BY <2>1, <3>1, Zenon DEF PartsLeft
  <2>3. CASE ~(clean.pc = "remove" /\ main.saw = "clean")
    <3>1. main' = main
      BY <1>9, <2>3, Zenon DEF CleanEnds
    <3> QED
      BY <2>1, <2>3, <3>1, Zenon DEF PartsLeft
  <2> QED
    BY <2>2, <2>3
<1>10. CASE Open \/ Stop
  <2>1. At("off").pc = "off" /\ At("serving").pc = "serving"
    BY Zenon DEF At
  <2>2. main' = At("off") \/ main' = At("serving")
    BY <1>10, Zenon DEF Open, Stop
  <2> QED
    BY <2>1, <2>2, Zenon DEF PartsLeft
<1>11. CASE UNCHANGED gadgetVars
  BY <1>11, Zenon DEF gadgetVars, PartsLeft
<1> QED
  BY <1>3, <1>4, <1>5, <1>6, <1>7, <1>8, <1>9, <1>10, <1>11 DEF GadgetNext, SetUp, CleanUp

\* main.go:55-76, gadget-hid.c:71-169: a start that fails of a -clean adds nothing to what
\* is left of the gadget.
LEMMA GadgetFailedStart == GadgetSpec => []FailedStartAddsNothing
<1>1. GadgetInit => PartsLeft
  BY DEF GadgetInit, At, PartsLeft
<1>2. GInv /\ PartsLeft /\ [GadgetNext]_gadgetVars => PartsLeft'
  BY NextPartsLeft DEF GInv
<1>3. PartsLeft => FailedStartAddsNothing
  BY Zenon DEF PartsLeft, FailedStartAddsNothing
<1> QED
  BY <1>1, <1>2, <1>3, InitGInv, NextGInv, PTL DEF GadgetSpec

\* The gadget and the two runs keep their types.
LEMMA GadgetTypeCorrect == GadgetSpec => []GadgetTypeOK
<1>1. GInv => GadgetTypeOK
  BY DEF GInv
<1> QED
  BY <1>1, InitGInv, NextGInv, PTL DEF GadgetSpec

\* gadget-hid.c:71-103, main.go:55-76: a start without faults succeeds on no gadget or
\* a whole one, and only then.
LEMMA GadgetStartsAsLeft == GadgetSpec => []StartsAsLeft
<1>1. GInv => StartsAsLeft
  BY DEF GInv
<1> QED
  BY <1>1, InitGInv, NextGInv, PTL DEF GadgetSpec

\* gadget-hid.c:130-169: a -clean that visited every gadget left none of ours.
LEMMA GadgetCleanLeavesNone == GadgetSpec => []CleanLeavesNone
<1>1. GInv => CleanLeavesNone
  BY DEF GInv
<1> QED
  BY <1>1, InitGInv, NextGInv, PTL DEF GadgetSpec

-------------------------------------------------------------------------------
(* The whole program *)

\* The replies owed to the host, packets left out; a process that is gone owes none.
Promised == INSTANCE HidPort WITH Payloads <- Replies \cup {NotAllowed}, owed <- Seen(want)

\* The handler starts to serve.
Served ==
  /\ up' = TRUE /\ session' = session /\ outbound' = outbound /\ closing' = closing
  /\ tx' = tx /\ hostSess' = hostSess /\ want' = want

\* A step of the handler, whatever packets the host sends.
AnyStep == (\E p \in Packet : Rx(p)) \/ writeOutbound \/ WriteChunk \/ Gone \/ Served

\* Each of them keeps the invariant, and is a step of the port, or none.
LEMMA HandlerSteps ==
  ASSUME HInv, [AnyStep]_vars
  PROVE  HInv' /\ [Promised!Next]_Promised!vars
<1>1. want \in Seq(Reply) /\ StreamInv /\ up \in BOOLEAN /\ (~up => want = <<>>)
  BY Zenon DEF HInv, StreamInv
<1>2. Seen(<<>>) = <<>>
  BY SeenNothing, Zenon
<1>3. ASSUME UNCHANGED vars
      PROVE  HInv' /\ UNCHANGED Promised!vars
  <2>1. up' = up /\ want' = want
    BY <1>3, Zenon DEF vars, devVars, hostVars
  <2> QED
    BY <1>3, <2>1, HInvStutter, Zenon DEF Promised!vars
<1>4. ASSUME Gone
      PROVE  HInv' /\ [Promised!Next]_Promised!vars
  <2>1. up' = FALSE /\ want' = <<>> /\ HInv'
    BY <1>4, HInvGone, Zenon DEF Gone
  <2>2. CASE up
    BY <1>2, <2>1, <2>2, Zenon DEF Promised!Next, Promised!Panic
  <2>3. CASE ~up
    BY <1>1, <2>1, <2>3, Zenon DEF Promised!vars
  <2> QED
    BY <2>2, <2>3, Zenon
<1>5. CASE Served
  <2>1. /\ up' = TRUE /\ session' = session /\ outbound' = outbound /\ closing' = closing
        /\ tx' = tx /\ hostSess' = hostSess /\ want' = want
    BY <1>5, Zenon DEF Served
  <2>2. HInv'
    BY <2>1, Zenon DEF HInv, Kept, StreamInv, Writing
  <2>3. CASE up
    BY <2>1, <2>2, <2>3, Zenon DEF Promised!vars
  <2>4. CASE ~up
    BY <2>1, <2>2, <2>4, Zenon DEF Promised!Next, Promised!Restart
  <2> QED
    BY <2>3, <2>4, Zenon
<1>6. ASSUME NEW p \in Packet, Rx(p)
      PROVE  HInv' /\ [Promised!Next]_Promised!vars
  <2>2. /\ HInv' /\ up
        /\ \/ Gone
           \/ up' = up /\ want' = want
           \/ up' = up /\ Len(want) < 2 /\ \E v \in Reply : want' = want \o <<v>>
    BY <1>6, HInvRx, Zenon
  <2>3. CASE up' = up /\ want' = want
    BY <2>2, <2>3, Zenon DEF Promised!vars
  <2>4. ASSUME NEW v \in Reply, up' = up, Len(want) < 2, want' = want \o <<v>>
        PROVE  Promised!Reply
    <3>1. PICK r \in Readable : Seen(want \o <<v>>) = Append(Seen(want), r)
      BY <1>1, SeenGrows, Zenon
    <3>2. Len(Seen(want)) < 2
      BY <1>1, <2>4, SeenFacts, Zenon
    <3>3. r \in [chan : Channels, data : Replies \cup {NotAllowed}]
      BY Zenon DEF Readable
    <3> QED
      BY <2>2, <2>4, <3>1, <3>2, <3>3, Zenon DEF Promised!Reply
  <2> QED
    BY <1>4, <2>2, <2>3, <2>4, Zenon DEF Promised!Next
<1>7. CASE writeOutbound
  <2>1. up' = up /\ want' = want
    BY <1>7, Zenon DEF writeOutbound, hostVars
  <2> QED
    BY <1>7, <2>1, HInvHanded, Zenon DEF Promised!vars
<1>8. CASE WriteChunk
  <2>1. WriteChunk /\ up /\ up' = up
    BY <1>8, Zenon DEF WriteChunk
  <2>2. want # <<>> /\ (want' = want \/ want' = Tail(want))
    BY <1>1, <2>1, StreamWritten, Zenon
  <2>3. CASE want' = want
    BY <2>1, <2>3, HInvWritten, Zenon DEF Promised!vars
  <2>4. CASE want' = Tail(want)
    BY <1>1, <2>1, <2>2, <2>4, SeenShrinks, HInvWritten, Zenon DEF Promised!Next, Promised!Deliver
  <2> QED
    BY <2>2, <2>3, <2>4, Zenon
<1> QED
  BY <1>3, <1>4, <1>5, <1>6, <1>7, <1>8, Zenon DEF AnyStep

\* What the program does is that to its handler, or nothing.
LEMMA MainIsAnyStep == [MainNext]_mainVars => [AnyStep]_vars
<1>1. Serve => Served
  BY Zenon DEF Serve, Served, hostVars
<1>2. \A p \in HostPackets : Receive(p) => AnyStep
  BY PacketsAssumption, Zenon DEF Receive, AnyStep
<1> QED
  BY <1>1, <1>2, Zenon
  DEF MainNext, SettingUp, Cleaning, Stopped, HandOver, Write, WriteFails, mainVars, AnyStep

\* The invariant holds throughout.
LEMMA HInvHolds == MainSpec => []HInv
<1>1. MainInit => HInv
  BY HInvIdle, Zenon DEF MainInit
<1>2. HInv /\ [MainNext]_mainVars => HInv'
  BY HandlerSteps, MainIsAnyStep, Zenon
<1> QED
  BY <1>1, <1>2, PTL DEF MainSpec

\* main.go:43-136: all the program does to its gadget is to set it up, open it, end
\* and clean up; serving it changes nothing of it, for every packet and every reply.
THEOREM MainUsesGadget == MainSpec => GadgetSpec
<1>1. MainInit => GadgetInit
  BY Zenon DEF MainInit
<1>2. [MainNext]_mainVars => [GadgetNext]_gadgetVars
  <2>1. MainNext => GadgetNext \/ UNCHANGED gadgetVars
    BY Zenon DEF MainNext, SettingUp, Cleaning, Serve, Stopped, Receive, HandOver, Write,
                 WriteFails, GadgetNext
  <2>2. UNCHANGED mainVars => UNCHANGED gadgetVars
    BY Zenon DEF mainVars
  <2> QED
    BY <2>1, <2>2, Zenon
<1> QED
  BY <1>1, <1>2, PTL DEF MainSpec, GadgetSpec

\* gadget-hid.c:71-103, main.go:55-76: whatever else the program and its host do, a
\* start without faults succeeds on no gadget or a whole one, and only then.
THEOREM StartsAsLeftHolds == MainSpec => []StartsAsLeft
  BY MainUsesGadget, GadgetStartsAsLeft, PTL

\* gadget-hid.c:130-169: a -clean that visited every gadget left none of ours, though
\* the program may be serving it.
THEOREM CleanLeavesNoneHolds == MainSpec => []CleanLeavesNone
  BY MainUsesGadget, GadgetCleanLeavesNone, PTL

\* main.go:55-76, gadget-hid.c:71-169: a start that fails because -clean took its gadget
\* away adds nothing to what is left, between whichever two calls that happened.
THEOREM FailedStartAddsNothingHolds == MainSpec => []FailedStartAddsNothing
  BY MainUsesGadget, GadgetFailedStart, PTL

\* cmd/wallera-linux: for every packet and every reply, wherever the program is stopped
\* and the gadget removed, the two runs and the handler keep their types.
THEOREM MainTypeCorrect == MainSpec => []MainTypeOK
<1>1. HInv /\ GadgetTypeOK => MainTypeOK
  BY HInvTypeOK, Zenon DEF MainTypeOK
<1> QED
  BY <1>1, HInvHolds, MainUsesGadget, GadgetTypeCorrect, PTL

\* usb.go:313-375 with main.go:110-129, 145-159.  Although Rx goes on while a reply is
\* being written, the host reads exactly the replies decided on, in their order.
THEOREM RepliesWhole == MainSpec => []RepliesArriveWhole
  BY HInvHolds, HInvWhole, PTL

\* main.go:43-204.  Packets, goroutines and the gadget left out, the program is the port
\* of HidPort: the same that the firmware implements.
THEOREM ImplementsPort == MainSpec => Promised!Spec
<1>1. MainInit => Promised!Init
  <2> SUFFICES ASSUME MainInit PROVE Promised!Init
    BY Zenon
  <2>1. up = FALSE /\ want = <<>>
    BY Zenon DEF MainInit, HostInit
  <2> QED
    BY <2>1, SeenNothing, Zenon DEF Promised!Init
<1>2. HInv /\ [MainNext]_mainVars => [Promised!Next]_Promised!vars
  BY HandlerSteps, MainIsAnyStep, Zenon
<1> QED
  BY <1>1, <1>2, HInvHolds, PTL DEF MainSpec, Promised!Spec

\* The hand-over and the writes until the host has all that Rx has to send.
Left == 2 * Len(outbound) + Len(tx)

\* main.go:145-149.  While Rx is blocked in writeOutbound, whatever happens to the handler
\* brings it nearer to its return, or ends the process.
RxAdvances == [][outbound # <<>> => Left' < Left]_vars

\* Each step does.
LEMMA SendingShrinks ==
  ASSUME HInv, [AnyStep]_vars
  PROVE  [outbound # <<>> => Left' < Left]_vars
<1> SUFFICES ASSUME AnyStep, outbound # <<>>, ~UNCHANGED vars
             PROVE  Left' < Left
  BY Zenon
<1>1. outbound \in Seq(Packet) /\ tx \in Seq(Packet)
  BY HInvTypeOK, Zenon DEF TypeOK
<1>2. Len(outbound) \in Nat \ {0} /\ Len(tx) \in Nat
  BY <1>1
<1>3. CASE writeOutbound
  <2>1. tx = <<>> /\ tx' = outbound /\ outbound' = <<>>
    BY <1>3, Zenon DEF writeOutbound
  <2>2. Len(tx) = 0 /\ Len(outbound') = 0
    BY <2>1
  <2> QED
    BY <1>2, <2>1, <2>2 DEF Left
<1>4. CASE WriteChunk
  <2>1. tx # <<>> /\ tx' = Tail(tx) /\ outbound' = outbound
    BY <1>4, Zenon DEF WriteChunk
  <2>2. Len(tx') = Len(tx) - 1
    BY <1>1, <2>1, HeadTailProperties
  <2> QED
    BY <1>2, <2>1, <2>2 DEF Left
<1>5. CASE Gone
  <2>1. Len(tx') = 0 /\ Len(outbound') = 0
    BY <1>5 DEF Gone
  <2> QED
    BY <1>2, <2>1 DEF Left
<1>6. \A p \in Packet : ~Rx(p)
  BY Zenon DEF Rx, RxOpen, RxHandle, RxRefuse, RxPanic, RxIdle
<1>7. ~Served
  <2>1. want # <<>>
    BY DEF HInv, StreamInv
  <2>2. up = TRUE
    BY <2>1, Zenon DEF HInv
  <2> QED
    BY <2>2, Zenon DEF Served, vars, devVars, hostVars
<1> QED
  BY <1>3, <1>4, <1>5, <1>6, <1>7, Zenon DEF AnyStep

\* main.go:145-149.  So it is for every packet, reply and size of packet, wherever the
\* program is stopped and the gadget removed.  This is what RxReturns rests on besides
\* fairness.
THEOREM RxAlwaysAdvances == MainSpec => RxAdvances
<1>1. HInv /\ [MainNext]_mainVars => [outbound # <<>> => Left' < Left]_vars
  BY SendingShrinks, MainIsAnyStep, Zenon
<1> QED
  BY <1>1, HInvHolds, PTL DEF MainSpec, RxAdvances

-------------------------------------------------------------------------------
(* Programs with any messages *)

\* What programs have to send are packets.
TodoInv == todo \in [Channels -> Seq(Packet)]

\* A step of the handler and its programs is, for the handler, a step of its own.
LEMMA LinkIsAnyStep ==
  ASSUME TodoInv, [LinkNext]_linkVars
  PROVE  [AnyStep]_vars
<1>1. ASSUME NEW c \in Channels, Emit(c)
      PROVE  AnyStep
  <2>1. todo[c] # <<>> /\ Rx(Head(todo[c]))
    BY <1>1, Zenon DEF Emit
  <2>2. Head(todo[c]) \in Packet
    BY <2>1, HeadTailProperties, Zenon DEF TodoInv
  <2> QED
    BY <2>1, <2>2, Zenon DEF AnyStep
<1> QED
  BY <1>1, Zenon DEF LinkNext, linkVars, Begin, DeviceSend, Deliver, AnyStep

\* They are cut from messages, and sent one by one.
LEMMA TodoInvNext ==
  ASSUME TodoInv, [LinkNext]_linkVars
  PROVE  TodoInv'
<1>1. ASSUME NEW c \in Channels, Begin(c)
      PROVE  TodoInv'
  <2>1. PICK m \in Messages[c] : todo' = [todo EXCEPT ![c] = FormatResponse(c, m)]
    BY <1>1, Zenon DEF Begin, ProgStart
  <2>2. FormatResponse(c, m) \in Seq(Packet)
    BY SentNothing, Zenon
  <2> QED
    BY <2>1, <2>2, Zenon DEF TodoInv
<1>2. ASSUME NEW c \in Channels, Emit(c)
      PROVE  TodoInv'
  <2>1. todo[c] # <<>> /\ todo' = [todo EXCEPT ![c] = Tail(todo[c])]
    BY <1>2, Zenon DEF Emit, ProgEmit
  <2>2. Tail(todo[c]) \in Seq(Packet)
    BY <2>1, HeadTailProperties, Zenon DEF TodoInv
  <2> QED
    BY <2>1, <2>2, Zenon DEF TodoInv
<1> QED
  BY <1>1, <1>2, Zenon
  DEF LinkNext, DeviceSend, Deliver, ProgDeliver, linkVars, progVars, TodoInv

\* main.go:110-204.  Programs that keep to the protocol, with messages of any length, are
\* one of the hosts that the handler may meet: it keeps its types, they read its replies
\* whole, though some are refusals, it is the port of HidPort to them, and Rx advances.
THEOREM ProgramsSeePort ==
  LinkSpec => /\ [](TypeOK /\ RepliesArriveWhole)
              /\ Promised!Spec
              /\ RxAdvances
<1>1. LinkInit => HInv /\ TodoInv /\ Promised!Init
  <2> SUFFICES ASSUME LinkInit PROVE HInv /\ TodoInv /\ Promised!Init
    BY Zenon
  <2>1. up = TRUE /\ Idle /\ HostInit /\ ProgInit
    BY Zenon DEF LinkInit, Init
  <2>2. HInv /\ TodoInv
    BY <2>1, HInvIdle, ProgInvInit, Zenon DEF ProgInv, TodoInv
  <2> QED
    BY <2>1, <2>2, SeenNothing, Zenon DEF HostInit, Promised!Init
<1>2. HInv /\ TodoInv /\ [LinkNext]_linkVars => HInv' /\ TodoInv' /\ [Promised!Next]_Promised!vars
  BY LinkIsAnyStep, HandlerSteps, TodoInvNext, Zenon
<1>3. HInv => TypeOK /\ RepliesArriveWhole
  BY HInvTypeOK, HInvWhole, Zenon
<1>4. HInv /\ TodoInv /\ [LinkNext]_linkVars => [outbound # <<>> => Left' < Left]_vars
  BY LinkIsAnyStep, SendingShrinks, Zenon
<1> QED
  BY <1>1, <1>2, <1>3, <1>4, PTL DEF LinkSpec, Promised!Spec, RxAdvances

-------------------------------------------------------------------------------
(* Programs whose messages fit one packet *)

\* A packet of 64 bytes holds any message (57 bytes of data in the code).
Short == \A c \in Channels : \A m \in Messages[c] : Len(m) <= hidFrameMaxDataSize

\* A session is open only while its answer waits to be handed over, and a program has
\* packets to send, a reply on its way or a reply to read, but no two of them.
ServedInv ==
  /\ closing => outbound # <<>>
  /\ session # Fresh => closing
  /\ \A c \in Channels :
       /\ Len(msg[c]) <= hidFrameMaxDataSize
       /\ inbox[c] <= 1
       /\ todo[c] # <<>> => inbox[c] = 0
  /\ \A i \in 1 .. Len(want) : inbox[want[i].chan] = 0 /\ msg[want[i].chan] # <<>>
  /\ \A i, j \in 1 .. Len(want) : want[i].chan = want[j].chan => i = j
  /\ OwnAnswersOnly

\* The inductive invariant of the handler with such programs.
ShortInv == HInv /\ ProgInv /\ ServedInv

\* Messages that have not been sent, and nothing else.
LEMMA ShortInvInit ==
  ASSUME Short, LinkInit
  PROVE  ShortInv
<1>1. Init /\ ProgInit
  BY Zenon DEF LinkInit
<1>2. /\ up = TRUE /\ Idle /\ HostInit
      /\ \A c \in Channels : inbox[c] = 0 /\ msg[c] \in Messages[c] \cup {<<>>}
  BY <1>1, Zenon DEF Init, ProgInit
<1>3. HInv /\ ProgInv
  BY <1>1, <1>2, HInvIdle, ProgInvInit, Zenon
<1>4. \A c \in Channels : Len(msg[c]) <= hidFrameMaxDataSize
  <2>1. Len(<<>>) <= hidFrameMaxDataSize
    BY Sizes
  <2> QED
    BY <1>2, <2>1, Zenon DEF Short
<1>5. ServedInv
  BY <1>2, <1>4 DEF ServedInv, Idle, HostInit, OwnAnswersOnly
<1> QED
  BY <1>3, <1>5, Zenon DEF ShortInv

\* A program that has read its reply has no other on its way.
LEMMA ShortInvBegin ==
  ASSUME Short, ShortInv, NEW c \in Channels, Begin(c)
  PROVE  ShortInv'
<1>1. ProgStart(c) /\ UNCHANGED vars
  BY Zenon DEF Begin
<1>2. /\ session' = session /\ outbound' = outbound /\ closing' = closing /\ want' = want
  BY <1>1, Zenon DEF vars, devVars, hostVars
<1>3. HInv' /\ want \in Seq(Reply)
  BY <1>1, HInvStutter, Zenon DEF ShortInv, HInv, StreamInv
<1>4. /\ ProgInv' /\ inbox'[c] = inbox[c] - 1
      /\ \A d \in Channels \ {c} : msg'[d] = msg[d] /\ todo'[d] = todo[d] /\ inbox'[d] = inbox[d]
  BY <1>1, ProgInvStart, Zenon DEF ShortInv
<1>5. PICK m \in Messages[c] : msg' = [msg EXCEPT ![c] = m] /\ inbox[c] > 0
  BY <1>1, Zenon DEF ProgStart
<1>6. msg'[c] = m /\ inbox[c] \in Nat
  BY <1>5, Zenon DEF ShortInv, ProgInv
<1>7. inbox'[c] = 0 /\ inbox[c] # 0
  BY <1>4, <1>5, <1>6 DEF ShortInv, ServedInv
<1>8. ASSUME NEW d \in Channels
      PROVE  /\ Len(msg'[d]) <= hidFrameMaxDataSize
             /\ inbox'[d] <= 1
             /\ todo'[d] # <<>> => inbox'[d] = 0
  <2>1. CASE d = c
    BY <1>6, <1>7, <2>1 DEF Short
  <2>2. CASE d # c
    BY <1>4, <2>2, Zenon DEF ShortInv, ServedInv
  <2> QED
    BY <2>1, <2>2, Zenon
<1>9. \A i \in 1 .. Len(want) : want[i].chan \in Channels \ {c}
  <2>1. \A i \in 1 .. Len(want) : want[i].chan \in Channels
    BY <1>3, ReplyFacts
  <2>2. \A i \in 1 .. Len(want) : inbox[want[i].chan] = 0
    BY Zenon DEF ShortInv, ServedInv
  <2> QED
    BY <1>7, <2>1, <2>2, Zenon
<1>10. ServedInv'
  BY <1>2, <1>4, <1>8, <1>9 DEF ShortInv, ServedInv, OwnAnswersOnly
<1> QED
  BY <1>3, <1>4, <1>10, Zenon DEF ShortInv

\* main.go:161-204.  The packet holds the message, and the session is free.
LEMMA ShortInvEmit ==
  ASSUME ShortInv, NEW c \in Channels, Emit(c)
  PROVE  ShortInv' /\ (up' => \E v : v.chan = c /\ want' = Append(want, v))
<1> DEFINE p == Head(todo[c])
<1>1. todo[c] # <<>> /\ Rx(p) /\ ProgEmit(c)
  BY Zenon DEF Emit
<1>2. HInv /\ ProgInv /\ ServedInv
  BY Zenon DEF ShortInv
<1>3. p \in Packet /\ Sendable(msg[c]) /\ msg[c] # <<>>
  BY <1>1, <1>2, NextIsPacket, NextOfProgram, Zenon
<1>4. HInv' /\ outbound = <<>> /\ want \in Seq(Reply)
  BY <1>1, <1>2, <1>3, HInvRx, Zenon DEF HInv, StreamInv
<1>5. session = Fresh
  BY <1>2, <1>4, Zenon DEF ServedInv
<1>6. /\ ProgInv' /\ msg' = msg /\ inbox' = inbox /\ todo'[c] = Tail(todo[c])
      /\ \A d \in Channels \ {c} : todo'[d] = todo[d]
  BY <1>1, <1>2, ProgInvEmit, Zenon
<1>7. Count(msg[c]) = 1
  BY <1>2, Zenon DEF ServedInv, Count
<1>8. PICK k \in 0 .. Count(msg[c]) - 1 : Sent(c, k)
  BY <1>1, <1>2, NextOfProgram, Zenon
<1>9. k = 0 /\ 0 \in 0 .. Count(msg[c]) - 1 /\ 0 + 1 = Count(msg[c])
  BY <1>7
<1>10. p = FormatResponse(c, msg[c])[0 + 1] /\ Tail(todo[c]) = <<>>
  BY <1>8, <1>9, SentNext, Zenon
<1>11. ReadData(Fresh, p) = [ok |-> TRUE, s |-> HasRead(c, msg[c])]
  <2>1. ReadData(Reading(c, msg[c], 0), FormatResponse(c, msg[c])[0 + 1]) =
          [ok |-> TRUE,
           s |-> IF 0 + 1 = Count(msg[c]) THEN HasRead(c, msg[c]) ELSE Reading(c, msg[c], 0 + 1)]
    BY <1>3, <1>9, ReadsBack, Zenon
  <2>2. Reading(c, msg[c], 0) = Fresh
    BY Zenon DEF Reading
  <2> QED
    BY <1>9, <1>10, <2>1, <2>2, Zenon
<1> HIDE DEF p
<1> DEFINE s == ReadData(session, p).s
<1>12. /\ ReadData(session, p).ok /\ ~s.ShouldReadMore
       /\ s.channelID = c /\ s.data = msg[c]
  BY <1>5, <1>11 DEF HasRead
<1>13. inbox[c] = 0
  BY <1>1, <1>2, Zenon DEF ServedInv
<1>14. \A d \in Channels : /\ Len(msg'[d]) <= hidFrameMaxDataSize
                           /\ inbox'[d] <= 1
                           /\ todo'[d] # <<>> => inbox'[d] = 0
  BY <1>2, <1>6, <1>13, Zenon DEF ServedInv
<1>15. CASE Gone
  BY <1>4, <1>6, <1>14, <1>15 DEF Gone, ShortInv, ServedInv, OwnAnswersOnly
<1>16. CASE RxHandle(p)
  <2>1. PICK r \in Replies :
          /\ session' = s /\ closing' = TRUE
          /\ outbound' = FormatResponse(s.channelID, r)
          /\ want' = Append(want, [kind |-> "answer", chan |-> s.channelID,
                                   req |-> s.data, data |-> r])
    BY <1>16, Zenon DEF RxHandle
  <2> HIDE DEF s
  <2>2. PICK v : v = [kind |-> "answer", chan |-> c, req |-> msg[c], data |-> r]
    BY Zenon
  <2>3. v.kind = "answer" /\ v.chan = c /\ v.req = msg[c]
    BY <2>2, Zenon
  <2>4. want' = Append(want, v)
    BY <1>12, <2>1, <2>2, Zenon
  <2>5. /\ Len(want') = Len(want) + 1 /\ Len(want) \in Nat
        /\ want'[Len(want) + 1] = v /\ \A i \in 1 .. Len(want) : want'[i] = want[i]
    BY <1>4, <2>4
  <2>6. \A i \in 1 .. Len(want') : i = Len(want) + 1 \/ i \in 1 .. Len(want)
    BY <2>5
  <2>7. \A i \in 1 .. Len(want) : want[i].chan \in Channels \ {c}
    <3>1. \A i \in 1 .. Len(want) : want[i].chan \in Channels
      BY <1>4, ReplyFacts
    <3>2. \A i \in 1 .. Len(want) : todo[want[i].chan] = <<>>
      BY <1>2, Zenon DEF ServedInv, OwnAnswersOnly
    <3> QED
      BY <1>1, <3>1, <3>2, Zenon
  <2>8. outbound' # <<>>
    <3>1. Len(FormatResponse(c, r)) \in Nat \ {0}
      <4>1. Sendable(r)
        BY RepliesAssumption, Zenon DEF Sendable
      <4> QED
        BY <4>1, FormatResponseFacts, CountFacts, Zenon
    <3> QED
      BY <1>12, <2>1, <3>1, Zenon
  <2>9. \A i \in 1 .. Len(want') : inbox'[want'[i].chan] = 0 /\ msg'[want'[i].chan] # <<>>
    BY <1>2, <1>3, <1>6, <1>13, <2>3, <2>5, <2>6 DEF ServedInv
  <2>10. \A i, j \in 1 .. Len(want') : want'[i].chan = want'[j].chan => i = j
    BY <1>2, <2>3, <2>5, <2>6, <2>7, ZenonT(30) DEF ServedInv
  <2>11. OwnAnswersOnly'
    <3> SUFFICES ASSUME NEW i \in 1 .. Len(want')
                 PROVE  /\ want'[i].kind = "answer" /\ want'[i].req = msg'[want'[i].chan]
                        /\ todo'[want'[i].chan] = <<>>
      BY Zenon DEF OwnAnswersOnly
    <3>1. CASE i = Len(want) + 1
      BY <1>6, <1>10, <2>3, <2>5, <3>1, ZenonT(30)
    <3>2. CASE i \in 1 .. Len(want)
      <4>1. want'[i] = want[i]
        BY <2>5, <3>2, Zenon
      <4>2. /\ want[i].kind = "answer" /\ want[i].req = msg[want[i].chan]
            /\ todo[want[i].chan] = <<>>
        BY <1>2, <3>2, Zenon DEF ServedInv, OwnAnswersOnly
      <4>3. msg' = msg /\ todo'[want[i].chan] = todo[want[i].chan]
        BY <1>6, <2>7, <3>2, Zenon
      <4> QED
        BY <4>1, <4>2, <4>3, Zenon
    <3> QED
      BY <2>6, <3>1, <3>2, Zenon
  <2>12. ServedInv'
    BY <1>14, <2>1, <2>8, <2>9, <2>10, <2>11, Zenon DEF ServedInv
  <2> QED
    BY <1>4, <1>6, <2>3, <2>4, <2>12, Zenon DEF ShortInv
<1> QED
  BY <1>1, <1>5, <1>12, <1>15, <1>16, Zenon DEF Rx, RxOpen, RxRefuse, RxPanic

\* main.go:145-149, 196-202.  The answer is handed over, and the session dropped.
LEMMA ShortInvSend ==
  ASSUME ShortInv, DeviceSend
  PROVE  ShortInv'
<1>1. writeOutbound /\ msg' = msg /\ todo' = todo /\ inbox' = inbox
  BY Zenon DEF DeviceSend, progVars
<1>2. HInv'
  BY <1>1, HInvHanded, Zenon DEF ShortInv
<1>3. ProgInv'
  BY <1>1, Zenon DEF ShortInv, ProgInv, Sent
<1>4. /\ closing' = FALSE /\ want' = want
      /\ session' = IF closing THEN Fresh ELSE session
  BY <1>1, Zenon DEF writeOutbound, hostVars
<1>5. session' = Fresh
  BY <1>4, Zenon DEF ShortInv, ServedInv
<1>6. ServedInv'
  BY <1>1, <1>4, <1>5, Zenon DEF ShortInv, ServedInv, OwnAnswersOnly
<1> QED
  BY <1>2, <1>3, <1>6, Zenon DEF ShortInv

\* The program that the oldest reply answers reads its last packet.
LEMMA ShortInvDeliver ==
  ASSUME ShortInv, Deliver
  PROVE  /\ ShortInv' /\ msg' = msg /\ todo' = todo
         /\ want \in Seq(Reply) /\ want # <<>>
         /\ \/ want' = want /\ inbox' = inbox
            \/ /\ want' = Tail(want) /\ inbox'[want[1].chan] = 1
               /\ \A d \in Channels \ {want[1].chan} : inbox'[d] = inbox[d]
<1> DEFINE p == Head(tx)
<1>1. WriteChunk /\ ProgDeliver(p)
  BY Zenon DEF Deliver
<1>2. HInv /\ ProgInv /\ ServedInv /\ StreamInv /\ HInv'
  BY <1>1, HInvWritten, Zenon DEF ShortInv, HInv
<1>3. /\ tx # <<>> /\ session' = session /\ outbound' = outbound /\ closing' = closing
      /\ HostRead(p)
  BY <1>1, Zenon DEF WriteChunk
<1>4. want \in Seq(Reply) /\ want # <<>>
  BY <1>2, <1>3, StreamWrites, Zenon
<1>5. PICK w \in Reply : w = want[1]
  BY <1>2, <1>3, StreamWrites, Zenon
<1>6. PICK j \in 0 .. Count(w.data) - 1 : Writing(w, j)
  BY <1>2, <1>3, <1>5, StreamWrites, Zenon
<1>7. p.chan = w.chan
  BY <1>2, <1>3, <1>5, <1>6, StreamRight, Zenon
<1>8. w.chan \in Channels
  BY ReplyFacts, Zenon
<1> HIDE DEF p
<1>9. 1 \in 1 .. Len(want)
  BY <1>4
<1>10. inbox[w.chan] = 0 /\ msg[w.chan] # <<>> /\ todo[w.chan] = <<>>
  BY <1>2, <1>5, <1>9, Zenon DEF ServedInv, OwnAnswersOnly
<1>11. ProgInv' /\ msg' = msg /\ todo' = todo
  BY <1>1, <1>2, <1>7, <1>8, <1>10, ProgInvDeliver, Zenon
<1>12. CASE ~HostReplyEnds(p)
  <2>1. inbox' = inbox /\ want' = want
    BY <1>1, <1>3, <1>12, Zenon DEF ProgDeliver, HostRead
  <2>2. ServedInv'
    BY <1>2, <1>3, <1>11, <2>1, Zenon DEF ServedInv, OwnAnswersOnly
  <2> QED
    BY <1>2, <1>4, <1>11, <2>1, <2>2, Zenon DEF ShortInv
<1>13. CASE HostReplyEnds(p)
  <2>1. want' = Tail(want)
    BY <1>3, <1>13, Zenon DEF HostRead
  <2>2. inbox' = [inbox EXCEPT ![w.chan] = @ + 1]
    BY <1>1, <1>7, <1>10, <1>13, MessagesAssumption DEF ProgDeliver
  <2>3. inbox'[w.chan] = 1 /\ \A d \in Channels \ {w.chan} : inbox'[d] = inbox[d]
    BY <1>2, <1>8, <1>10, <2>2 DEF ProgInv
  <2>4. /\ Len(want') = Len(want) - 1 /\ Len(want) \in Nat
        /\ \A i \in 1 .. Len(want') : want'[i] = want[i + 1]
    BY <1>4, <2>1, HeadTailProperties
  <2>5. \A i \in 1 .. Len(want') : i + 1 \in 1 .. Len(want) /\ i + 1 # 1
    BY <2>4
  <2>6. \A i \in 1 .. Len(want') : want'[i].chan \in Channels \ {w.chan}
    <3>1. \A i \in 1 .. Len(want) : want[i].chan \in Channels
      BY <1>4, ReplyFacts
    <3>2. \A i \in 1 .. Len(want) : want[i].chan = want[1].chan => i = 1
      BY <1>2, <1>9, Zenon DEF ServedInv
    <3> QED
      BY <1>5, <2>4, <2>5, <3>1, <3>2, Zenon
  <2>7. \A d \in Channels : /\ Len(msg'[d]) <= hidFrameMaxDataSize
                            /\ inbox'[d] <= 1
                            /\ todo'[d] # <<>> => inbox'[d] = 0
    BY <1>2, <1>10, <1>11, <2>3 DEF ServedInv
  <2>8. \A i \in 1 .. Len(want') : inbox'[want'[i].chan] = 0 /\ msg'[want'[i].chan] # <<>>
    <3> SUFFICES ASSUME NEW i \in 1 .. Len(want')
                 PROVE  inbox'[want'[i].chan] = 0 /\ msg'[want'[i].chan] # <<>>
      BY Zenon
    <3>1. i + 1 \in 1 .. Len(want) /\ want'[i] = want[i + 1]
      BY <2>4, <2>5, Zenon
    <3>2. inbox[want'[i].chan] = 0 /\ msg[want'[i].chan] # <<>>
      BY <1>2, <3>1, Zenon DEF ServedInv
    <3> QED
      BY <1>11, <2>3, <2>6, <3>2, Zenon
  <2>9. \A i, k \in 1 .. Len(want') : want'[i].chan = want'[k].chan => i = k
    <3> SUFFICES ASSUME NEW i \in 1 .. Len(want'), NEW k \in 1 .. Len(want'),
                        want'[i].chan = want'[k].chan
                 PROVE  i = k
      BY Zenon
    <3>1. want[i + 1].chan = want[k + 1].chan /\ i + 1 \in 1 .. Len(want) /\ k + 1 \in 1 .. Len(want)
      BY <2>4, <2>5, Zenon
    <3>2. i + 1 = k + 1
      BY <1>2, <3>1, Zenon DEF ServedInv
    <3> QED
      BY <3>2
  <2>10. OwnAnswersOnly'
    BY <1>2, <1>11, <2>4, <2>5 DEF ServedInv, OwnAnswersOnly
  <2>11. ServedInv'
    BY <1>2, <1>3, <2>7, <2>8, <2>9, <2>10, Zenon DEF ServedInv
  <2> QED
    BY <1>2, <1>4, <1>5, <1>11, <2>1, <2>3, <2>11, ZenonT(30) DEF ShortInv
<1> QED
  BY <1>12, <1>13, Zenon

\* The invariant holds throughout.
LEMMA ShortInvHolds ==
  ASSUME Short
  PROVE  LinkSpec => []ShortInv
<1>1. LinkInit => ShortInv
  BY ShortInvInit, Zenon
<1>2. ShortInv /\ [LinkNext]_linkVars => ShortInv'
  <2> SUFFICES ASSUME ShortInv, [LinkNext]_linkVars PROVE ShortInv'
    BY Zenon
  <2>1. CASE UNCHANGED linkVars
    <3>1. UNCHANGED vars /\ msg' = msg /\ todo' = todo /\ inbox' = inbox
      BY <2>1, Zenon DEF linkVars, progVars
    <3>2. session' = session /\ outbound' = outbound /\ closing' = closing /\ want' = want
      BY <3>1, Zenon DEF vars, devVars, hostVars
    <3>3. HInv'
      BY <3>1, HInvStutter, Zenon DEF ShortInv
    <3> QED
      BY <3>1, <3>2, <3>3, Zenon DEF ShortInv, ProgInv, Sent, ServedInv, OwnAnswersOnly
  <2> QED
    BY <2>1, ShortInvBegin, ShortInvEmit, ShortInvSend, ShortInvDeliver, Zenon DEF LinkNext
<1> QED
  BY <1>1, <1>2, PTL DEF LinkSpec

\* main.go:161-204.  However many programs share the device, and in whatever order their
\* packets come, each reply answers the message of the program it goes to, provided that
\* every message fits one packet.
THEOREM ShortMessagesServed ==
  ASSUME Short
  PROVE  LinkSpec => []OnePacketMessagesServed
<1>1. ShortInv => OnePacketMessagesServed
  BY Zenon DEF ShortInv, ServedInv, OnePacketMessagesServed
<1> QED
  BY <1>1, ShortInvHolds, PTL

\* main.go:145-204.  No such message gets lost on its way: while the device is up, it has
\* still to be taken, or its answer is under way, or its program has the answer.
NoMessageLost ==
  up => \A c \in Channels :
          msg[c] # <<>> =>
            \/ todo[c] # <<>>
            \/ inbox[c] = 1
            \/ \E i \in 1 .. Len(want) : want[i].chan = c

\* The device and its programs hand a message on, or have its answer.
LEMMA NoMessageLostNext ==
  ASSUME Short, ShortInv, NoMessageLost, [LinkNext]_linkVars
  PROVE  NoMessageLost'
<1>1. want \in Seq(Reply) /\ ProgInv
  BY Zenon DEF ShortInv, HInv, StreamInv
<1>2. ASSUME NEW c \in Channels, Begin(c)
      PROVE  NoMessageLost'
  <2>1. up' = up /\ want' = want
    BY <1>2, Zenon DEF Begin, vars, devVars, hostVars
  <2>2. \A d \in Channels \ {c} : msg'[d] = msg[d] /\ todo'[d] = todo[d] /\ inbox'[d] = inbox[d]
    BY <1>1, <1>2, ProgInvStart, Zenon DEF Begin
  <2>3. todo'[c] # <<>>
    <3>1. PICK m \in Messages[c] : todo' = [todo EXCEPT ![c] = FormatResponse(c, m)]
      BY <1>2, Zenon DEF Begin, ProgStart
    <3>2. todo'[c] = FormatResponse(c, m)
      BY <1>1, <3>1, Zenon DEF ProgInv
    <3> QED
      BY <3>2, HasPackets, Zenon
  <2> QED
    BY <2>1, <2>2, <2>3, Zenon DEF NoMessageLost
<1>3. ASSUME NEW c \in Channels, Emit(c), up'
      PROVE  NoMessageLost'
  <2>1. msg' = msg /\ inbox' = inbox /\ \A d \in Channels \ {c} : todo'[d] = todo[d]
    BY <1>1, <1>3, ProgInvEmit, Zenon DEF Emit
  <2>2. PICK v : v.chan = c /\ want' = Append(want, v)
    BY <1>3, ShortInvEmit, Zenon
  <2>3. /\ Len(want) \in Nat /\ Len(want') = Len(want) + 1
        /\ want'[Len(want) + 1] = v /\ \A i \in 1 .. Len(want) : want'[i] = want[i]
    BY <1>1, <2>2
  <2>4. Len(want) + 1 \in 1 .. Len(want') /\ \A i \in 1 .. Len(want) : i \in 1 .. Len(want')
    BY <2>3
  <2>5. up
    BY <1>3, Zenon DEF Emit, Rx, RxOpen, RxHandle, RxRefuse, RxPanic, RxIdle
  <2> QED
    BY <2>1, <2>2, <2>3, <2>4, <2>5, ZenonT(30) DEF NoMessageLost
<1>4. CASE Deliver
  <2>1. /\ msg' = msg /\ todo' = todo /\ want # <<>> /\ up' = up
        /\ \/ want' = want /\ inbox' = inbox
           \/ /\ want' = Tail(want) /\ inbox'[want[1].chan] = 1
              /\ \A d \in Channels \ {want[1].chan} : inbox'[d] = inbox[d]
    BY <1>4, ShortInvDeliver, Zenon DEF Deliver, WriteChunk
  <2>2. CASE want' = want /\ inbox' = inbox
    BY <2>1, <2>2, Zenon DEF NoMessageLost
  <2>3. CASE /\ want' = Tail(want) /\ inbox'[want[1].chan] = 1
             /\ \A d \in Channels \ {want[1].chan} : inbox'[d] = inbox[d]
    <3>1. /\ Len(want') = Len(want) - 1 /\ Len(want) \in Nat
          /\ \A i \in 1 .. Len(want') : want'[i] = want[i + 1]
      BY <1>1, <2>1, <2>3, HeadTailProperties
    <3>2. \A i \in 1 .. Len(want) : i # 1 => i - 1 \in 1 .. Len(want') /\ want'[i - 1] = want[i]
      BY <3>1
    <3> SUFFICES ASSUME up, NEW d \in Channels, msg[d] # <<>>, d # want[1].chan
                 PROVE  \/ todo[d] # <<>>
                        \/ inbox[d] = 1
                        \/ \E i \in 1 .. Len(want') : want'[i].chan = d
      BY <2>1, <2>3, ZenonT(30) DEF NoMessageLost
    <3>3. ASSUME NEW i \in 1 .. Len(want), want[i].chan = d
          PROVE  \E k \in 1 .. Len(want') : want'[k].chan = d
      <4>1. i - 1 \in 1 .. Len(want') /\ want'[i - 1] = want[i]
        BY <3>2, <3>3, Zenon
      <4> QED
        BY <3>3, <4>1, Zenon
    <3> QED
      BY <3>3, Zenon DEF NoMessageLost
  <2> QED
    BY <2>1, <2>2, <2>3, Zenon
<1>5. CASE DeviceSend
  BY <1>5, Zenon DEF DeviceSend, writeOutbound, hostVars, progVars, NoMessageLost
<1>6. CASE UNCHANGED linkVars
  BY <1>6, Zenon DEF linkVars, vars, devVars, hostVars, progVars, NoMessageLost
<1>7. ~up' => NoMessageLost'
  BY Zenon DEF NoMessageLost
<1> QED
  BY <1>2, <1>3, <1>4, <1>5, <1>6, <1>7, Zenon DEF LinkNext

\* main.go:145-204.  So it is for any number of programs and any messages of one packet.
\* With RxAdvances, this is what EveryMessageAnswered rests on besides fairness.
THEOREM NoMessageIsLost ==
  ASSUME Short
  PROVE  LinkSpec => []NoMessageLost
<1>1. LinkInit => NoMessageLost
  <2> SUFFICES ASSUME LinkInit, NEW c \in Channels, msg[c] # <<>>
               PROVE  todo[c] # <<>>
    BY Zenon DEF NoMessageLost
  <2>1. msg[c] \in Messages[c] /\ todo[c] = FormatResponse(c, msg[c])
    BY Zenon DEF LinkInit, ProgInit
  <2> QED
    BY <2>1, HasPackets, Zenon
<1>2. ShortInv /\ NoMessageLost /\ [LinkNext]_linkVars => NoMessageLost'
  BY NoMessageLostNext, Zenon
<1> QED
  BY <1>1, <1>2, ShortInvHolds, PTL DEF LinkSpec
===============================================================================
