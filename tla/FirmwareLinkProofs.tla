-------------------------- MODULE FirmwareLinkProofs --------------------------
(***************************************************************************)
(* The firmware's hidHandler and programs that keep to the protocol, for   *)
(* every size of packet, every set of messages and every reply: the        *)
(* replies answer the programs' messages.                                  *)
(***************************************************************************)
EXTENDS FirmwareLink, FirmwareProofs

\* The device talks to programs that have a message.
WhoInv ==
  /\ session # Fresh => session.channelID \in Channels /\ msg[session.channelID] # <<>>
  /\ \A i \in 1 .. Len(want) : msg[want[i].chan] # <<>>

\* A session opened by the first packet of a message has read what was sent of it.
OpenInv ==
  up /\ ~closing /\ session # Fresh /\ openIdx = 0 =>
    LET c == session.channelID
    IN  \E k \in 1 .. Count(msg[c]) - 1 : session = Reading(c, msg[c], k) /\ Sent(c, k)

\* The exchange of a program that is alone: its packets are on their way to the device,
\* the answer is on its way to the program, or the program has it.
Sending(c) ==
  /\ want = <<>> /\ ~closing /\ inbox[c] = 0
  /\ \E k \in 0 .. Count(msg[c]) - 1 : session = Reading(c, msg[c], k) /\ Sent(c, k)

\* Rx drops the session with the last packet it sends.
Answering(c) ==
  /\ Len(want) = 1 /\ want[1].kind = "answer" /\ want[1].chan = c /\ want[1].req = msg[c]
  /\ todo[c] = <<>> /\ inbox[c] = 0
  /\ \/ outbound # <<>> /\ closing
     \/ outbound = <<>> /\ session = Fresh

\* The program has its reply, and the device is at rest.
Answered(c) ==
  /\ want = <<>> /\ ~closing /\ session = Fresh
  /\ todo[c] = <<>> /\ inbox[c] = 1

\* The exchanges of a program that is alone.
LoneInv ==
  \A c \in Channels :
    Alone(c) /\ msg[c] # <<>> =>
      IF up THEN Sending(c) \/ Answering(c) \/ Answered(c) ELSE want = <<>>

\* The inductive invariant of the handler with its programs.
LinkInv == HInv /\ ProgInv /\ WhoInv /\ OpenInv /\ LoneInv

-------------------------------------------------------------------------------
(* The handler and a packet of a program *)

\* wallera.go:31-87.  Rx panics, or reads the packet and waits for the next one, or
\* refuses it and leaves the session, or has a complete message and answers it.
LEMMA RxCases ==
  ASSUME HInv, NEW p \in Packet, Rx(p)
  PROVE  /\ up /\ ~closing /\ outbound = <<>>
         /\ want \in Seq(Reply)
         /\ \/ up' = FALSE /\ session' = session /\ closing' = closing /\ want' = want
            \/ /\ ReadData(session, p).ok /\ ReadData(session, p).s.ShouldReadMore
               /\ up' = up /\ session' = ReadData(session, p).s /\ closing' = closing /\ want' = want
            \/ /\ ~ReadData(session, p).ok /\ session # Fresh
               /\ up' = up /\ session' = session /\ closing' = closing
               /\ want' = want \o <<Rejection(session)>>
            \/ /\ ReadData(session, p).ok /\ ~ReadData(session, p).s.ShouldReadMore
               /\ up' = up /\ session' = ReadData(session, p).s /\ closing' = TRUE
               /\ outbound' # <<>>
               /\ \E r \in Replies : want' = want \o <<Answer(session', r)>>
<1> DEFINE read == ReadData(session, p)
<1>1. up /\ outbound = <<>>
  BY Zenon DEF Rx, RxContinue, RxHandle, RxPanic, RxIdle
<1>2. /\ closing = FALSE /\ session \in Session /\ (session = Fresh \/ Unfinished(session))
      /\ want \in Seq(Reply) /\ want \o <<>> = want
  BY <1>1 DEF HInv, SessionInv, StreamInv
<1>3. read.ok \in BOOLEAN /\ (~read.ok => read.s = session)
  BY <1>2, ReadDataFacts, Zenon
<1>4. CASE RxPanic(p)
  <2>1. up' = FALSE /\ session' = session /\ closing' = closing /\ want' = want
    BY <1>4, Zenon DEF RxPanic, hostVars
  <2> QED
    BY <1>1, <1>2, <2>1, Zenon
<1>5. CASE RxContinue(p)
  <2>1. /\ ~FirstPacketBad(p) /\ read.s.ShouldReadMore /\ session' = read.s
        /\ want' = want \o Refusal(read) /\ up' = up /\ closing' = closing
    BY <1>5, Zenon DEF RxContinue
  <2>2. ~read.ok => session # Fresh
    BY <2>1, Zenon DEF FirstPacketBad
  <2> HIDE DEF read
  <2>3. CASE read.ok
    <3>1. want' = want
      BY <1>2, <2>1, <2>3, Zenon DEF Refusal
    <3> QED
      BY <1>1, <1>2, <2>1, <2>3, <3>1, Zenon DEF read
  <2>4. CASE ~read.ok
    <3>1. want' = want \o <<Rejection(session)>> /\ session' = session
      BY <1>3, <2>1, <2>4, Zenon DEF Refusal
    <3> QED
      BY <1>1, <1>2, <2>1, <2>2, <2>4, <3>1, Zenon DEF read
  <2> QED
    BY <1>3, <2>3, <2>4, Zenon
<1>6. CASE RxHandle(p)
  <2>1. PICK r \in Replies :
          /\ ~read.s.ShouldReadMore /\ session' = read.s
          /\ want' = want \o Refusal(read) \o <<Answer(read.s, r)>>
          /\ up' = up /\ closing' = TRUE
    BY <1>6, Zenon DEF RxHandle
  <2>2. read.ok /\ HInv'
    BY <1>6, HInvRxHandle, Zenon
  <2>3. outbound' # <<>>
    BY <2>1, <2>2, Zenon DEF HInv, SessionInv
  <2> HIDE DEF read
  <2>4. want' = want \o <<Answer(session', r)>>
    BY <1>2, <2>1, <2>2, Zenon DEF Refusal
  <2> QED
    BY <1>1, <1>2, <2>1, <2>2, <2>3, <2>4, Zenon DEF read
<1> QED
  BY <1>4, <1>5, <1>6, Zenon DEF Rx

\* A program goes on with a message of which the session has read all that was sent: one
\* packet more is read, and after the last one the app is given the message.
LEMMA GoesOn ==
  ASSUME HInv, ProgInv, NEW c \in Channels, Emit(c),
         NEW k \in 0 .. Count(msg[c]) - 1, Sent(c, k), session = Reading(c, msg[c], k)
  PROVE  \/ up' = FALSE /\ closing' = closing /\ want' = want
         \/ /\ k + 1 \in 1 .. Count(msg[c]) - 1
            /\ up' /\ ~closing' /\ want' = want
            /\ session' = Reading(c, msg[c], k + 1) /\ Sent(c, k + 1)'
         \/ /\ up' /\ closing' /\ outbound' # <<>> /\ session' = HasRead(c, msg[c])
            /\ todo'[c] = <<>>
            /\ \E r \in Replies : want' = want \o <<Answer(session', r)>>
<1> DEFINE m == msg[c]
           p == Head(todo[c])
           n == Count(m)
           read == ReadData(session, p)
<1>1. /\ todo[c] # <<>> /\ Rx(p) /\ ProgEmit(c)
  BY Zenon DEF Emit
<1>2. Sendable(m) /\ n \in Nat \ {0}
  BY CountFacts, Zenon DEF Sent
<1>3. /\ p = FormatResponse(c, m)[k + 1] /\ p \in Packet
      /\ Tail(todo[c]) = SubSeq(FormatResponse(c, m), k + 2, n)
      /\ k + 1 = n => Tail(todo[c]) = <<>>
  <2>1. Carries(p, c, m, k + 1)
    BY SentNext, Zenon
  <2>2. p \in Packet
    BY <2>1, Zenon DEF Carries
  <2> QED
    BY <2>2, SentNext, Zenon
<1>4. msg' = msg /\ todo'[c] = Tail(todo[c])
  BY <1>1, ProgInvEmit, Zenon
<1>5. read = [ok |-> TRUE, s |-> IF k + 1 = n THEN HasRead(c, m) ELSE Reading(c, m, k + 1)]
  BY <1>2, <1>3, ReadsBack, Zenon
<1>6. k \in Nat /\ k + 1 # 0 /\ k <= n - 1
  BY <1>2
<1>7. k + 1 # n => Reading(c, m, k + 1).ShouldReadMore
  BY <1>6, Zenon DEF Reading
<1>8. ~HasRead(c, m).ShouldReadMore
  BY Zenon DEF HasRead
<1> HIDE DEF m, n
<1>9. read.ok /\ read.s = IF k + 1 = n THEN HasRead(c, m) ELSE Reading(c, m, k + 1)
  BY <1>5
<1> DEFINE rs == read.s
<1>10. \/ up' = FALSE /\ session' = session /\ closing' = closing /\ want' = want
       \/ /\ rs.ShouldReadMore
          /\ up' = up /\ session' = rs /\ closing' = closing /\ want' = want
       \/ /\ ~rs.ShouldReadMore
          /\ up' = up /\ session' = rs /\ closing' = TRUE
          /\ outbound' # <<>>
          /\ \E r \in Replies : want' = want \o <<Answer(session', r)>>
  BY <1>1, <1>3, <1>9, RxCases, Zenon
<1>11. up /\ ~closing
  BY <1>1, <1>3, RxCases, Zenon
<1>12. CASE k + 1 = n
  <2>1. rs = HasRead(c, m)
    BY <1>9, <1>12, Zenon
  <2> HIDE DEF rs
  <2>2. todo'[c] = <<>>
    BY <1>3, <1>4, <1>12, Zenon
  <2> QED
    BY <1>8, <1>10, <1>11, <2>1, <2>2, Zenon DEF m
<1>13. CASE k + 1 # n
  <2>1. rs = Reading(c, m, k + 1)
    BY <1>9, <1>13, Zenon
  <2> HIDE DEF rs
  <2>2. k + 1 \in 1 .. n - 1 /\ (k + 1) + 1 = k + 2
    BY <1>2, <1>6, <1>13
  <2>3. Sent(c, k + 1)'
    BY <1>2, <1>3, <1>4, <2>2, Zenon DEF Sent, m, n
  <2> QED
    BY <1>7, <1>10, <1>11, <1>13, <2>1, <2>2, <2>3, Zenon DEF m, n
<1> QED
  BY <1>12, <1>13, Zenon

\* A session that is open has a channel.
LEMMA OpenHasChannel ==
  ASSUME HInv, up, ~closing, session # Fresh
  PROVE  session.channelID \in Channels /\ session.channelID # 0
  BY Sizes, Zenon DEF HInv, SessionInv, Unfinished

\* A message that is answered or refused comes from a program that takes part.
LEMMA WhoInvEmit ==
  ASSUME HInv, ProgInv, WhoInv, NEW c \in Channels, Emit(c)
  PROVE  WhoInv'
<1> DEFINE p == Head(todo[c])
           read == ReadData(session, p)
<1>1. todo[c] # <<>> /\ Rx(p) /\ ProgEmit(c)
  BY Zenon DEF Emit
<1>2. p \in Packet /\ p.chan = c /\ msg[c] # <<>>
  BY <1>1, NextIsPacket, NextOfProgram, Zenon
<1>3. msg' = msg
  BY <1>1, ProgInvEmit, Zenon
<1>4. read.s = session \/ read.s.channelID = c
  BY <1>2, ReadsOnChannel, Zenon
<1>5. /\ want \in Seq(Reply)
      /\ session' = session \/ session' = read.s
      /\ \/ want' = want
         \/ session' # Fresh /\ want' = want \o <<Rejection(session')>>
         \/ ~session'.ShouldReadMore /\ \E r \in Replies : want' = want \o <<Answer(session', r)>>
  BY <1>1, <1>2, RxCases, Zenon
<1> HIDE DEF read, p
<1>6. session' # Fresh => session'.channelID \in Channels /\ msg[session'.channelID] # <<>>
  BY <1>2, <1>4, <1>5, Zenon DEF WhoInv
<1>7. \/ want' = want
      \/ \E v : want' = want \o <<v>> /\ v.chan = session'.channelID /\ session' # Fresh
  <2>1. ~session'.ShouldReadMore => session' # Fresh
    BY DEF Fresh
  <2>2. Rejection(session').chan = session'.channelID
    BY Zenon DEF Rejection
  <2>3. \A r \in Replies : Answer(session', r).chan = session'.channelID
    BY Zenon DEF Answer
  <2> QED
    BY <1>5, <2>1, <2>2, <2>3, Zenon
<1>8. ASSUME NEW v, want' = want \o <<v>>, v.chan = session'.channelID, session' # Fresh
      PROVE  \A i \in 1 .. Len(want') : msg[want'[i].chan] # <<>>
  <2>1. /\ Len(want') = Len(want) + 1 /\ Len(want) \in Nat
        /\ want'[Len(want) + 1] = v /\ \A i \in 1 .. Len(want) : want'[i] = want[i]
    BY <1>5, <1>8
  <2>2. msg[v.chan] # <<>>
    BY <1>6, <1>8, Zenon
  <2>3. \A i \in 1 .. Len(want) : msg[want[i].chan] # <<>>
    BY Zenon DEF WhoInv
  <2>4. \A i \in 1 .. Len(want') : i = Len(want) + 1 \/ i \in 1 .. Len(want)
    BY <2>1
  <2> QED
    BY <2>1, <2>2, <2>3, <2>4, Zenon
<1>9. \A i \in 1 .. Len(want') : msg[want'[i].chan] # <<>>
  BY <1>7, <1>8, Zenon DEF WhoInv
<1> QED
  BY <1>3, <1>6, <1>9, Zenon DEF WhoInv

\* wallera.go:34-54.  Packets of other programs leave an open session as it was, and those
\* of its own program are the next ones of the message.
LEMMA OpenInvEmit ==
  ASSUME HInv, ProgInv, OpenInv, NEW c \in Channels, Emit(c)
  PROVE  /\ OpenInv'
         /\ closing' /\ openIdx' = 0 =>
              session'.data = msg[session'.channelID] /\ todo'[session'.channelID] = <<>>
<1> DEFINE p == Head(todo[c])
<1>1. /\ todo[c] # <<>> /\ Rx(p) /\ ProgEmit(c)
      /\ openIdx' = IF session = Fresh THEN p.idx ELSE openIdx
  BY Zenon DEF Emit
<1>2. p \in Packet /\ p.chan = c
  BY <1>1, NextIsPacket, Zenon
<1>3. msg' = msg /\ \A d \in Channels \ {c} : todo'[d] = todo[d]
  BY <1>1, ProgInvEmit, Zenon
<1>4. up /\ ~closing
  BY <1>1, <1>2, RxCases, Zenon
<1>5. ASSUME NEW k \in 0 .. Count(msg[c]) - 1, Sent(c, k), session = Reading(c, msg[c], k)
      PROVE  /\ OpenInv'
             /\ closing' =>
                  session'.data = msg[session'.channelID] /\ todo'[session'.channelID] = <<>>
  <2>1. CASE up' = FALSE /\ closing' = closing /\ want' = want
    BY <1>4, <2>1, Zenon DEF OpenInv
  <2>2. CASE /\ k + 1 \in 1 .. Count(msg[c]) - 1
             /\ up' /\ ~closing' /\ want' = want
             /\ session' = Reading(c, msg[c], k + 1) /\ Sent(c, k + 1)'
    <3>1. session'.channelID = c
      <4>1. k + 1 # 0
        BY <2>2
      <4> QED
        BY <2>2, <4>1, Zenon DEF Reading
    <3> QED
      BY <1>3, <2>2, <3>1, Zenon DEF OpenInv
  <2>3. CASE closing' /\ session' = HasRead(c, msg[c]) /\ todo'[c] = <<>>
    BY <2>3, Zenon DEF OpenInv, HasRead
  <2> QED
    BY <1>5, <2>1, <2>2, <2>3, GoesOn, ZenonT(30)
<1>6. CASE session = Fresh
  <2>1. PICK k \in 0 .. Count(msg[c]) - 1 : Sent(c, k)
    BY <1>1, NextOfProgram, Zenon
  <2>2. p.idx = (k + 1) - 1
    BY <2>1, SentNext DEF Carries
  <2>3. CASE openIdx' = 0
    <3>1. k = 0
      BY <1>1, <1>6, <2>2, <2>3
    <3>2. session = Reading(c, msg[c], k)
      BY <1>6, <3>1, Zenon DEF Reading
    <3> QED
      BY <1>5, <2>1, <3>2, Zenon
  <2>4. CASE openIdx' # 0
    BY <2>4, Zenon DEF OpenInv
  <2> QED
    BY <2>3, <2>4, Zenon
<1>7. CASE session # Fresh /\ openIdx' = 0
  <2>1. openIdx = 0
    BY <1>1, <1>7, Zenon
  <2>2. PICK d \in Channels : d = session.channelID /\ d # 0
    BY <1>4, <1>7, OpenHasChannel, Zenon
  <2>3. PICK k \in 1 .. Count(msg[d]) - 1 : session = Reading(d, msg[d], k) /\ Sent(d, k)
    BY <1>4, <1>7, <2>1, <2>2, Zenon DEF OpenInv
  <2>4. CASE d = c
    <3>1. k \in 0 .. Count(msg[c]) - 1
      BY <2>4
    <3> QED
      BY <1>5, <2>3, <2>4, <3>1, Zenon
  <2>5. CASE d # c
    <3>1. ~ReadData(session, p).ok
      BY <1>2, <2>2, <2>5, OtherChannelRefused, Zenon
    <3>2. \/ up' = FALSE /\ closing' = closing
          \/ session' = session /\ closing' = closing
      BY <1>1, <1>2, <3>1, RxCases, Zenon
    <3>3. Sent(d, k)'
      BY <1>3, <2>3, <2>5, Zenon DEF Sent
    <3> QED
      BY <1>3, <1>4, <2>2, <2>3, <3>2, <3>3 DEF OpenInv
  <2> QED
    BY <2>4, <2>5, Zenon
<1>8. CASE openIdx' # 0
  BY <1>8, Zenon DEF OpenInv
<1> QED
  BY <1>6, <1>7, <1>8, Zenon

\* A program that is alone has its packets read one after the other.
LEMMA LoneInvEmit ==
  ASSUME HInv, ProgInv, LoneInv, NEW c \in Channels, Emit(c)
  PROVE  LoneInv'
<1> SUFFICES ASSUME NEW d \in Channels, Alone(d)', msg'[d] # <<>>
             PROVE  (IF up THEN Sending(d) \/ Answering(d) \/ Answered(d) ELSE want = <<>>)'
  BY ZenonT(30) DEF LoneInv
<1>1. todo[c] # <<>> /\ Rx(Head(todo[c])) /\ ProgEmit(c)
  BY Zenon DEF Emit
<1>2. msg' = msg /\ inbox' = inbox /\ msg[c] # <<>>
  BY <1>1, ProgInvEmit, NextOfProgram, Zenon
<1>3. d = c /\ Alone(c)
  BY <1>2, Zenon DEF Alone
<1>4. up /\ ~closing
  BY <1>1, NextIsPacket, RxCases, Zenon
<1>5. Sending(c)
  BY <1>1, <1>2, <1>3, <1>4, Zenon DEF LoneInv, Answering, Answered
<1>6. want = <<>> /\ inbox[c] = 0
  BY <1>5, Zenon DEF Sending
<1>7. PICK k \in 0 .. Count(msg[c]) - 1 : session = Reading(c, msg[c], k) /\ Sent(c, k)
  BY <1>5, Zenon DEF Sending
<1>8. CASE up' = FALSE /\ closing' = closing /\ want' = want
  BY <1>6, <1>8, Zenon
<1>9. CASE /\ k + 1 \in 1 .. Count(msg[c]) - 1
           /\ up' /\ ~closing' /\ want' = want
           /\ session' = Reading(c, msg[c], k + 1) /\ Sent(c, k + 1)'
  <2>1. k + 1 \in 0 .. Count(msg[c]) - 1
    BY <1>9
  <2>2. Sending(c)'
    BY <1>2, <1>6, <1>9, <2>1, Zenon DEF Sending
  <2> QED
    BY <1>3, <1>9, <2>2, Zenon
<1>10. CASE /\ up' /\ closing' /\ outbound' # <<>> /\ session' = HasRead(c, msg[c])
            /\ todo'[c] = <<>>
            /\ \E r \in Replies : want' = want \o <<Answer(session', r)>>
  <2>1. PICK r \in Replies : want' = want \o <<Answer(session', r)>>
    BY <1>10, Zenon
  <2> DEFINE v == Answer(session', r)
  <2>2. v.kind = "answer" /\ v.chan = c /\ v.req = msg[c]
    BY <1>10, ZenonT(30) DEF Answer, HasRead
  <2>3. want' = <<>> \o <<v>>
    BY <1>6, <2>1, Zenon
  <2> HIDE DEF v
  <2>4. Len(want') = 1 /\ want'[1] = v
    BY <2>3
  <2>5. Answering(c)'
    BY <1>2, <1>6, <1>10, <2>2, <2>4, Zenon DEF Answering
  <2> QED
    BY <1>3, <1>10, <2>5, Zenon
<1> QED
  BY <1>7, <1>8, <1>9, <1>10, GoesOn, ZenonT(30)

-------------------------------------------------------------------------------
(* The composition *)

\* Programs with a message each, and a handler with nothing to do.
LEMMA LinkInvInit == LinkInit => LinkInv
<1> SUFFICES ASSUME LinkInit PROVE LinkInv
  BY Zenon
<1>1. Init /\ ProgInit
  BY Zenon DEF LinkInit
<1>2. /\ up = TRUE /\ session = Fresh /\ closing = FALSE /\ want = <<>>
      /\ \A c \in Channels : inbox[c] = 0
  BY <1>1, Zenon DEF Init, DevInit, HostInit, ProgInit
<1>3. HInv /\ ProgInv
  BY <1>1, HInvInit, ProgInvInit, Zenon
<1>4. WhoInv
  BY <1>2 DEF WhoInv
<1>5. OpenInv
  BY <1>2, Zenon DEF OpenInv
<1>6. ASSUME NEW c \in Channels, msg[c] # <<>>
      PROVE  Sending(c)
  <2>1. msg[c] \in Messages[c] /\ todo[c] = FormatResponse(c, msg[c])
    BY <1>1, <1>6, Zenon DEF ProgInit
  <2>2. Sent(c, 0) /\ Count(msg[c]) \in Nat \ {0}
    BY <2>1, SentNothing, Zenon DEF Sent
  <2>3. 0 \in 0 .. Count(msg[c]) - 1 /\ session = Reading(c, msg[c], 0)
    BY <1>2, <2>2 DEF Reading
  <2> QED
    BY <1>2, <2>2, <2>3, Zenon DEF Sending
<1>7. LoneInv
  BY <1>2, <1>6, Zenon DEF LoneInv
<1> QED
  BY <1>3, <1>4, <1>5, <1>7, Zenon DEF LinkInv

\* A program begins another exchange.  It is not the one whose message is being read.
LEMMA LinkInvStart ==
  ASSUME LinkInv, NEW c \in Channels, Start(c)
  PROVE  LinkInv'
<1>1. ProgStart(c) /\ UNCHANGED vars /\ openIdx' = openIdx
  BY Zenon DEF Start
<1>2. up' = up /\ session' = session /\ outbound' = outbound /\ closing' = closing /\ want' = want
  BY <1>1, Zenon DEF vars, devVars, hostVars
<1>3. /\ ProgInv' /\ msg[c] # <<>> /\ msg'[c] # <<>> /\ todo[c] = <<>>
      /\ Sent(c, 0)' /\ 0 \in 0 .. Count(msg'[c]) - 1 /\ inbox'[c] = inbox[c] - 1
      /\ \A d \in Channels \ {c} : msg'[d] = msg[d] /\ todo'[d] = todo[d] /\ inbox'[d] = inbox[d]
  BY <1>1, ProgInvStart, Zenon DEF LinkInv
<1>4. HInv' /\ HInv
  BY <1>1, HInvStutter, Zenon DEF LinkInv
<1>5. \A d \in Channels : msg[d] # <<>> => msg'[d] # <<>>
  BY <1>3, Zenon
<1>6. WhoInv'
  <2>1. want \in Seq(Reply)
    BY <1>4, Zenon DEF HInv, StreamInv
  <2>2. \A i \in 1 .. Len(want) : want[i].chan \in Channels
    BY <2>1, ReplyFacts
  <2> QED
    BY <1>2, <1>5, <2>2, Zenon DEF LinkInv, WhoInv
<1>7. OpenInv'
  <2> SUFFICES ASSUME up, ~closing, session # Fresh, openIdx = 0
               PROVE  \E d \in Channels :
                        /\ d = session'.channelID
                        /\ \E k \in 1 .. Count(msg'[d]) - 1 :
                             session' = Reading(d, msg'[d], k) /\ Sent(d, k)'
    BY <1>1, <1>2, Zenon DEF OpenInv
  <2>1. PICK d \in Channels : d = session.channelID
    BY <1>4, OpenHasChannel, Zenon
  <2>2. PICK k \in 1 .. Count(msg[d]) - 1 : session = Reading(d, msg[d], k) /\ Sent(d, k)
    BY <2>1, Zenon DEF LinkInv, OpenInv
  <2>3. k \in 0 .. Count(msg[d]) - 1
    OBVIOUS
  <2>4. d # c
    BY <1>3, <2>2, <2>3, SentNext, Zenon
  <2>5. msg'[d] = msg[d] /\ todo'[d] = todo[d]
    BY <1>3, <2>4, Zenon
  <2>6. Sent(d, k)'
    BY <2>2, <2>5, Zenon DEF Sent
  <2>7. d = session'.channelID /\ session' = Reading(d, msg'[d], k)
    BY <1>2, <2>1, <2>2, <2>5, Zenon
  <2>8. k \in 1 .. Count(msg'[d]) - 1
    BY <2>5, Zenon
  <2> QED
    BY <2>6, <2>7, <2>8, ZenonT(30)
<1>8. LoneInv'
  <2> SUFFICES ASSUME NEW d \in Channels, Alone(d)', msg'[d] # <<>>
               PROVE  (IF up THEN Sending(d) \/ Answering(d) \/ Answered(d) ELSE want = <<>>)'
    BY Zenon DEF LoneInv
  <2>1. d = c
    BY <1>3, Zenon DEF Alone
  <2>2. Alone(c)
    BY <1>3, <2>1, Zenon DEF Alone
  <2>3. IF up THEN Sending(c) \/ Answering(c) \/ Answered(c) ELSE want = <<>>
    BY <1>3, <2>2, Zenon DEF LinkInv, LoneInv
  <2>4. inbox[c] # 0
    BY <1>3 DEF ProgInv
  <2>5. CASE ~up
    BY <1>2, <2>3, <2>5, Zenon
  <2>6. CASE up
    <3>1. Answered(c)
      BY <2>3, <2>4, <2>6, Zenon DEF Sending, Answering
    <3>2. session = Reading(c, msg'[c], 0) /\ inbox'[c] = 0
      BY <1>3, <3>1 DEF Answered, Reading
    <3>3. Sending(c)'
      BY <1>2, <1>3, <3>1, <3>2, Zenon DEF Sending, Answered
    <3> QED
      BY <2>1, <3>3, <1>2, <2>6, Zenon
  <2> QED
    BY <2>5, <2>6, Zenon
<1> QED
  BY <1>3, <1>4, <1>6, <1>7, <1>8, Zenon DEF LinkInv

\* wallera.go:25-29, 78-87.  The session is dropped with the last packet of its answer.
LEMMA LinkInvSend ==
  ASSUME LinkInv, DeviceSend
  PROVE  LinkInv'
<1>1. Send /\ msg' = msg /\ todo' = todo /\ inbox' = inbox /\ openIdx' = openIdx
  BY Zenon DEF DeviceSend, progVars, ghosts
<1>2. HInv /\ HInv' /\ StreamInv
  BY <1>1, HInvSend, Zenon DEF LinkInv, HInv
<1> DEFINE returns == Tail(outbound) = <<>>
<1>3. /\ up /\ outbound # <<>> /\ outbound' = Tail(outbound)
      /\ session' = IF returns /\ closing THEN Fresh ELSE session
      /\ closing' = (closing /\ ~returns)
      /\ up' = up /\ want' = want
  BY <1>1, Zenon DEF Send, hostVars
<1>4. closing \in BOOLEAN
  BY <1>2, Zenon DEF HInv, SessionInv
<1> HIDE DEF returns
<1>5. session' = Fresh \/ session' = session
  BY <1>3, Zenon
<1>6. ProgInv'
  BY <1>1, Zenon DEF LinkInv, ProgInv, Sent
<1>7. WhoInv'
  BY <1>1, <1>3, <1>5, Zenon DEF LinkInv, WhoInv
<1>8. OpenInv'
  <2>1. CASE closing
    BY <1>3, <2>1, Zenon DEF OpenInv
  <2>2. CASE ~closing
    BY <1>1, <1>3, <2>2, Zenon DEF LinkInv, OpenInv, Sent
  <2> QED
    BY <2>1, <2>2, Zenon
<1>9. LoneInv'
  <2> SUFFICES ASSUME NEW c \in Channels, Alone(c)', msg'[c] # <<>>
               PROVE  (IF up THEN Sending(c) \/ Answering(c) \/ Answered(c) ELSE want = <<>>)'
    BY Zenon DEF LoneInv
  <2>1. Alone(c) /\ msg[c] # <<>>
    BY <1>1, Zenon DEF Alone
  <2>2. want # <<>>
    BY <1>2, <1>3 DEF StreamInv, Quiet
  <2>3. Answering(c)
    BY <1>3, <2>1, <2>2, Zenon DEF LinkInv, LoneInv, Sending, Answered
  <2>4. closing
    BY <1>3, <2>3, Zenon DEF Answering
  <2>5. Answering(c)'
    <3>1. CASE returns
      BY <1>1, <1>3, <2>3, <2>4, <3>1, Zenon DEF Answering, returns
    <3>2. CASE ~returns
      BY <1>1, <1>3, <2>3, <2>4, <3>2, Zenon DEF Answering, returns
    <3> QED
      BY <3>1, <3>2, Zenon
  <2> QED
    BY <1>3, <2>5, Zenon
<1> QED
  BY <1>2, <1>6, <1>7, <1>8, <1>9, Zenon DEF LinkInv

\* The host polls a packet; the last one of a reply hands it to its program.
LEMMA LinkInvDeliver ==
  ASSUME LinkInv, Deliver
  PROVE  LinkInv'
<1> DEFINE p == tx[1]
<1>1. Poll /\ ProgDeliver(p) /\ openIdx' = openIdx
  BY Zenon DEF Deliver, ghosts
<1>2. HInv /\ HInv' /\ StreamInv /\ StreamInv' /\ want \in Seq(Reply)
  BY <1>1, HInvPoll, Zenon DEF LinkInv, HInv, StreamInv
<1>3. /\ up /\ up' = up /\ session' = session /\ outbound' = outbound /\ closing' = closing
      /\ tx # <<>> /\ HostRead(p)
  BY <1>1, Zenon DEF Poll
<1>4. want # <<>> /\ p.chan = want[1].chan /\ want[1] \in Reply
  BY <1>2, <1>3, StreamRight
<1>5. p.chan \in Channels /\ msg[p.chan] # <<>>
  BY <1>4, ReplyFacts DEF LinkInv, WhoInv
<1>6. ProgInv' /\ msg' = msg /\ todo' = todo
  BY <1>1, <1>5, ProgInvDeliver, Zenon DEF LinkInv
<1>7. \/ HostReplyEnds(p) /\ want' = Tail(want)
      \/ ~HostReplyEnds(p) /\ want' = want
  BY <1>3, Zenon DEF HostRead
<1>8. WhoInv'
  <2>1. \A i \in 1 .. Len(want') : \E j \in 1 .. Len(want) : want'[i] = want[j]
    <3>1. CASE want' = want
      BY <3>1, Zenon
    <3>2. CASE want' = Tail(want)
      <4>1. /\ Len(want') = Len(want) - 1 /\ Len(want) \in Nat
            /\ \A i \in 1 .. Len(want') : want'[i] = want[i + 1]
        BY <1>2, <1>4, <3>2, HeadTailProperties
      <4>2. \A i \in 1 .. Len(want') : i + 1 \in 1 .. Len(want)
        BY <4>1
      <4> QED
        BY <4>1, <4>2, Zenon
    <3> QED
      BY <1>7, <3>1, <3>2, Zenon
  <2> QED
    BY <1>3, <1>6, <2>1, Zenon DEF LinkInv, WhoInv
<1>9. OpenInv'
  BY <1>1, <1>3, <1>6, Zenon DEF LinkInv, OpenInv, Sent
<1>10. LoneInv'
  <2> SUFFICES ASSUME NEW c \in Channels, Alone(c)', msg'[c] # <<>>
               PROVE  (IF up THEN Sending(c) \/ Answering(c) \/ Answered(c) ELSE want = <<>>)'
    BY Zenon DEF LoneInv
  <2>1. Alone(c) /\ msg[c] # <<>>
    BY <1>6, Zenon DEF Alone
  <2>2. Answering(c)
    BY <1>3, <1>4, <2>1, Zenon DEF LinkInv, LoneInv, Sending, Answered
  <2>3. p.chan = c /\ inbox[c] = 0 /\ Len(want) = 1 /\ todo[c] = <<>>
    BY <1>4, <2>2, Zenon DEF Answering
  <2>4. CASE ~HostReplyEnds(p)
    <3>1. inbox' = inbox /\ want' = want
      BY <1>1, <1>7, <2>4, Zenon DEF ProgDeliver
    <3>2. Answering(c)'
      BY <1>3, <1>6, <2>2, <3>1, Zenon DEF Answering
    <3> QED
      BY <1>3, <3>2, Zenon
  <2>5. CASE HostReplyEnds(p)
    <3>1. want' = <<>>
      BY <1>2, <1>4, <1>7, <2>3, <2>5
    <3>2. outbound = <<>>
      BY <1>2, <1>3, <3>1 DEF StreamInv, Quiet
    <3>3. session = Fresh /\ ~closing
      BY <1>2, <2>2, <3>2, Zenon DEF Answering, HInv, SessionInv
    <3>4. inbox' = [inbox EXCEPT ![c] = @ + 1]
      BY <1>1, <2>3, <2>5, MessagesAssumption DEF ProgDeliver
    <3>5. inbox'[c] = 1
      BY <2>3, <3>4 DEF LinkInv, ProgInv
    <3>6. Answered(c)'
      BY <1>3, <1>6, <2>3, <3>1, <3>3, <3>5, Zenon DEF Answered
    <3> QED
      BY <1>3, <3>6, Zenon
  <2> QED
    BY <2>4, <2>5, Zenon
<1> QED
  BY <1>2, <1>6, <1>8, <1>9, <1>10, Zenon DEF LinkInv

\* A packet of a program is taken.
LEMMA LinkInvEmit ==
  ASSUME LinkInv, NEW c \in Channels, Emit(c)
  PROVE  LinkInv'
<1>1. HInv /\ ProgInv /\ WhoInv /\ OpenInv /\ LoneInv
  BY Zenon DEF LinkInv
<1>2. todo[c] # <<>> /\ Rx(Head(todo[c])) /\ ProgEmit(c)
  BY Zenon DEF Emit
<1>3. HInv'
  BY <1>1, <1>2, NextIsPacket, HInvRx, Zenon
<1>4. ProgInv'
  BY <1>1, <1>2, ProgInvEmit, Zenon
<1> QED
  BY <1>1, <1>3, <1>4, WhoInvEmit, OpenInvEmit, LoneInvEmit, Zenon DEF LinkInv

\* The invariant is inductive.
LEMMA LinkInvNext ==
  ASSUME LinkInv, [LinkNext]_linkVars
  PROVE  LinkInv'
<1>1. CASE UNCHANGED linkVars
  <2>1. UNCHANGED vars /\ msg' = msg /\ todo' = todo /\ inbox' = inbox /\ openIdx' = openIdx
    BY <1>1, Zenon DEF linkVars, progVars, ghosts
  <2>2. up' = up /\ session' = session /\ outbound' = outbound /\ closing' = closing /\ want' = want
    BY <2>1, Zenon DEF vars, devVars, hostVars
  <2>3. HInv'
    BY <2>1, HInvStutter, Zenon DEF LinkInv
  <2>4. ProgInv' /\ WhoInv' /\ OpenInv'
    BY <2>1, <2>2, Zenon DEF LinkInv, ProgInv, Sent, WhoInv, OpenInv
  <2>5. LoneInv'
    BY <2>1, <2>2, ZenonT(30) DEF LinkInv, LoneInv, Alone, Sending, Answering, Answered, Sent
  <2> QED
    BY <2>3, <2>4, <2>5, Zenon DEF LinkInv
<1> QED
  BY <1>1, LinkInvStart, LinkInvEmit, LinkInvSend, LinkInvDeliver, Zenon DEF LinkNext

\* The invariant holds throughout.
LEMMA LinkInvHolds == LinkSpec => []LinkInv
<1>1. LinkInit => LinkInv
  BY LinkInvInit, Zenon
<1>2. LinkInv /\ [LinkNext]_linkVars => LinkInv'
  BY LinkInvNext, Zenon
<1> QED
  BY <1>1, <1>2, PTL DEF LinkSpec

\* usb.go:313-375 with wallera.go:43-47, 78-80.  Programs too read exactly the replies the
\* handler decided on, packet for packet, however their messages interleave.
THEOREM ProgramsReadWhole == LinkSpec => []RepliesArriveWhole
<1>1. LinkInv => RepliesArriveWhole
  BY StreamRight, Zenon DEF LinkInv, HInv, RepliesArriveWhole
<1> QED
  BY <1>1, LinkInvHolds, PTL

\* wallera.go:31-87 and usb.go:196-276.  For every message and every number of channels, a
\* program that is alone on the bus is answered on its whole message and never refused.
THEOREM LoneProgramServed == LinkSpec => []OneProgramIsServed
<1>1. LinkInv => OneProgramIsServed
  <2> SUFFICES ASSUME LinkInv, NEW c \in Channels, Alone(c), NEW i \in 1 .. Len(want)
               PROVE  /\ want[i].kind = "answer" /\ want[i].req = msg[want[i].chan]
                      /\ todo[want[i].chan] = <<>>
    BY Zenon DEF OneProgramIsServed, OwnAnswersOnly
  <2>1. want \in Seq(Reply)
    BY Zenon DEF LinkInv, HInv, StreamInv
  <2>2. want[i].chan \in Channels /\ msg[want[i].chan] # <<>>
    BY <2>1, ReplyFacts DEF LinkInv, WhoInv
  <2>3. want[i].chan = c /\ msg[c] # <<>> /\ want # <<>>
    BY <2>2 DEF Alone
  <2>4. Answering(c)
    BY <2>3, Zenon DEF LinkInv, LoneInv, Sending, Answered
  <2>5. i = 1
    BY <2>4 DEF Answering
  <2> QED
    BY <2>3, <2>4, <2>5, Zenon DEF Answering
<1> QED
  BY <1>1, LinkInvHolds, PTL

\* usb.go:219-235 and wallera.go:34-83.  However the packets of programs interleave, a
\* message whose first packet opened the session reaches the app exactly as it was sent.
THEOREM MessagesIntact == LinkSpec => InterruptionsLeaveMessageIntact
<1> DEFINE Act == closing' /\ ~closing /\ openIdx' = 0 =>
                    LET c == session'.channelID
                    IN  session'.data = msg[c] /\ todo'[c] = <<>>
<1>1. LinkInv /\ [LinkNext]_linkVars => [Act]_linkVars
  <2> SUFFICES ASSUME LinkInv, LinkNext PROVE Act
    BY Zenon
  <2>1. ASSUME NEW c \in Channels, Start(c) PROVE closing' = closing
    BY <2>1, Zenon DEF Start, vars, devVars
  <2>2. ASSUME NEW c \in Channels, Emit(c) PROVE Act
    BY <2>2, OpenInvEmit, Zenon DEF LinkInv
  <2>3. CASE DeviceSend
    BY <2>3, Zenon DEF DeviceSend, Send
  <2>4. CASE Deliver
    BY <2>4, Zenon DEF Deliver, Poll
  <2> QED
    BY <2>1, <2>2, <2>3, <2>4, Zenon DEF LinkNext
<1> QED
  BY <1>1, LinkInvHolds, PTL DEF LinkSpec, InterruptionsLeaveMessageIntact

-------------------------------------------------------------------------------
(* Packets that are taken for first ones *)

\* Program c has sent some packets of its message and has more.
Midway(c) == todo[c] # <<>> /\ Head(todo[c]).idx # 0

\* While all it sent was read, the session is its own, and began with its first packet.
AllRead ==
  up => \A c \in Channels :
          Midway(c) /\ c \notin unread =>
            ~closing /\ session # Fresh /\ session.channelID = c /\ openIdx = 0

\* usb.go:240-246.  An open session reads no packet with index 0.
LEMMA ZeroIsNotRead ==
  ASSUME NEW s, NEW p, s.channelID # 0, p.idx = 0
  PROVE  ReadData(s, p).s = s
  BY DEF ReadData, ReadFrame, readFrame, HIDFrameNext, Fail

\* A message begins with a packet of index 0.
LEMMA FirstHasIndexZero ==
  ASSUME NEW c \in Channels, NEW m \in Messages[c]
  PROVE  Head(FormatResponse(c, m)).idx = 0
<1>1. Sendable(m) /\ Count(m) \in Nat \ {0}
  BY SentNothing, Zenon
<1>2. 1 \in 1 .. Count(m)
  BY <1>1
<1>3. Carries(FormatResponse(c, m)[1], c, m, 1)
  BY <1>1, <1>2, FormatResponseFacts, Zenon
<1>4. FormatResponse(c, m)[1].idx = 0
  BY <1>3 DEF Carries
<1>5. FormatResponse(c, m) \in Seq(Packet) /\ FormatResponse(c, m) # <<>>
  BY SentNothing, HasPackets, Zenon
<1>6. \A s \in Seq(Packet) : s # <<>> => Head(s) = s[1]
  OBVIOUS
<1> QED
  BY <1>4, <1>5, <1>6, Zenon

\* Nobody is midway at first.
LEMMA AllReadInit == LinkInit => AllRead
<1> SUFFICES ASSUME LinkInit, NEW c \in Channels PROVE ~Midway(c)
  BY Zenon DEF AllRead
<1>1. /\ msg[c] \in Messages[c] \cup {<<>>}
      /\ todo[c] = IF msg[c] = <<>> THEN <<>> ELSE FormatResponse(c, msg[c])
  BY Zenon DEF LinkInit, ProgInit
<1> QED
  BY <1>1, FirstHasIndexZero, Zenon DEF Midway

\* A packet of program c is taken.
LEMMA AllReadEmit ==
  ASSUME LinkInv, AllRead, NEW c \in Channels, Emit(c)
  PROVE  AllRead'
<1> DEFINE p == Head(todo[c])
           read == ReadData(session, p)
<1>1. /\ todo[c] # <<>> /\ Rx(p) /\ ProgEmit(c)
      /\ openIdx' = IF session = Fresh THEN p.idx ELSE openIdx
      /\ unread' = IF read.s = session THEN unread \cup {c} ELSE unread
  BY Zenon DEF Emit
<1>2. HInv /\ ProgInv /\ OpenInv
  BY Zenon DEF LinkInv
<1>3. p \in Packet /\ p.chan = c /\ \A d \in Channels \ {c} : todo'[d] = todo[d]
  BY <1>1, <1>2, NextIsPacket, ProgInvEmit, Zenon
<1>4. /\ up /\ closing = FALSE
      /\ \/ up' = FALSE
         \/ session' = session /\ closing' = closing /\ ~read.ok
         \/ read.ok /\ session' = read.s /\ closing' = closing
         \/ read.ok /\ session' = read.s /\ closing' = TRUE
  <2>1. up /\ ~closing /\ closing \in BOOLEAN
    BY <1>1, <1>2, <1>3, RxCases, Zenon DEF HInv, SessionInv
  <2> QED
    BY <1>1, <1>2, <1>3, <2>1, RxCases, Zenon
<1>5. ~read.ok => read.s = session
  <2>1. session \in Session /\ (session = Fresh \/ Unfinished(session))
    BY <1>1, <1>2, <1>4, Zenon DEF HInv, SessionInv
  <2> QED
    BY <1>3, <2>1, ReadDataFacts, Zenon
<1>6. read.s = session \/ read.s.channelID = c
  BY <1>3, ReadsOnChannel, Zenon
<1>7. c # 0 /\ Fresh.channelID = 0
  BY Sizes DEF Fresh
<1>8. closing' /\ openIdx' = 0 => todo'[session'.channelID] = <<>>
  BY <1>2, OpenInvEmit, Zenon
<1>9. session # Fresh /\ read.s # session => p.idx # 0
  <2>1. session # Fresh => session.channelID # 0
    BY <1>2, <1>4, OpenHasChannel, Zenon
  <2> QED
    BY <2>1, ZeroIsNotRead, Zenon
<1> HIDE DEF read
<1> SUFFICES ASSUME up', NEW d \in Channels, Midway(d)', d \notin unread'
             PROVE  ~closing' /\ session' # Fresh /\ session'.channelID = d /\ openIdx' = 0
  BY Zenon DEF AllRead
<1>10. d \notin unread
  BY <1>1, Zenon
<1>11. CASE d # c
  <2>1. session # Fresh /\ session.channelID = d /\ openIdx = 0
    BY <1>3, <1>4, <1>10, <1>11, Zenon DEF Midway, AllRead
  <2>2. d # 0
    BY Sizes, Zenon
  <2>3. ~read.ok
    BY <1>3, <1>11, <2>1, <2>2, OtherChannelRefused, Zenon DEF read
  <2> QED
    BY <1>1, <1>4, <2>1, <2>3, Zenon
<1>12. CASE d = c
  <2>1. read.s # session /\ read.ok
    BY <1>1, <1>5, <1>12, Zenon
  <2>2. openIdx' = 0
    <3>1. CASE session = Fresh
      BY <1>1, <1>4, <1>10, <1>12, <3>1, Zenon DEF AllRead, Midway
    <3>2. CASE session # Fresh
      BY <1>1, <1>4, <1>9, <1>10, <1>12, <2>1, <3>2, Zenon DEF AllRead, Midway
    <3> QED
      BY <3>1, <3>2
  <2>3. session' = read.s /\ session'.channelID = c
    BY <1>4, <1>6, <2>1, Zenon
  <2>4. ~closing'
    BY <1>8, <1>12, <2>2, <2>3, Zenon DEF Midway
  <2> QED
    BY <1>7, <1>12, <2>2, <2>3, <2>4, Zenon
<1> QED
  BY <1>11, <1>12, Zenon

\* The invariant is inductive.
LEMMA AllReadNext ==
  ASSUME LinkInv, AllRead, [LinkNext]_linkVars
  PROVE  AllRead'
<1>1. ASSUME NEW c \in Channels, Start(c) PROVE AllRead'
  <2>1. /\ ProgStart(c) /\ unread' = unread \ {c} /\ openIdx' = openIdx
        /\ up' = up /\ session' = session /\ closing' = closing
    BY <1>1, Zenon DEF Start, vars, devVars
  <2>2. PICK m \in Messages[c] : todo' = [todo EXCEPT ![c] = FormatResponse(c, m)]
    BY <2>1, Zenon DEF ProgStart
  <2>3. todo \in [Channels -> Seq(Packet)]
    BY Zenon DEF LinkInv, ProgInv
  <2>4. todo'[c] = FormatResponse(c, m) /\ \A d \in Channels \ {c} : todo'[d] = todo[d]
    BY <2>2, <2>3, Zenon
  <2>5. ~Midway(c)'
    BY <2>4, FirstHasIndexZero, Zenon DEF Midway
  <2> QED
    BY <2>1, <2>4, <2>5, Zenon DEF AllRead, Midway
<1>2. CASE DeviceSend
  <2>1. /\ up' = up /\ openIdx' = openIdx /\ unread' = unread /\ todo' = todo
        /\ closing \/ session' = session
        /\ closing' => closing
    BY <1>2, Zenon DEF DeviceSend, Send, progVars, ghosts
  <2> QED
    BY <2>1, Zenon DEF AllRead, Midway
<1>3. CASE Deliver
  <2>1. /\ up' = up /\ openIdx' = openIdx /\ unread' = unread /\ todo' = todo
        /\ session' = session /\ closing' = closing
    BY <1>3, Zenon DEF Deliver, Poll, ProgDeliver, ghosts
  <2> QED
    BY <2>1, Zenon DEF AllRead, Midway
<1>4. CASE UNCHANGED linkVars
  <2>1. /\ up' = up /\ openIdx' = openIdx /\ unread' = unread /\ todo' = todo
        /\ session' = session /\ closing' = closing
    BY <1>4, Zenon DEF linkVars, vars, devVars, progVars, ghosts
  <2> QED
    BY <2>1, Zenon DEF AllRead, Midway
<1> QED
  BY <1>1, <1>2, <1>3, <1>4, AllReadEmit, Zenon DEF LinkNext

\* usb.go:196-235 and wallera.go:34-54.  For every number of programs and every message, a
\* packet from the middle of a message opens a session only after one of it was not read.
THEOREM MisreadsExplained == LinkSpec => OnlyUnreadAreMisread
<1> DEFINE Act == session = Fresh /\ session' # Fresh /\ openIdx' # 0 =>
                    session'.channelID \in unread
<1>1. LinkInv /\ AllRead /\ [LinkNext]_linkVars => [Act]_linkVars
  <2> SUFFICES ASSUME LinkInv, AllRead, LinkNext, session = Fresh, session' # Fresh, openIdx' # 0
               PROVE  session'.channelID \in unread
    BY Zenon
  <2>1. ASSUME NEW c \in Channels, Start(c) PROVE FALSE
    BY <2>1, Zenon DEF Start, vars, devVars
  <2>2. ASSUME NEW c \in Channels, Emit(c) PROVE session'.channelID \in unread
    <3> DEFINE p == Head(todo[c])
    <3>1. todo[c] # <<>> /\ Rx(p) /\ openIdx' = p.idx
      BY <2>2, Zenon DEF Emit
    <3>2. p \in Packet /\ p.chan = c /\ HInv
      BY <3>1, NextIsPacket, Zenon DEF LinkInv
    <3>3. up /\ session' = ReadData(session, p).s
      BY <3>1, <3>2, RxCases, Zenon
    <3>4. session'.channelID = c
      BY <3>2, <3>3, ReadsOnChannel, Zenon
    <3> QED
      BY <3>1, <3>3, <3>4, Zenon DEF AllRead, Midway
  <2>3. CASE DeviceSend
    BY <2>3, Zenon DEF DeviceSend, Send
  <2>4. CASE Deliver
    BY <2>4, Zenon DEF Deliver, Poll
  <2> QED
    BY <2>1, <2>2, <2>3, <2>4, Zenon DEF LinkNext
<1>2. LinkInv /\ AllRead /\ [LinkNext]_linkVars => AllRead'
  BY AllReadNext, Zenon
<1> QED
  BY <1>1, <1>2, AllReadInit, LinkInvHolds, PTL DEF LinkSpec, OnlyUnreadAreMisread

-------------------------------------------------------------------------------
(* What the exchanges rest on besides fairness *)

\* A step of the handler and its programs is, for the handler, a step of its own.
LEMMA LinkIsAnyStep ==
  ASSUME LinkInv, [LinkNext]_linkVars
  PROVE  [AnyStep]_vars
<1>1. ASSUME NEW c \in Channels, Emit(c)
      PROVE  AnyStep
  <2>1. todo[c] # <<>> /\ Rx(Head(todo[c]))
    BY <1>1, Zenon DEF Emit
  <2>2. Head(todo[c]) \in Packet
    BY <2>1, NextIsPacket, Zenon DEF LinkInv
  <2> QED
    BY <2>1, <2>2, Zenon DEF AnyStep
<1> QED
  BY <1>1, Zenon DEF LinkNext, linkVars, Start, DeviceSend, Deliver, AnyStep

\* wallera.go:22-87.  Programs that keep to the protocol are one of the hosts that the
\* handler may meet, whether or not HostPackets has their packets: it keeps its types,
\* leaves no complete session behind, is the port of HidPort to them, and Rx advances.
THEOREM ProgramsSeePort ==
  LinkSpec => /\ [](TypeOK /\ NoCompleteSessionAtRest)
              /\ Promised!Spec
              /\ RxAdvances
<1>1. LinkInit => Promised!Init
  BY InitOfPort, Zenon DEF LinkInit
<1>2. LinkInv /\ [LinkNext]_linkVars => [Promised!Next]_Promised!vars
  BY LinkIsAnyStep, StepsOfPort, Zenon DEF LinkInv
<1>3. LinkInv => TypeOK /\ NoCompleteSessionAtRest
  BY HInvTypeOK, HInvAtRest, Zenon DEF LinkInv
<1>4. LinkInv /\ [LinkNext]_linkVars => [up /\ outbound # <<>> => Left' < Left]_vars
  BY LinkIsAnyStep, SendingShrinks, Zenon DEF LinkInv
<1> QED
  BY <1>1, <1>2, <1>3, <1>4, LinkInvHolds, PTL DEF LinkSpec, Promised!Spec, RxAdvances

\* No reply is decided on, and no packet under way.
LEMMA NothingUnderWay ==
  ASSUME StreamInv, want = <<>>
  PROVE  Quiet
<1>1. Len(want) = 0
  OBVIOUS
<1>2. Len(want) # 1 /\ Len(want) # 2
  BY <1>1
<1> QED
  BY <1>2, Zenon DEF StreamInv

\* A reply is, and a packet of it with Rx or Tx.
LEMMA SomethingUnderWay ==
  ASSUME StreamInv, Len(want) = 1
  PROVE  tx # <<>> \/ outbound # <<>>
<1>1. want \in Seq(Reply) /\ want # <<>> /\ Len(want) # 2
  BY DEF StreamInv
<1>2. want[1] \in Reply
  BY <1>1, Places, ElementOfSeq, Zenon
<1>3. PICK w \in Reply : w = want[1]
  BY <1>2, Zenon
<1>4. PICK j \in 0 .. Count(w.data) - 1 : UnderWay(w, j)
  BY <1>1, <1>3, Zenon DEF StreamInv
<1>5. Count(w.data) \in Nat \ {0}
  BY ReplyFacts, Zenon
<1>6. j \in 0 .. Count(w.data) /\ j # Count(w.data)
  BY <1>5
<1>7. SubSeq(Packets(w), j + 1, Count(w.data)) # <<>>
  BY <1>6, RestFacts, Zenon
<1>8. tx = <<>> \/ tx = <<Packets(w)[j + 1]>>
  BY <1>4, Zenon DEF UnderWay
<1>9. <<Packets(w)[j + 1]>> # <<>>
  OBVIOUS
<1> QED
  BY <1>4, <1>7, <1>9, Zenon DEF UnderWay

\* The other programs do nothing while one is alone.
LEMMA LoneSteps ==
  ASSUME ProgInv, LinkNext, NEW c \in Channels, Alone(c)
  PROVE  (todo[c] = <<>> /\ inbox[c] > 0) \/ Emit(c) \/ DeviceSend \/ Deliver
<1>1. ASSUME NEW d \in Channels, d # c
      PROVE  ~Start(d) /\ ~Emit(d)
  <2>1. todo[d] = <<>> /\ inbox[d] = 0
    BY <1>1, TakesNoPart, Zenon DEF Alone
  <2>2. ~(inbox[d] > 0)
    BY <2>1
  <2> QED
    BY <2>1, <2>2, Zenon DEF Start, Emit, ProgStart
<1> QED
  BY <1>1, Zenon DEF LinkNext, Start, ProgStart

\* It has a message if there is anything to do.
LEMMA LoneHasMessage ==
  ASSUME LinkInv, NEW c \in Channels, Alone(c), todo[c] # <<>> \/ want # <<>>
  PROVE  msg[c] # <<>>
<1>1. ASSUME want # <<>> PROVE msg[c] # <<>>
  <2>1. want \in Seq(Reply)
    BY Zenon DEF LinkInv, HInv, StreamInv
  <2>2. 1 \in 1 .. Len(want)
    BY <1>1, <2>1
  <2>3. want[1].chan \in Channels /\ msg[want[1].chan] # <<>>
    BY <2>1, <2>2, ElementOfSeq, ReplyFacts, Zenon DEF LinkInv, WhoInv
  <2> QED
    BY <2>3, Zenon DEF Alone
<1> QED
  BY <1>1, TakesNoPart, Zenon DEF LinkInv

\* wallera.go:31-87.  It is always somebody's turn: the device takes the next packet of a
\* program that is alone, or the host polls a packet, or Rx hands one to Tx, or the program
\* has its answer.  Nobody waits for one who waits.
LoneTurn ==
  \A c \in Channels :
    up /\ Alone(c) /\ msg[c] # <<>> =>
      \/ todo[c] # <<>> /\ RxIdle
      \/ todo[c] = <<>> /\ tx # <<>>
      \/ todo[c] = <<>> /\ tx = <<>> /\ outbound # <<>>
      \/ todo[c] = <<>> /\ inbox[c] = 1

\* wallera.go:31-87.  So it is for every message, reply and size of packet.  With
\* LoneAdvances, this is what EveryMessageAnswered rests on besides fairness.
THEOREM LoneTurnHolds == LinkSpec => []LoneTurn
<1>1. LinkInv => LoneTurn
  <2> SUFFICES ASSUME LinkInv, NEW c \in Channels, up, Alone(c), msg[c] # <<>>
               PROVE  \/ todo[c] # <<>> /\ RxIdle
                      \/ todo[c] = <<>> /\ (tx # <<>> \/ outbound # <<>>)
                      \/ todo[c] = <<>> /\ inbox[c] = 1
    BY Zenon DEF LoneTurn
  <2>1. StreamInv
    BY Zenon DEF LinkInv, HInv
  <2>2. CASE Sending(c)
    <3>1. want = <<>> /\ \E k \in 0 .. Count(msg[c]) - 1 : Sent(c, k)
      BY <2>2, Zenon DEF Sending
    <3> QED
      BY <2>1, <3>1, NothingUnderWay, SentNext, Zenon DEF Quiet, RxIdle
  <2>3. CASE Answering(c)
    BY <2>1, <2>3, SomethingUnderWay, Zenon DEF Answering
  <2>4. CASE Answered(c)
    BY <2>4, Zenon DEF Answered
  <2> QED
    BY <2>2, <2>3, <2>4, Zenon DEF LinkInv, LoneInv
<1> QED
  BY <1>1, LinkInvHolds, PTL

\* wallera.go:31-87.  And every turn counts: until a program that is alone has its answer,
\* each step takes a packet of its message off, or brings the answer nearer to it.
LoneAdvances ==
  [][\A c \in Channels :
       up /\ Alone(c) /\ (todo[c] # <<>> \/ want # <<>>) =>
         \/ Len(todo'[c]) < Len(todo[c])
         \/ todo'[c] = todo[c] /\ Left' < Left]_linkVars

\* wallera.go:31-87.  So it is for every message, reply and size of packet.
THEOREM LoneAlwaysAdvances == LinkSpec => LoneAdvances
<1> DEFINE Act == \A c \in Channels :
                    up /\ Alone(c) /\ (todo[c] # <<>> \/ want # <<>>) =>
                      \/ Len(todo'[c]) < Len(todo[c])
                      \/ todo'[c] = todo[c] /\ Left' < Left
<1>1. LinkInv /\ [LinkNext]_linkVars => [Act]_linkVars
  <2> SUFFICES ASSUME LinkInv, LinkNext, NEW c \in Channels, up, Alone(c),
                      todo[c] # <<>> \/ want # <<>>
               PROVE  \/ Len(todo'[c]) < Len(todo[c])
                      \/ todo'[c] = todo[c] /\ Left' < Left
    BY Zenon
  <2>1. HInv /\ ProgInv /\ StreamInv
    BY Zenon DEF LinkInv, HInv
  <2>2. (todo[c] = <<>> /\ inbox[c] > 0) \/ Emit(c) \/ DeviceSend \/ Deliver
    BY <2>1, LoneSteps, Zenon
  <2>3. msg[c] # <<>>
    BY <2>1, LoneHasMessage, Zenon
  <2>4. CASE Emit(c)
    <3>1. todo'[c] = Tail(todo[c]) /\ todo[c] # <<>> /\ todo[c] \in Seq(Packet)
      BY <2>1, <2>4, ProgInvEmit, Zenon DEF Emit, ProgInv
    <3>2. Len(todo'[c]) = Len(todo[c]) - 1 /\ Len(todo[c]) \in Nat
      BY <3>1, HeadTailProperties
    <3> QED
      BY <3>2
  <2>5. CASE DeviceSend \/ Deliver
    BY <2>1, <2>5, Shrinks, Zenon DEF DeviceSend, Deliver, progVars, ProgDeliver
  <2>6. ~(todo[c] = <<>> /\ inbox[c] > 0)
    <3>1. SUFFICES ASSUME todo[c] = <<>> PROVE inbox[c] = 0
      BY <2>1 DEF ProgInv
    <3>2. Answering(c)
      BY <2>3, <3>1, Zenon DEF LinkInv, LoneInv, Sending, Answered
    <3> QED
      BY <3>2, Zenon DEF Answering
  <2> QED
    BY <2>2, <2>4, <2>5, <2>6, Zenon
<1> QED
  BY <1>1, LinkInvHolds, PTL DEF LinkSpec, LoneAdvances

\* wallera.go:40-54.  A session that began with the first packet of a message waits for its
\* own program, which has more to send; only a packet of that program moves it.
SessionWaitsForOwn ==
  [][up /\ ~closing /\ session # Fresh /\ openIdx = 0 =>
       LET c == session.channelID
       IN  /\ todo[c] # <<>>
           /\ \/ todo'[c] = Tail(todo[c])
              \/ todo'[c] = todo[c] /\ session' = session /\ closing' = closing]_linkVars

\* wallera.go:40-54.  So it is however many programs there are, whatever they send.  With
\* RxAdvances, this is what OpenSessionsEnd rests on besides fairness.
THEOREM SessionsWaitForOwn == LinkSpec => SessionWaitsForOwn
<1> DEFINE Act == up /\ ~closing /\ session # Fresh /\ openIdx = 0 =>
                    LET c == session.channelID
                    IN  /\ todo[c] # <<>>
                        /\ \/ todo'[c] = Tail(todo[c])
                           \/ todo'[c] = todo[c] /\ session' = session /\ closing' = closing
<1>1. LinkInv /\ [LinkNext]_linkVars => [Act]_linkVars
  <2> SUFFICES ASSUME LinkInv, LinkNext, up, ~closing, session # Fresh, openIdx = 0
               PROVE  \E c \in Channels :
                        /\ c = session.channelID
                        /\ todo[c] # <<>>
                        /\ \/ todo'[c] = Tail(todo[c])
                           \/ todo'[c] = todo[c] /\ session' = session /\ closing' = closing
    BY Zenon
  <2>1. HInv /\ ProgInv /\ OpenInv
    BY Zenon DEF LinkInv
  <2>2. PICK c \in Channels : c = session.channelID
    BY <2>1, OpenHasChannel, Zenon
  <2>3. todo[c] # <<>>
    <3>1. PICK k \in 1 .. Count(msg[c]) - 1 : Sent(c, k)
      BY <2>1, <2>2, Zenon DEF OpenInv
    <3>2. k \in 0 .. Count(msg[c]) - 1
      OBVIOUS
    <3> QED
      BY <3>1, <3>2, SentNext, Zenon
  <2>4. ASSUME NEW d \in Channels, Start(d)
        PROVE  todo'[c] = todo[c] /\ session' = session /\ closing' = closing
    <3>1. /\ session' = session /\ closing' = closing /\ todo[d] = <<>>
          /\ \A e \in Channels \ {d} : todo'[e] = todo[e]
      BY <2>1, <2>4, ProgInvStart, Zenon DEF Start, vars, devVars
    <3> QED
      BY <2>3, <3>1, Zenon
  <2>5. ASSUME NEW d \in Channels, Emit(d)
        PROVE  \/ todo'[c] = Tail(todo[c])
               \/ todo'[c] = todo[c] /\ session' = session /\ closing' = closing
    <3>1. /\ todo'[d] = Tail(todo[d]) /\ todo[d] # <<>> /\ Rx(Head(todo[d]))
          /\ \A e \in Channels \ {d} : todo'[e] = todo[e]
      BY <2>1, <2>5, ProgInvEmit, Zenon DEF Emit
    <3>2. CASE d # c
      <4> DEFINE p == Head(todo[d])
      <4>1. p \in Packet /\ p.chan = d
        BY <2>1, <3>1, NextIsPacket, Zenon
      <4>2. session.channelID # 0
        BY <2>2, Sizes, Zenon
      <4>3. ~ReadData(session, p).ok
        BY <2>2, <3>2, <4>1, <4>2, OtherChannelRefused, Zenon
      <4>4. session' = session /\ closing' = closing
        BY <2>1, <3>1, <4>1, <4>3, RxCases, Zenon
      <4> QED
        BY <3>1, <3>2, <4>4, Zenon
    <3> QED
      BY <3>1, <3>2, Zenon
  <2>6. CASE DeviceSend
    <3>1. closing = FALSE
      BY <2>1, Zenon DEF HInv, SessionInv
    <3>2. session' = session /\ closing' = FALSE /\ todo' = todo
      BY <2>6, <3>1, Zenon DEF DeviceSend, Send, progVars
    <3> QED
      BY <2>2, <2>3, <3>1, <3>2, Zenon
  <2>7. CASE Deliver
    BY <2>2, <2>3, <2>7, Zenon DEF Deliver, Poll, ProgDeliver
  <2> QED
    BY <2>2, <2>3, <2>4, <2>5, <2>6, <2>7, ZenonT(30) DEF LinkNext
<1> QED
  BY <1>1, LinkInvHolds, PTL DEF LinkSpec, SessionWaitsForOwn
===============================================================================
