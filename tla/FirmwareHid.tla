------------------------------ MODULE FirmwareHid -----------------------------
(***************************************************************************)
(* firmware/wallera.go: the hidHandler of the USB armory firmware.         *)
(*                                                                         *)
(* tamago's USB driver runs two endpoint goroutines (external): one calls  *)
(* Rx with each packet the host sends, the other calls Tx for each packet  *)
(* the host polls.  They share an unbuffered channel: Rx blocks on every   *)
(* chunk of a reply until Tx receives it.  Rx up to its first send is one  *)
(* action, RxHandle; each send is one action, Send; after the last send Rx *)
(* returns, and drops the session when it has answered a whole message.    *)
(*                                                                         *)
(* The apps.Handler is seen from outside: a message makes it panic when it *)
(* is one of Crashing, and otherwise it returns any one of Replies.        *)
(***************************************************************************)
EXTENDS HidHost

CONSTANTS
  HostPackets,  \* packets the host may send
  Crashing      \* messages on which Handle panics

ASSUME PacketsAssumption == HostPackets \subseteq Packet

VARIABLES
  up,        \* FALSE once a goroutine has panicked
  session,   \* hh.session, Fresh for nil
  outbound,  \* chunks Rx has still to send on outboundChan; Rx runs iff non-empty
  closing,   \* Rx will set hh.session to nil after its last send
  tx         \* the packet Tx has received and the host has not polled yet

devVars == <<up, session, outbound, closing, tx>>
vars == <<devVars, hostVars>>

DevTypeOK ==
  /\ up \in BOOLEAN
  /\ session \in Session
  /\ outbound \in Seq(Packet)
  /\ closing \in BOOLEAN
  /\ tx \in Seq(Packet) /\ Len(tx) <= 1

\* Type correctness of the handler and of the host.
TypeOK == DevTypeOK /\ HostTypeOK

DevInit ==
  /\ up = TRUE
  /\ session = Fresh
  /\ outbound = <<>>
  /\ closing = FALSE
  /\ tx = <<>>

Init == DevInit /\ HostInit

RxIdle == up /\ outbound = <<>>

\* The first packet of a session must be readable (notErr panics).
FirstPacketBad(p) == session = Fresh /\ ~ReadData(session, p).ok

Rejection(s) == [kind |-> "reject", chan |-> s.channelID, req |-> <<>>, data |-> NotAllowed]
Answer(s, r) == [kind |-> "answer", chan |-> s.channelID, req |-> s.data, data |-> r]

\* What Rx sends for a packet that ReadData refuses: on the session's channel,
\* whatever the packet's.
RefusalFrames(read) ==
  IF read.ok THEN <<>> ELSE FormatResponse(read.s.channelID, NotAllowed)

Refusal(read) == IF read.ok THEN <<>> ELSE <<Rejection(read.s)>>

\* Mutant: a packet that is refused ends the session.
RxContinueDropping(p) ==
  LET read == ReadData(session, p)
  IN  /\ RxIdle
      /\ ~FirstPacketBad(p)
      /\ read.s.ShouldReadMore
      /\ session' = IF read.ok THEN read.s ELSE Fresh
      /\ outbound' = RefusalFrames(read)
      /\ want' = want \o Refusal(read)
      /\ UNCHANGED <<up, closing, tx, hostSess>>

\* The message is unfinished after packet p, read or refused.
RxContinue(p) ==
  LET read == ReadData(session, p)
  IN  /\ RxIdle
      /\ ~FirstPacketBad(p)
      /\ read.s.ShouldReadMore
      /\ session' = read.s
      /\ outbound' = RefusalFrames(read)
      /\ want' = want \o Refusal(read)
      /\ UNCHANGED <<up, closing, tx, hostSess>>

\* The message is complete after packet p and goes to the app.  A refusal does
\* not keep Rx from getting here.
RxHandle(p) ==
  LET read == ReadData(session, p)
  IN  /\ RxIdle
      /\ ~FirstPacketBad(p)
      /\ ~read.s.ShouldReadMore
      /\ read.s.data \notin Crashing
      /\ \E r \in Replies :
           /\ outbound' = RefusalFrames(read) \o FormatResponse(read.s.channelID, r)
           /\ want' = want \o Refusal(read) \o <<Answer(read.s, r)>>
      /\ session' = read.s
      /\ closing' = TRUE
      /\ UNCHANGED <<up, tx, hostSess>>

\* NewSession or Handle panics in the endpoint's goroutine; nothing recovers.
RxPanic(p) ==
  LET s == ReadData(session, p).s
  IN  /\ RxIdle
      /\ \/ FirstPacketBad(p)
         \/ ~s.ShouldReadMore /\ s.data \in Crashing
      /\ up' = FALSE
      /\ UNCHANGED <<session, outbound, closing, tx, hostVars>>

Rx(p) == RxContinue(p) \/ RxHandle(p) \/ RxPanic(p)

\* Mutant: outboundChan is made with a buffer of one.
BufferedSend ==
  /\ up
  /\ outbound # <<>>
  /\ Len(tx) <= 1
  /\ tx' = Append(tx, Head(outbound))
  /\ outbound' = Tail(outbound)
  /\ LET returns == Tail(outbound) = <<>>
     IN  /\ session' = IF returns /\ closing THEN Fresh ELSE session
         /\ closing' = (closing /\ ~returns)
  /\ UNCHANGED <<up, hostVars>>

\* Mutant: hh.session is not set to nil after the reply.
SendKeepingSession ==
  /\ up
  /\ outbound # <<>>
  /\ tx = <<>>
  /\ tx' = <<Head(outbound)>>
  /\ outbound' = Tail(outbound)
  /\ closing' = (closing /\ Tail(outbound) # <<>>)
  /\ UNCHANGED <<up, session, hostVars>>

\* Mutant: Tx stops receiving before the last chunk.
SendAllButLast ==
  /\ up
  /\ Len(outbound) > 1
  /\ tx = <<>>
  /\ tx' = <<Head(outbound)>>
  /\ outbound' = Tail(outbound)
  /\ UNCHANGED <<up, session, closing, hostVars>>

\* outboundChan <- chunk meets res = <-hh.outboundChan.
Send ==
  /\ up
  /\ outbound # <<>>
  /\ tx = <<>>
  /\ tx' = <<Head(outbound)>>
  /\ outbound' = Tail(outbound)
  /\ LET returns == Tail(outbound) = <<>>
     IN  /\ session' = IF returns /\ closing THEN Fresh ELSE session
         /\ closing' = (closing /\ ~returns)
  /\ UNCHANGED <<up, hostVars>>

\* The USB controller hands the packet Tx returned to the host (external).
Poll ==
  /\ up
  /\ tx # <<>>
  /\ tx' = <<>>
  /\ HostRead(tx[1])
  /\ UNCHANGED <<up, session, outbound, closing>>

\* Unplugging the halted device and plugging it in again (external).
PowerCycle ==
  /\ ~up
  /\ up' = TRUE
  /\ session' = Fresh /\ outbound' = <<>> /\ closing' = FALSE /\ tx' = <<>>
  /\ hostSess' = Fresh /\ want' = <<>>

Next ==
  \/ \E p \in HostPackets : RxContinue(p)
  \/ \E p \in HostPackets : RxHandle(p)
  \/ \E p \in HostPackets : RxPanic(p)
  \/ Send
  \/ Poll
  \/ PowerCycle

\* The goroutine scheduler runs a rendezvous that is ready; the host polls its
\* IN endpoint at the interval it was told.  Nobody has to send or to replug.
Spec == Init /\ [][Next]_vars /\ WF_vars(Send) /\ WF_vars(Poll)

-------------------------------------------------------------------------------
(* Properties *)

\* wallera.go:34-83.  When Rx waits for a packet, an open session is one that
\* misses data: a complete message is never left behind, so that the next
\* packet, good or refused, could make the handler process it a second time.
NoCompleteSessionAtRest ==
  RxIdle /\ session # Fresh =>
    session.ShouldReadMore /\ Len(session.data) < session.amountToRead

\* usb.go:313-375 with wallera.go:43-47, 78-80.  Whatever the packets Rx was
\* given, every packet the host polls is the next one of the oldest
\* undelivered reply, and the last packet of a reply completes exactly the
\* bytes the device meant to send: chunks are not mixed, lost or mispadded.
RepliesArriveWhole == up /\ tx # <<>> => HostReadsRight(tx[1])

\* wallera.go:43-47, 78-80.  Rx, which blocks on every chunk, always returns
\* to read the next packet, unless a goroutine panics.
RxReturns == (outbound # <<>>) ~> (outbound = <<>>)

\* usb.go:219 "if positive will read frame data into s": a packet that an open
\* session does not refuse moves the session on.
AcceptedPacketsAreRead ==
  RxIdle /\ session # Fresh =>
    \A p \in HostPackets : ReadData(session, p).ok => ReadData(session, p).s # session
===============================================================================
