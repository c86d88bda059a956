------------------------------- MODULE LinuxHid -------------------------------
(***************************************************************************)
(* cmd/wallera-linux/main.go: the hidHandler of the Linux gadget build.    *)
(*                                                                         *)
(* One goroutine reads a packet and calls Rx, another calls Tx and writes  *)
(* the packets it returns.  Unlike the firmware, the unbuffered channel    *)
(* carries a whole reply, so Rx goes on to the next packet while the other *)
(* goroutine is still writing; and a packet that comes while a session is  *)
(* open is always answered with CommandNotAllowed, whatever ReadData says. *)
(***************************************************************************)
EXTENDS HidHost

CONSTANTS
  HostPackets,  \* packets the host may send; Read always fills a 64-byte buffer
  Crashing      \* messages on which Handle panics

ASSUME PacketsAssumption == HostPackets \subseteq {p \in Packet : p.sized}

VARIABLES
  up,        \* FALSE once a goroutine has panicked: the process is gone
  session,   \* h.session, Fresh for nil
  outbound,  \* the reply Rx is blocked on in writeOutbound, <<>> when it is not
  closing,   \* Rx will set h.session to nil after writeOutbound
  tx         \* packets of the reply Tx has received, not yet written

devVars == <<up, session, outbound, closing, tx>>
vars == <<devVars, hostVars>>

\* Type correctness of the handler and of the host.
TypeOK ==
  /\ up \in BOOLEAN
  /\ session \in Session
  /\ outbound \in Seq(Packet)
  /\ closing \in BOOLEAN
  /\ tx \in Seq(Packet)
  /\ HostTypeOK

\* A handler that has received nothing.
Idle == session = Fresh /\ outbound = <<>> /\ closing = FALSE /\ tx = <<>>

Init == up = TRUE /\ Idle /\ HostInit

\* The process is gone, and what it held with it; the host's programs give up the
\* reply they were reading (external).
Gone ==
  /\ up' = FALSE
  /\ session' = Fresh /\ outbound' = <<>> /\ closing' = FALSE /\ tx' = <<>>
  /\ hostSess' = Fresh /\ want' = <<>>

RxIdle == up /\ outbound = <<>>

\* NewSession reads the first packet; the message needs more of them.
RxOpen(p) ==
  LET read == ReadData(session, p)
  IN  /\ RxIdle
      /\ session = Fresh
      /\ read.ok
      /\ read.s.ShouldReadMore
      /\ session' = read.s
      /\ UNCHANGED <<up, outbound, closing, tx, hostVars>>

\* The first packet holds the whole message.
RxHandle(p) ==
  LET read == ReadData(session, p)
      s == read.s
  IN  /\ RxIdle
      /\ session = Fresh
      /\ read.ok
      /\ ~s.ShouldReadMore
      /\ s.data \notin Crashing
      /\ session' = s
      /\ \E r \in Replies :
           /\ outbound' = FormatResponse(s.channelID, r)
           /\ want' = Append(want, [kind |-> "answer", chan |-> s.channelID,
                                    req |-> s.data, data |-> r])
      /\ closing' = TRUE
      /\ UNCHANGED <<up, tx, hostSess>>

\* The packet is read into the open session, or not, and refused.
RxRefuse(p) ==
  /\ RxIdle
  /\ session # Fresh
  /\ session' = ReadData(session, p).s
  /\ outbound' = FormatResponse(session.channelID, NotAllowed)
  /\ want' = Append(want, [kind |-> "reject", chan |-> session.channelID,
                           req |-> <<>>, data |-> NotAllowed])
  /\ UNCHANGED <<up, closing, tx, hostSess>>

\* NewSession or Handle panics.
RxPanic(p) ==
  LET read == ReadData(session, p)
  IN  /\ RxIdle
      /\ session = Fresh
      /\ ~read.ok \/ (~read.s.ShouldReadMore /\ read.s.data \in Crashing)
      /\ Gone

Rx(p) == RxOpen(p) \/ RxHandle(p) \/ RxRefuse(p) \/ RxPanic(p)

\* Mutant: a session that was answered is kept.
writeOutboundKeeping ==
  /\ up
  /\ outbound # <<>>
  /\ tx = <<>>
  /\ tx' = outbound
  /\ outbound' = <<>>
  /\ closing' = FALSE
  /\ UNCHANGED <<up, session, hostVars>>

\* Mutant: Tx takes the next reply before it has written the last one out.
writeOutboundEager ==
  /\ up
  /\ outbound # <<>>
  /\ tx' = outbound
  /\ outbound' = <<>>
  /\ session' = IF closing THEN Fresh ELSE session
  /\ closing' = FALSE
  /\ UNCHANGED <<up, hostVars>>

\* writeOutbound meets readOutbound, and Rx returns.
writeOutbound ==
  /\ up
  /\ outbound # <<>>
  /\ tx = <<>>
  /\ tx' = outbound
  /\ outbound' = <<>>
  /\ session' = IF closing THEN Fresh ELSE session
  /\ closing' = FALSE
  /\ UNCHANGED <<up, hostVars>>

\* Mutant: the last packet of a reply is not written.
WriteChunkButLast ==
  /\ up
  /\ Len(tx) > 1
  /\ tx' = Tail(tx)
  /\ HostRead(Head(tx))
  /\ UNCHANGED <<up, session, outbound, closing>>

\* The tx goroutine writes the next packet to the gadget.
WriteChunk ==
  /\ up
  /\ tx # <<>>
  /\ tx' = Tail(tx)
  /\ HostRead(Head(tx))
  /\ UNCHANGED <<up, session, outbound, closing>>

-------------------------------------------------------------------------------
(* Properties *)

\* usb.go:313-375 with main.go:110-129, 145-159.  Whatever the packets Rx was given, and
\* although Rx goes on while a reply is being written, every packet written is the next
\* one of the oldest undelivered reply, and its last one completes exactly its bytes.
RepliesArriveWhole == up /\ tx # <<>> => HostReadsRight(Head(tx))

\* main.go:145-149.  Rx never stays blocked in writeOutbound.
RxReturns == (outbound # <<>>) ~> (outbound = <<>>)
===============================================================================
