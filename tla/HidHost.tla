-------------------------------- MODULE HidHost -------------------------------
(***************************************************************************)
(* The host's side of the reply path (external: LedgerJS or anything else  *)
(* that speaks the framing).  It reassembles the packets it is sent with   *)
(* the same rules as usb.Session and keeps, as a ghost, the replies the    *)
(* device has decided on and not yet delivered in full.                    *)
(***************************************************************************)
EXTENDS HidSession

CONSTANTS
  Replies,    \* responses of apps.Handler.Handle
  NotAllowed  \* PackageResponse(nil, APDUCommandNotAllowed)

ASSUME RepliesAssumption ==
  /\ Replies \subseteq Seq(Byte)
  /\ NotAllowed \in Seq(Byte)
  /\ \A r \in Replies \cup {NotAllowed} : Len(r) \in 1 .. LenMod - 1

VARIABLES
  hostSess,  \* the host's reassembly of the reply it is reading
  want       \* replies not yet delivered, oldest first

hostVars == <<hostSess, want>>

\* req is the message a reply answers; a rejection answers a single packet.
Reply ==
  [kind : {"answer", "reject"}, chan : Channels, req : Seq(Byte), data : Replies \cup {NotAllowed}]

HostTypeOK == hostSess \in Session /\ want \in Seq(Reply)

HostInit == hostSess = Fresh /\ want = <<>>

HostReply(p) == ReadData(hostSess, p)

HostReplyEnds(p) == HostReply(p).ok /\ ~HostReply(p).s.ShouldReadMore

\* The host takes packet p from the bus.
HostRead(p) ==
  IF HostReplyEnds(p)
  THEN hostSess' = Fresh /\ want' = Tail(want)
  ELSE hostSess' = HostReply(p).s /\ UNCHANGED want

\* What the host makes of packet p is what the device meant by it.
HostReadsRight(p) ==
  /\ HostReply(p).ok
  /\ want # <<>>
  /\ HostReply(p).s.channelID = Head(want).chan
  /\ HostReplyEnds(p) => HostReply(p).s.data = Head(want).data
===============================================================================
