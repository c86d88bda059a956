----------------------------- MODULE FirmwareLink -----------------------------
(***************************************************************************)
(* The firmware's hidHandler composed with programs on the host that keep  *)
(* to the protocol.                                                        *)
(***************************************************************************)
EXTENDS FirmwareHid, HidPrograms

VARIABLES
  openIdx,  \* ghost: index of the packet that opened the last session
  unread    \* ghost: programs that sent a packet of their message that was not read

ghosts == <<openIdx, unread>>
linkVars == <<vars, progVars, ghosts>>

LinkInit == Init /\ ProgInit /\ openIdx = 0 /\ unread = {}

Start(c) == ProgStart(c) /\ unread' = unread \ {c} /\ UNCHANGED <<vars, openIdx>>

Emit(c) ==
  /\ todo[c] # <<>>
  /\ Rx(Head(todo[c]))
  /\ ProgEmit(c)
  /\ openIdx' = IF session = Fresh THEN Head(todo[c]).idx ELSE openIdx
  /\ unread' = IF ReadData(session, Head(todo[c])).s = session THEN unread \cup {c} ELSE unread

DeviceSend == Send /\ UNCHANGED <<progVars, ghosts>>

Deliver == Poll /\ ProgDeliver(tx[1]) /\ UNCHANGED ghosts

LinkNext == (\E c \in Channels : Start(c) \/ Emit(c)) \/ DeviceSend \/ Deliver

\* A program goes on sending its packets; it need not start another exchange.
LinkSpec ==
  /\ LinkInit /\ [][LinkNext]_linkVars
  /\ WF_linkVars(DeviceSend) /\ WF_linkVars(Deliver)
  /\ \A c \in Channels : WF_linkVars(Emit(c))

-------------------------------------------------------------------------------
(* Properties *)

\* wallera.go:31-87 and usb.go:196-276.  With one program on the bus, what the
\* app is given is the program's message, not a byte more or less, and no
\* packet of it is ever refused.
OneProgramIsServed == (\E c \in Channels : Alone(c)) => OwnAnswersOnly

\* wallera.go:31-87.  With one program on the bus, every message is answered.
EveryMessageAnswered ==
  \A c \in Channels :
    (Alone(c) /\ todo[c] # <<>>) ~> (todo[c] = <<>> /\ inbox[c] > 0)

\* usb.go:219-235.  Packets of another program that come between those of a
\* message do not get into it: a message whose first packet opened the session
\* reaches the app exactly as it was sent, once its last packet is in.
InterruptionsLeaveMessageIntact ==
  [][closing' /\ ~closing /\ openIdx' = 0 =>
       LET c == session'.channelID
       IN  session'.data = msg[c] /\ todo'[c] = <<>>]_linkVars

\* usb.go:196-235 and wallera.go:34-54.  A packet from the middle of a message is taken
\* for the first of one only when the handler had passed over a packet of that message
\* before: however the others' packets, their refusals and the ends of their sessions
\* fall between, a program whose packets have all been read so far is never misread.
OnlyUnreadAreMisread ==
  [][session = Fresh /\ session' # Fresh /\ openIdx' # 0 =>
       session'.channelID \in unread]_linkVars

\* wallera.go:40-54.  No program can keep another's session open: one that began
\* with the first packet of a message ends, as long as its own program goes on
\* sending, however many packets of others are refused in between.
OpenSessionsEnd == (session # Fresh /\ openIdx = 0) ~> (session = Fresh)
===============================================================================
