------------------------------- MODULE LinuxLink ------------------------------
(***************************************************************************)
(* The Linux build's hidHandler composed with programs on the host.        *)
(***************************************************************************)
EXTENDS LinuxHid, HidPrograms

linkVars == <<vars, progVars>>

LinkInit == Init /\ ProgInit

Begin(c) == ProgStart(c) /\ UNCHANGED vars

Emit(c) == todo[c] # <<>> /\ Rx(Head(todo[c])) /\ ProgEmit(c)

DeviceSend == writeOutbound /\ UNCHANGED progVars

Deliver == WriteChunk /\ ProgDeliver(Head(tx))

LinkNext == (\E c \in Channels : Begin(c) \/ Emit(c)) \/ DeviceSend \/ Deliver

\* The host controller queues the programs' packets and sends them in turn, so
\* a packet waiting for Rx is not passed over for ever.
LinkSpec ==
  /\ LinkInit /\ [][LinkNext]_linkVars
  /\ WF_linkVars(DeviceSend) /\ WF_linkVars(Deliver)
  /\ \A c \in Channels : SF_linkVars(Emit(c))

-------------------------------------------------------------------------------
(* Properties *)

\* main.go:161-204.  Programs whose messages fit one packet can share the
\* device: each reply under way answers the message of the program it goes to.
OnePacketMessagesServed == OwnAnswersOnly

\* main.go:161-204.  And every such message is answered.
EveryMessageAnswered ==
  \A c \in Channels : (todo[c] # <<>>) ~> (todo[c] = <<>> /\ inbox[c] > 0)

\* README.md, "Cosmos signature flow": messages of several packets reach the app
\* too, "otherwise the signature flow fails".  No packet of a program that has
\* the device to itself is refused.
SignatureFlowServed == (\E c \in Channels : Alone(c)) => OwnAnswersOnly
===============================================================================
