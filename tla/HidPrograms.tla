------------------------------ MODULE HidPrograms -----------------------------
(***************************************************************************)
(* Programs on the host that exchange messages with the device (external:  *)
(* LedgerJS; README.md, "USB").  Each has a channel of its own, cuts its   *)
(* message into packets with the framing of usb.go, sends them in order,   *)
(* to the last, and then reads one reply on its channel.                   *)
(***************************************************************************)
EXTENDS HidHost

CONSTANTS
  Messages,  \* messages each program may send
  MaxInbox   \* bound: replies the host's driver keeps for a program

ASSUME MessagesAssumption ==
  /\ \A c \in Channels : \A m \in Messages[c] : m \in Seq(Byte) /\ Len(m) \in 1 .. LenMod - 1
  /\ MaxInbox \in Nat \ {0}

VARIABLES
  msg,    \* the message of each program's exchange
  todo,   \* its packets not yet sent
  inbox   \* replies delivered on the program's channel and not yet read

progVars == <<msg, todo, inbox>>

\* Some programs have sent a message to begin with, the others never do.
ProgInit ==
  /\ msg \in {f \in [Channels -> UNION {Messages[c] : c \in Channels} \cup {<<>>}] :
               \A c \in Channels : f[c] \in Messages[c] \cup {<<>>}}
  /\ \E c \in Channels : msg[c] # <<>>
  /\ todo = [c \in Channels |-> IF msg[c] = <<>> THEN <<>> ELSE FormatResponse(c, msg[c])]
  /\ inbox = [c \in Channels |-> 0]

\* Program c reads its reply and begins another exchange.
ProgStart(c) ==
  /\ todo[c] = <<>>
  /\ inbox[c] > 0
  /\ \E m \in Messages[c] :
       /\ msg' = [msg EXCEPT ![c] = m]
       /\ todo' = [todo EXCEPT ![c] = FormatResponse(c, m)]
  /\ inbox' = [inbox EXCEPT ![c] = @ - 1]

\* Program c's next packet leaves for the device.
ProgEmit(c) ==
  /\ todo[c] # <<>>
  /\ todo' = [todo EXCEPT ![c] = Tail(@)]
  /\ UNCHANGED <<msg, inbox>>

\* Packet p has been polled: a reply it completes goes to its program, or is
\* dropped when too many are waiting.
ProgDeliver(p) ==
  /\ inbox' = IF HostReplyEnds(p) /\ inbox[p.chan] < MaxInbox
              THEN [inbox EXCEPT ![p.chan] = @ + 1]
              ELSE inbox
  /\ UNCHANGED <<msg, todo>>

\* No other program uses the device.
Alone(c) == \A d \in Channels \ {c} : msg[d] = <<>>

\* Every reply under way answers its program's whole message, byte for byte.
OwnAnswersOnly ==
  \A i \in 1 .. Len(want) :
    LET c == want[i].chan
    IN  want[i].kind = "answer" /\ want[i].req = msg[c] /\ todo[c] = <<>>
===============================================================================
