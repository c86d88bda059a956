-------------------------------- MODULE HidPort -------------------------------
(***************************************************************************)
(* What a hidHandler promises the host, packets and goroutines left out: a *)
(* packet is met with one whole reply at most, on a channel; replies are   *)
(* delivered whole and in order; and the handler takes no further packet   *)
(* while two replies are owed.  A panic loses them all, until a restart.   *)
(***************************************************************************)
EXTENDS Naturals, Sequences

CONSTANTS
  Channels,  \* channels of the host's programs
  Payloads   \* data of replies

VARIABLES
  up,   \* the handler runs
  owed  \* replies the host will read, oldest first

vars == <<up, owed>>

Init == up \in BOOLEAN /\ owed = <<>>

Reply ==
  /\ up /\ Len(owed) < 2
  /\ \E r \in [chan : Channels, data : Payloads] : owed' = Append(owed, r)
  /\ UNCHANGED up

Deliver ==
  /\ up /\ owed # <<>>
  /\ owed' = Tail(owed)
  /\ UNCHANGED up

Panic == up /\ up' = FALSE /\ owed' = <<>>

Restart == ~up /\ up' = TRUE /\ UNCHANGED owed

Next == Reply \/ Deliver \/ Panic \/ Restart

Spec == Init /\ [][Next]_vars
===============================================================================
