------------------------------- MODULE LinuxPort ------------------------------
(***************************************************************************)
(* The Linux build's hidHandler, in the whole program, implements HidPort. *)
(***************************************************************************)
EXTENDS LinuxMain, HidOwed

Port == INSTANCE HidPort
          WITH Payloads <- Replies \cup {NotAllowed},
               owed <- IF up THEN Owed(tx \o outbound) ELSE <<>>

\* usb.go:313-375 with main.go:110-204.  Though Rx runs ahead of the writer, the Linux
\* handler keeps the promise the firmware's keeps: whole replies, in order, two at most.
ImplementsHidPort == Port!Spec
===============================================================================
