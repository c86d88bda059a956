----------------------------- MODULE FirmwarePort -----------------------------
(***************************************************************************)
(* The firmware's hidHandler, packet by packet, implements HidPort.        *)
(***************************************************************************)
EXTENDS FirmwareHid, HidOwed

Port == INSTANCE HidPort
          WITH Payloads <- Replies \cup {NotAllowed},
               owed <- IF up THEN Owed(tx \o outbound) ELSE <<>>

\* usb.go:313-375 with wallera.go:25-83.  Whatever packets arrive, in whatever order and
\* from whichever program, the handler keeps the promise of HidPort: what the host
\* reassembles from the chunks under way are whole replies, one per packet at most.
ImplementsHidPort == Port!Spec
===============================================================================
