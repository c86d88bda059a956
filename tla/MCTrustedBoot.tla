---------------------------- MODULE MCTrustedBoot -----------------------------
(***************************************************************************)
(* The boot on the board, with the i.MX6UL's 40 peripheral slots and 16    *)
(* bus masters: every register write may be the one that fails.            *)
(***************************************************************************)
EXTENDS TrustedBoot
===============================================================================
