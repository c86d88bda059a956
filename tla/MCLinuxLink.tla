------------------------------ MODULE MCLinuxLink -----------------------------
(***************************************************************************)
(* The Linux build serving programs that keep to the protocol.             *)
(***************************************************************************)
EXTENDS LinuxLink

MCReplies == {<<2, 0>>, <<3, 1, 2, 0, 1, 3>>}
MCNotAllowed == <<2, 2>>
MCShortMessages == [c \in Channels |-> {<<3>>, <<1>>, <<3, 1>>, <<0, 2>>}]
MCMessages == [c \in Channels |-> {<<3, 1>>, <<1, 3, 0, 2, 1, 3>>}]
===============================================================================
