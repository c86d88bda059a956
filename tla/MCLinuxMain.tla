------------------------------ MODULE MCLinuxMain -----------------------------
(***************************************************************************)
(* The Linux build's handler facing hosts that send any packet at any time *)
(* (sizes as in MCFirmwareHid).                                            *)
(***************************************************************************)
EXTENDS LinuxPort

MCBodies == {<<0, 2, 3, 1>>, <<0, 3, 2, 3>>, <<1, 3, 0, 2>>, <<0, 1, 1, 0>>}

MCHostPackets ==
  [sized : {TRUE}, tagged : {TRUE}, chan : {1, 2}, idx : {0, 1, 2}, body : MCBodies]
  \cup {[sized |-> TRUE, tagged |-> FALSE, chan |-> 1, idx |-> 0, body |-> <<0, 0, 0, 0>>],
        [sized |-> TRUE, tagged |-> TRUE, chan |-> 0, idx |-> 0, body |-> <<0, 0, 0, 0>>]}

MCReplies == {<<2, 0>>, <<3, 1, 2, 0, 1, 3, 0>>}
MCCrashing == {<<1>>}
MCNotAllowed == <<2, 2>>
===============================================================================
