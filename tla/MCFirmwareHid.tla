---------------------------- MODULE MCFirmwareHid -----------------------------
(***************************************************************************)
(* The firmware's handler facing hosts that send any packet at any time.   *)
(* Two data bytes in a HIDFrame, four in a HIDFrameNext, four byte values: *)
(* messages and replies take one to five packets, of five packet indexes.  *)
(***************************************************************************)
EXTENDS FirmwarePort

\* A message of one packet, one of two and one of three; each body is also
\* met in a later packet, as data.
MCBodies == {<<0, 2, 3, 1>>, <<0, 3, 2, 3>>, <<1, 3, 0, 2>>}

MCHostPackets ==
  [sized : {TRUE}, tagged : {TRUE}, chan : {1, 2}, idx : {0, 1, 2, IndexMod - 1},
   body : MCBodies]
  \cup {[sized |-> FALSE, tagged |-> TRUE, chan |-> 1, idx |-> 0, body |-> <<0, 0, 0, 0>>],
        [sized |-> TRUE, tagged |-> FALSE, chan |-> 1, idx |-> 0, body |-> <<0, 0, 0, 0>>],
        [sized |-> TRUE, tagged |-> TRUE, chan |-> 0, idx |-> 0, body |-> <<0, 0, 0, 0>>],
        [sized |-> TRUE, tagged |-> TRUE, chan |-> 1, idx |-> 0, body |-> <<0, 0, 0, 0>>]}

\* Replies of one packet, of a whole number of chunks and of a short last one.
MCReplies == {<<2, 0>>, <<3, 1, 2, 0, 1, 3>>, <<1, 2, 3, 0, 1, 2, 3, 1, 1, 2, 0>>}
MCCrashing == {<<2, 3, 0>>}
MCNotAllowed == <<2, 2>>
===============================================================================
