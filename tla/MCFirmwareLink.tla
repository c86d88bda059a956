---------------------------- MODULE MCFirmwareLink ----------------------------
(***************************************************************************)
(* Programs that send messages of one, two and three packets, the last of  *)
(* them full or not; the sizes are those of MCFirmwareHid.                 *)
(***************************************************************************)
EXTENDS FirmwareLink

MCMessages ==
  <<{<<3, 1>>, <<1, 3, 0>>, <<1, 3, 0, 2, 1, 3>>, <<2, 3, 0, 1, 0, 3, 1>>},
    {<<2, 0>>, <<2, 3, 0, 1, 0, 3, 2>>}>>
MCReplies == {<<2, 0>>, <<3, 1, 2, 0, 1, 3, 0>>}
MCNotAllowed == <<2, 2>>
===============================================================================
