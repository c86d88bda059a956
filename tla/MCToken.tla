------------------------------- MODULE MCToken --------------------------------
(***************************************************************************)
(* Two values per byte, so words of 0 to 15: zero, a small word, the last  *)
(* and the first on either side of the hardened bit, and the largest.      *)
(***************************************************************************)
EXTENDS Token

MCWords == {<<0, 0, 0, 0>>, <<1, 1, 1, 0>>, <<0, 0, 0, 1>>, <<1, 1, 1, 1>>}
===============================================================================
