------------------------------- MODULE MCCosmos -------------------------------
(***************************************************************************)
(* Hosts that send sign requests of every kind in any order, among         *)
(* requests of the other commands.  The sizes and the lengths of a         *)
(* get-address request are the code's own, on both sides of each limit.    *)
(***************************************************************************)
EXTENDS Cosmos

APDU(ins, p1, size) ==
  [readable |-> TRUE, CLA |-> appID, INS |-> ins, P1 |-> p1, PayloadLength |-> 20,
   HRPLength |-> 1, size |-> size, path |-> ZeroPath, piece |-> "a"]

MCInits ==
  {[APDU(claSignSecp256K1, signInit, size) EXCEPT !.path = p] :
     p \in Paths \ {ZeroPath}, size \in {25}}
  \cup {APDU(claSignSecp256K1, signInit, 24)}

MCAdds ==
  {[APDU(claSignSecp256K1, p1, 260) EXCEPT !.piece = x] :
     p1 \in {signAdd, signLast, 3}, x \in Pieces}

\* HRP lengths with sizes at which the request holds its path exactly, a byte
\* less, or only within the buffer's capacity, or not even that.
MCLengths ==
  {<<0, 26>>, <<1, 4>>, <<1, 5>>, <<1, 26>>, <<1, 27>>, <<38, 57>>, <<39, 57>>,
   <<83, 58>>, <<83, 109>>, <<84, 110>>, <<249, 275>>}

MCGetAddrs ==
  {[APDU(claGetAddrSecp256K1, 0, l[2]) EXCEPT !.HRPLength = l[1], !.path = "p"] : l \in MCLengths}
  \cup {APDU(claGetAddrSecp256K1, 2, 27),
        [APDU(claGetAddrSecp256K1, 0, 27) EXCEPT !.PayloadLength = 0]}

MCOthers ==
  {APDU(claGetVersion, 0, 5), APDU(6, 0, 5),
   [APDU(claGetVersion, 0, 5) EXCEPT !.CLA = 86],
   [APDU(claGetVersion, 0, 5) EXCEPT !.readable = FALSE]}

MCMessages == MCInits \cup MCAdds \cup MCGetAddrs \cup MCOthers

MCJson == {<<"a">>, <<"a", "b">>, <<"b", "a">>, <<"a", "a", "b">>}
===============================================================================
