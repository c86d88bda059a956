---------------------------- MODULE MCNormalWorld -----------------------------
(***************************************************************************)
(* Two apps, one of them registered, and the demo's five requests with one *)
(* that the token refuses, so that a result left over from one request     *)
(* differs from the result of the next.                                    *)
(***************************************************************************)
EXTENDS NormalWorld

MCRequests == {funcList[i] : i \in 1 .. 5} \cup {"randomBytes0"}
===============================================================================
