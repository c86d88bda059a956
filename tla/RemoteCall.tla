------------------------------ MODULE RemoteCall ------------------------------
(***************************************************************************)
(* What a client of the cryptography applet may rely on (tee/README.md:    *)
(* "Applet execution is synchronous"): one call at a time; a call's answer *)
(* is computed once, for that call, and only then may it be returned; a    *)
(* call may also return an error.  When the board, or a reply, fails       *)
(* outright nothing is promised until the next boot.                       *)
(***************************************************************************)
CONSTANTS
  Requests,  \* requests a client may make; an answer is the request it answers
  Errors,    \* errors a call may return
  None       \* no request, no answer

VARIABLES
  phase,   \* "idle", "busy" with a call, or "down"
  req,     \* the last call's request
  answer,  \* the answer to it, once it is computed
  out      \* what the last call returned

vars == <<phase, req, answer, out>>

Boot == phase' = "idle" /\ req' = None /\ answer' = None /\ out' = None

Init == phase = "idle" /\ req = None /\ answer = None /\ out = None

Call(r) ==
  /\ phase = "idle"
  /\ phase' = "busy" /\ req' = r /\ answer' = None /\ out' = None

Compute ==
  /\ phase = "busy" /\ answer = None
  /\ answer' = req
  /\ UNCHANGED <<phase, req, out>>

Return ==
  /\ phase = "busy"
  /\ phase' = "idle"
  /\ out' \in Errors \cup ({answer} \ {None})
  /\ answer' = None
  /\ UNCHANGED req

\* The board fails during a call, or the client exits between two.
Stop ==
  /\ phase \in {"busy", "idle"}
  /\ phase' = "down" /\ req' = None /\ answer' = None /\ out' = None

Restart == phase = "down" /\ Boot

Next == (\E r \in Requests : Call(r)) \/ Compute \/ Return \/ Stop \/ Restart

Spec == Init /\ [][Next]_vars
===============================================================================
