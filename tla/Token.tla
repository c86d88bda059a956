--------------------------------- MODULE Token --------------------------------
(***************************************************************************)
(* The two implementations of crypto.Token an application may be given: a  *)
(* token in its own program, and TEEToken, which asks the cryptography     *)
(* applet, whose Dispatch uses a token of its own.  The applet is reached  *)
(* by a RemoteCall: that the trusted OS provides one is shown in           *)
(* TrustZone.  Bytes that are computed from a key are that key; those that *)
(* are not (random bytes, the mnemonic) have no key.                       *)
(***************************************************************************)
EXTENDS Derivation

Ops == {"RandomBytes", "Sign", "PublicKey", "Mnemonic", "SupportedSignAlgorithms"}

VARIABLES
  kind,     \* "dumb" or "tee": the token that token() returned
  op,       \* the operation the command needs
  at,       \* "idle"; the caller's "init", "ready", "end"; the applet's "mail",
            \* "derive", "compute"; "wait" for the result; "down"
  session,  \* sessionToken: its privKey, or its path; <<>> before Initialize
  result,   \* what the operation returned
  reply,    \* what the applet computed
  phase, req, answer, out   \* RemoteCall's

callVars == <<phase, req, answer, out>>
tokenVars == <<vars, kind, op, at, session, result, reply, callVars>>

NoCall == [op |-> "none", path |-> <<>>]
CallError == [op |-> "error", path |-> <<>>]
Calls == [op : Ops, path : [1 .. 5 -> Uint]]

Remote == INSTANCE RemoteCall
            WITH Requests <- Calls, Errors <- {CallError}, None <- NoCall

Nothing == [op |-> "none", key |-> <<>>]
Failed == [op |-> "error", key |-> <<>>]

\* What an operation returns on a token whose privKey is key.
Output(o, key) == [op |-> o, key |-> IF o \in {"Sign", "PublicKey"} THEN key ELSE <<>>]

\* RandomBytes of no bytes, no entropy, a key that cannot be used (external).
MayFail(o) == o # "SupportedSignAlgorithms"

\* Type correctness, of the derivation too.
TokenTypeOK ==
  /\ TypeOK
  /\ kind \in {"dumb", "tee"}
  /\ op \in Ops \cup {"none"}
  /\ at \in {"idle", "init", "ready", "end", "mail", "derive", "compute", "wait", "down"}
  /\ session \in {<<>>} \cup [1 .. 5 -> Uint]
  /\ {result.key, reply.key} \subseteq {<<>>} \cup [1 .. 5 -> Uint]
  /\ {result.op, reply.op} \subseteq Ops \cup {"none", "error"}
  /\ phase \in {"idle", "busy", "down"}
  /\ {req, answer} \subseteq Calls \cup {NoCall}
  /\ out \in Calls \cup {NoCall, CallError}

AtRest ==
  /\ op = "none" /\ at = "idle" /\ session = <<>> /\ result = Nothing /\ reply = Nothing

TokenInit == Init /\ kind \in {"dumb", "tee"} /\ AtRest /\ Remote!Init

-------------------------------------------------------------------------------
(* The caller *)

\* A command comes in, and its handler clones the application's token.
Ask ==
  /\ at = "idle"
  /\ Request
  /\ op' \in Ops
  /\ at' = "init"
  /\ UNCHANGED <<kind, session, result, reply, callVars>>

Parse ==
  /\ at = "init"
  /\ NewDerivationPathFromBytes
  /\ UNCHANGED <<kind, op, at, session, result, reply, callVars>>

\* The local token's Initialize: KeyFromPath, round by round.  An error leaves
\* privKey nil, and the handler gives up.
Initialize ==
  /\ kind = "dumb" /\ at = "init"
  /\ \/ /\ KeyFromPath
        /\ IF pc' = "done"
           THEN session' = child' /\ at' = "ready"
           ELSE UNCHANGED <<session, at>>
        /\ UNCHANGED result
     \/ ChildFails /\ session' = <<>> /\ at' = "end" /\ result' = Failed
  /\ UNCHANGED <<kind, op, reply, callVars>>

\* Its operations.
Operate ==
  /\ kind = "dumb" /\ at = "ready"
  /\ result' \in {Output(op, session)} \cup (IF MayFail(op) THEN {Failed} ELSE {})
  /\ at' = "end"
  /\ UNCHANGED <<vars, kind, op, session, reply, callVars>>

\* TEEToken's Initialize.
TeeInitialize ==
  /\ kind = "tee" /\ at = "init" /\ pc = "derive"
  /\ session' = path /\ at' = "ready"
  /\ UNCHANGED <<vars, kind, op, result, reply, callVars>>

TeeSupportedSignAlgorithms ==
  /\ kind = "tee" /\ at = "ready" /\ op = "SupportedSignAlgorithms"
  /\ result' = Output(op, session) /\ at' = "end"
  /\ UNCHANGED <<vars, kind, op, session, reply, callVars>>

\* RandomBytes, Sign, PublicKey and Mnemonic of TEEToken: doRequest sends the mail.
DoRequest ==
  /\ kind = "tee" /\ at = "ready" /\ op # "SupportedSignAlgorithms"
  /\ Remote!Call([op |-> op, path |-> session])
  /\ at' = "mail"
  /\ UNCHANGED <<vars, kind, op, session, result, reply>>

\* doRequest returns: an error, or the applet's reply.  The mail may never have
\* reached the applet.
DoRequestReturns ==
  /\ at \in {"mail", "wait"}
  /\ Remote!Return
  /\ result' = IF out' = CallError THEN Failed ELSE reply
  /\ at' = "end"
  /\ UNCHANGED <<vars, kind, op, session, reply>>

\* The handler answers, and its session token is gone; nobody reads the call again.
Answer ==
  /\ at = "end"
  /\ Answered
  /\ op' = "none" /\ at' = "idle" /\ session' = <<>> /\ result' = Nothing /\ reply' = Nothing
  /\ kind' = kind
  /\ phase' = phase /\ req' = NoCall /\ answer' = answer /\ out' = NoCall

-------------------------------------------------------------------------------
(* The applet: Dispatch *)

HasPath(o) == o \in {"Sign", "PublicKey", "Mnemonic"}

\* Mutant: the request is decoded into a struct that lacks its path.
DecodedPathless == ZeroPath

Decoded == req.path

\* Dispatch decodes the request; the three with a path get a token of their own.
AppletDecodes ==
  /\ at = "mail"
  /\ at' = IF HasPath(req.op) THEN "derive" ELSE "compute"
  /\ path' = IF HasPath(req.op) THEN Decoded ELSE path
  /\ UNCHANGED <<wire, pc, child, kind, op, session, result, reply, callVars>>

\* It is initialised; on an error the applet ends without a response.
AppletInitializes ==
  /\ at = "derive"
  /\ \/ KeyFromPath /\ at' = IF pc' = "done" THEN "compute" ELSE "derive"
     \/ ChildFails /\ at' = "wait"
  /\ UNCHANGED <<kind, op, session, result, reply, callVars>>

\* The operation, and the response; or an error, and none.
AppletComputes ==
  /\ at = "compute"
  /\ at' = "wait"
  /\ \/ reply' = Output(req.op, child) /\ Remote!Compute
     \/ MayFail(req.op) /\ UNCHANGED <<reply, callVars>>
  /\ UNCHANGED <<vars, kind, op, session, result>>

-------------------------------------------------------------------------------
(* The board: it may go down during a call, and starts again (external). *)

Down ==
  /\ at \in {"mail", "derive", "compute", "wait"}
  /\ Remote!Stop
  /\ Answered
  /\ op' = "none" /\ at' = "down" /\ session' = <<>> /\ result' = Nothing /\ reply' = Nothing
  /\ kind' = kind

Boot ==
  /\ at = "down"
  /\ Remote!Restart
  /\ at' = "idle"
  /\ UNCHANGED <<vars, kind, op, session, result, reply>>

TokenNext ==
  \/ Ask \/ Parse \/ Initialize \/ Operate
  \/ TeeInitialize \/ TeeSupportedSignAlgorithms \/ DoRequest \/ DoRequestReturns \/ Answer
  \/ AppletDecodes \/ AppletInitializes \/ AppletComputes
  \/ Down \/ Boot

TokenSpec == TokenInit /\ [][TokenNext]_tokenVars

-------------------------------------------------------------------------------
(* Properties *)

\* crypto_token.go, tee_token.go, request.go:116-233 and cosmos.go:184-209, 284-293.
\* Whichever token the application was given, and whatever failed before, an operation
\* that succeeds is the one asked for, with the key at the path on the wire: that of
\* this command, as it was parsed, sent to the applet, decoded and derived there.
AnswersUseOwnKey ==
  result.op \in Ops =>
    /\ result.op = op
    /\ op \in {"Sign", "PublicKey"} =>
         Len(result.key) = 5 /\ \A i \in 1 .. 5 : IsIndexAsked(result.key[i], i)
===============================================================================
