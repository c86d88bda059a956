-------------------------------- MODULE Wallet --------------------------------
(***************************************************************************)
(* The Cosmos app with a program that has payloads signed, while anybody   *)
(* else may send it anything.  The app keeps one session, and cannot tell  *)
(* who an APDU is from.  The program (external) sends a payload's requests *)
(* in order, each after the answer to the one before.                      *)
(***************************************************************************)
EXTENDS Cosmos

CONSTANT Flows  \* payloads the program wants signed: a path and the pieces

ASSUME WalletAssumption == Flows \subseteq [path : Paths, pieces : Seq(Pieces)]

VARIABLES
  stage,  \* "idle", "sending", "signed" or "refused"
  flow,   \* the payload under way, or done
  sent,   \* pieces of it the app has accepted
  alone   \* ghost: since its init the app accepted sign requests of nobody else

walletVars == <<vars, stage, flow, sent, alone>>

WalletInit ==
  /\ Init
  /\ stage = "idle" /\ flow \in Flows /\ sent = 0 /\ alone = FALSE

\* Type correctness of the app and of the program.
WalletTypeOK ==
  /\ TypeOK
  /\ stage \in {"idle", "sending", "signed", "refused"} /\ flow \in Flows
  /\ sent \in 0 .. Len(flow.pieces) /\ alone \in BOOLEAN

\* A whole sign request; a message that holds its path.
SignRequest(m, p1) ==
  m.readable /\ m.CLA = appID /\ m.INS = claSignSecp256K1 /\ m.P1 = p1 /\ m.size >= 25

\* Of the program's requests every piece but the last is a signAdd.
IsPiece(m, f, n) ==
  /\ SignRequest(m, IF n = Len(f.pieces) THEN signLast ELSE signAdd)
  /\ m.piece = f.pieces[n]

\* The init request.
Begin(f, m) ==
  /\ stage # "sending"
  /\ SignRequest(m, signInit) /\ m.path = f.path
  /\ Handle(m)
  /\ stage' = IF code' = "Success" THEN "sending" ELSE "refused"
  /\ flow' = f /\ sent' = 0 /\ alone' = TRUE

\* The next piece, and what the program makes of the answer.
Send(m) ==
  /\ stage = "sending" /\ sent < Len(flow.pieces)
  /\ IsPiece(m, flow, sent + 1)
  /\ Handle(m)
  /\ IF code' = "Success"
     THEN /\ sent' = sent + 1
          /\ stage' = IF sent' = Len(flow.pieces) THEN "signed" ELSE "sending"
     ELSE stage' = "refused" /\ UNCHANGED sent
  /\ UNCHANGED <<flow, alone>>

\* Anybody else's request.
Other(m) ==
  /\ Handle(m)
  /\ alone' = (alone /\ requests' = requests)
  /\ UNCHANGED <<stage, flow, sent>>

WalletNext ==
  \E m \in Messages : (\E f \in Flows : Begin(f, m)) \/ Send(m) \/ Other(m)

WalletSpec == WalletInit /\ [][WalletNext]_walletVars

-------------------------------------------------------------------------------
(* Properties *)

\* cosmos.go:104-215.  A program that nobody else's accepted sign request disturbed
\* gets a signature over exactly the payload and the path it sent: the requests of
\* others that the app refuses, answers or ignores in between, addresses that fail,
\* descriptors it does not know and sessions left open by others change nothing.
SignedAsSent ==
  stage = "signed" /\ alone =>
    \E sig \in signatures :
      sig.at = Len(requests) /\ sig.path = flow.path /\ sig.data = flow.pieces
===============================================================================
