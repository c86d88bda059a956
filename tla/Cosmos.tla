-------------------------------- MODULE Cosmos --------------------------------
(***************************************************************************)
(* apps/cosmos/cosmos.go behind apps.Handler.Handle: the Cosmos app, with  *)
(* the signature session that lasts from one APDU to the next.             *)
(*                                                                         *)
(* An APDU is a record of the fields the handlers look at.  Its size is    *)
(* what the bounds checks see; a derivation path and a piece of payload    *)
(* are values told apart and no more, so that a payload is a sequence of   *)
(* pieces, and which payloads are JSON is a given.  The hash and the       *)
(* signature of a payload are the payload itself, with its key's path and  *)
(* the number of times it was hashed.                                      *)
(***************************************************************************)
EXTENDS Apps

CONSTANTS
  Paths,        \* derivation paths
  ZeroPath,     \* the zero crypto.DerivationPath
  Pieces,       \* pieces of payload an APDU carries
  Json,         \* payloads json.Unmarshal accepts
  Messages,     \* APDUs the host may send
  TeeToken,     \* TRUE: the token is TEEToken; FALSE: dumbToken
  MaxRequests   \* bound on the sign requests that reach the app

appID == 85
minDataLen == 5
claGetVersion == 0
claSignSecp256K1 == 2
claGetAddrSecp256K1 == 4
signInit == 0
signAdd == 1
signLast == 2

CosmosApp ==
  [name |-> "COSMOS", id |-> appID,
   commands |-> {claGetVersion, claSignSecp256K1, claGetAddrSecp256K1}]

Message == [readable : BOOLEAN, CLA : AppIDs, INS : Commands, P1 : 0 .. 255,
            PayloadLength : 0 .. 255, HRPLength : 0 .. 255, size : Nat,
            path : Paths, piece : Pieces]

ASSUME CosmosAssumption ==
  /\ CosmosApp \in App
  /\ ZeroPath \in Paths
  /\ Messages \subseteq Message
  /\ TeeToken \in BOOLEAN
  /\ MaxRequests \in Nat

VARIABLES
  session,     \* c.currentSignatureSession; open is FALSE for nil
  code,        \* APDUCode of the last response
  panicked,    \* a slice went out of bounds
  address,     \* ghost: the last get-address request that passed validate, and
               \* the path of the address returned; ok is FALSE if it panicked
  requests,    \* ghost: the init, add and last requests the app accepted
  signatures   \* ghost: the signatures returned, at = position in requests

cosmosVars == <<session, code, panicked, address, requests, signatures>>
vars == <<registry, cosmosVars>>

NoAddress == [size |-> 0, HRPLength |-> 0, asked |-> ZeroPath, ok |-> TRUE, path |-> ZeroPath]

NoSession == [open |-> FALSE, path |-> ZeroPath, data |-> <<>>]

Codes == {"None", "Success", "ExecutionError", "WrongLength", "DataInvalid",
          "CLANotSupported", "INSNotSupported"}

Request == [P1 : {signInit, signAdd, signLast}, path : Paths, piece : Pieces]

\* Type correctness of the handler and the app.
TypeOK ==
  /\ RegistryTypeOK
  /\ session \in [open : BOOLEAN, path : Paths, data : Seq(Pieces)]
  /\ code \in Codes
  /\ panicked \in BOOLEAN
  /\ address \in [size : Nat, HRPLength : 0 .. 255, asked : Paths, ok : BOOLEAN, path : Paths]
  /\ requests \in Seq(Request)
  /\ signatures \subseteq [at : Nat, path : Paths, data : Seq(Pieces), hashes : Nat]

\* main registers the Cosmos app in a new Handler.
Init ==
  /\ appMap = {CosmosApp}
  /\ commandAppMap = Mappings({CosmosApp})
  /\ session = NoSession
  /\ code = "None"
  /\ panicked = FALSE
  /\ address = NoAddress
  /\ requests = <<>>
  /\ signatures = {}

Respond(c) == code' = c

-------------------------------------------------------------------------------
(* Reading past the end of a message.  A message is a slice of the session *)
(* buffer, whose capacity is 64 once a frame of 57 bytes is written and at *)
(* least 116 after a second one; slicing panics only beyond the capacity.  *)
(* Bytes past the message are the frame's padding: anything.               *)

capacity(size) == IF size <= 57 THEN 64 ELSE 116

\* Paths that may be read when the path's bytes end at position end.
PathsRead(m, end) == IF end <= m.size THEN {m.path} ELSE Paths

-------------------------------------------------------------------------------
(* Handle, up to the app *)

Handled(m) == ~panicked /\ Routable(m) /\ AppFor(m) = CosmosApp /\ m.size >= minDataLen

HandleUnrouted(m) ==
  /\ ~panicked /\ ~Routable(m)
  /\ Respond(UnroutedCode(m))
  /\ UNCHANGED <<registry, session, panicked, address, requests, signatures>>

HandleTooShort(m) ==
  /\ ~panicked /\ Routable(m) /\ m.size < minDataLen
  /\ Respond("WrongLength")
  /\ UNCHANGED <<registry, session, panicked, address, requests, signatures>>

handleGetVersion(m) ==
  /\ Handled(m) /\ INS(m) = claGetVersion
  /\ Respond("Success")
  /\ UNCHANGED <<registry, session, panicked, address, requests, signatures>>

-------------------------------------------------------------------------------
(* handleSignSecp256K1 *)

Sign(m) ==
  Handled(m) /\ INS(m) = claSignSecp256K1 /\ Len(requests) < MaxRequests

Accept(m, path) ==
  requests' = Append(requests, [P1 |-> m.P1, path |-> path, piece |-> m.piece])

SignNoSession(m) ==
  /\ Sign(m)
  /\ ~session.open /\ m.P1 # signInit
  /\ Respond("ExecutionError")
  /\ UNCHANGED <<registry, session, panicked, address, requests, signatures>>

\* Mutant: a new session starts with the data of the one it replaces.
SignInitKeepingData(m) ==
  /\ Sign(m)
  /\ m.P1 = signInit
  /\ \E path \in PathsRead(m, 25) :
       session' = [open |-> TRUE, path |-> path, data |-> session.data] /\ Accept(m, path)
  /\ Respond("Success")
  /\ UNCHANGED <<registry, panicked, address, signatures>>

\* A session that is open is dropped for the new one.
SignInit(m) ==
  /\ Sign(m)
  /\ m.P1 = signInit
  /\ \E path \in PathsRead(m, 25) :
       session' = [open |-> TRUE, path |-> path, data |-> <<>>] /\ Accept(m, path)
  /\ Respond("Success")
  /\ UNCHANGED <<registry, panicked, address, signatures>>

\* Mutant: any descriptor but signInit and signLast appends a piece.
SignAddAnything(m) ==
  /\ Sign(m)
  /\ session.open /\ m.P1 \notin {signInit, signLast}
  /\ session' = [session EXCEPT !.data = Append(@, m.piece)]
  /\ Accept(m, session.path)
  /\ Respond("Success")
  /\ UNCHANGED <<registry, panicked, address, signatures>>

\* signAdd appends a piece; any other descriptor appends nothing.
SignAdd(m) ==
  /\ Sign(m)
  /\ session.open /\ m.P1 \notin {signInit, signLast}
  /\ IF m.P1 = signAdd
     THEN /\ session' = [session EXCEPT !.data = Append(@, m.piece)]
          /\ Accept(m, session.path)
     ELSE UNCHANGED <<session, requests>>
  /\ Respond("Success")
  /\ UNCHANGED <<registry, panicked, address, signatures>>

\* handleSignSecp256K1 hashes the payload; TEEToken.Sign hashes what it is given
\* once more, dumbToken.Sign does not.
Hashes == IF TeeToken THEN 2 ELSE 1

\* What signLast and the token make of the session: the path cannot be derived,
\* the payload is not JSON, the token fails, or a signature.
LastOutcomes(data) ==
  {"ExecutionError"} \cup IF data \in Json THEN {"Success"} ELSE {"DataInvalid"}

\* Mutant: the session is dropped only after a signature.
SignLastKeepingSession(m) ==
  LET data == Append(session.data, m.piece)
  IN  /\ Sign(m)
      /\ session.open /\ m.P1 = signLast
      /\ \E outcome \in LastOutcomes(data) :
           /\ Respond(outcome)
           /\ session' = IF outcome = "Success" THEN NoSession
                         ELSE [session EXCEPT !.data = data]
           /\ signatures' = signatures \cup
                IF outcome = "Success"
                THEN {[at |-> Len(requests) + 1, path |-> session.path, data |-> data,
                       hashes |-> Hashes]}
                ELSE {}
      /\ Accept(m, session.path)
      /\ UNCHANGED <<registry, panicked, address>>

\* The deferred function drops the session on every way out.
SignLast(m) ==
  LET data == Append(session.data, m.piece)
  IN  /\ Sign(m)
      /\ session.open /\ m.P1 = signLast
      /\ \E outcome \in LastOutcomes(data) :
           /\ Respond(outcome)
           /\ signatures' = signatures \cup
                IF outcome = "Success"
                THEN {[at |-> Len(requests) + 1, path |-> session.path, data |-> data,
                       hashes |-> Hashes]}
                ELSE {}
      /\ session' = NoSession
      /\ Accept(m, session.path)
      /\ UNCHANGED <<registry, panicked, address>>

-------------------------------------------------------------------------------
(* handleGetAddrSecp256K1 *)

\* Mutant: the HRP's length has no upper bound.
validateLoose(m) ==
  /\ m.size >= 6
  /\ m.P1 <= 1
  /\ m.PayloadLength > 0
  /\ m.HRPLength >= 1

\* binary.Read of the six-byte header, then getAddressRequest.validate.
validate(m) ==
  /\ m.size >= 6
  /\ m.P1 <= 1
  /\ m.PayloadLength > 0
  /\ m.HRPLength \in 1 .. 83

\* Ends of the HRP and of the path; the offsets are computed in a uint8.
hrpEnd(m) == (6 + m.HRPLength) % 256
pathEnd(m) == (hrpEnd(m) + 20) % 256

SlicesFit(m) == 6 <= hrpEnd(m) /\ hrpEnd(m) <= pathEnd(m) /\ pathEnd(m) <= capacity(m.size)

GetAddr(m) == Handled(m) /\ INS(m) = claGetAddrSecp256K1

\* A refused request, a path that cannot be derived, a failing token or HRP.
GetAddrFails(m) ==
  /\ GetAddr(m)
  /\ ~validate(m) \/ SlicesFit(m)
  /\ Respond("ExecutionError")
  /\ UNCHANGED <<registry, session, panicked, address, requests, signatures>>

Outcome(m, ok, path) ==
  address' = [size |-> m.size, HRPLength |-> m.HRPLength, asked |-> m.path,
              ok |-> ok, path |-> path]

GetAddrOk(m) ==
  /\ GetAddr(m)
  /\ validate(m) /\ SlicesFit(m)
  /\ \E path \in PathsRead(m, pathEnd(m)) : Outcome(m, TRUE, path)
  /\ Respond("Success")
  /\ UNCHANGED <<registry, session, panicked, requests, signatures>>

GetAddrPanics(m) ==
  /\ GetAddr(m)
  /\ validate(m) /\ ~SlicesFit(m)
  /\ Outcome(m, FALSE, ZeroPath)
  /\ panicked' = TRUE
  /\ UNCHANGED <<registry, session, code, requests, signatures>>

-------------------------------------------------------------------------------

Handle(m) ==
  \/ HandleUnrouted(m)
  \/ HandleTooShort(m)
  \/ handleGetVersion(m)
  \/ SignNoSession(m)
  \/ SignInit(m)
  \/ SignAdd(m)
  \/ SignLast(m)
  \/ GetAddrFails(m)
  \/ GetAddrOk(m)
  \/ GetAddrPanics(m)

Next == \E m \in Messages : Handle(m)

Spec == Init /\ [][Next]_vars

-------------------------------------------------------------------------------
(* Properties *)

\* The payload of the add and last requests that follow request i up to n.
Payload(i, n) == [j \in 1 .. n - i |-> requests[i + j].piece]

\* Requests i+1 to n all belong to the session that request i opened.
OneSession(i, n) ==
  /\ requests[i].P1 = signInit
  /\ \A j \in i + 1 .. n - 1 : requests[j].P1 = signAdd

\* cosmos.go:142-208.  A signature answers a last request and covers, under the
\* path of the last init request before it, every piece sent since that init
\* and nothing else: whatever the host sends in between, abandons, repeats or
\* gets refused, no signature is made over pieces of two payloads, over part
\* of one, or twice from one init.
SignaturesCoverOneSession ==
  \A sig \in signatures :
    /\ sig.at \in 1 .. Len(requests) /\ requests[sig.at].P1 = signLast
    /\ \E i \in 1 .. sig.at - 1 :
         /\ OneSession(i, sig.at)
         /\ sig.path = requests[i].path
         /\ sig.data = Payload(i, sig.at)

\* cosmos.go:225-260.  A request that holds all the bytes its HRPLength
\* announces gets the address of the path it names, at every HRP length that
\* validate lets through: only a request shorter than it says can make the
\* handler read padding for a path, or run off the buffer and panic.
WholeGetAddrIsExact ==
  address.size >= 6 + address.HRPLength + 20 => address.ok /\ address.path = address.asked

\* README.md:118 "sign the 355 bytes and send back a signature": the signature is
\* over the payload's hash, which cosmos.go:200 computes.
SignaturesAreOverPayloadHash == \A sig \in signatures : sig.hashes = 1
===============================================================================
