----------------------------- MODULE CosmosProofs -----------------------------
(***************************************************************************)
(* The registry of apps, for all apps and all calls of Register.  The      *)
(* Cosmos app, for every set of messages, pieces and paths, and every      *)
(* number of requests: a signature covers the pieces of exactly one        *)
(* session, and a whole get-address request is answered for its own path.  *)
(* The program that has payloads signed, for payloads of any length: when  *)
(* nobody disturbs it, it has signed what it sent.                         *)
(***************************************************************************)
EXTENDS Wallet, SequenceTheorems, TLAPS

-------------------------------------------------------------------------------
(* The registry *)

\* The mappings of two sets of apps are those of their union.
LEMMA MappingsUnion ==
  ASSUME NEW A, NEW B
  PROVE  Mappings(A \cup B) = Mappings(A) \cup Mappings(B)
  BY DEF Mappings

\* What a call adds are apps whose IDs nobody had.
LEMMA AddedApps ==
  ASSUME NEW batch \in Batches, NEW n \in 0 .. Len(batch), Registrable(batch, n)
  PROVE  /\ Elems(batch, n) \subseteq App
         /\ \A a, b \in Elems(batch, n) : a.id = b.id => a = b
         /\ \A a \in Elems(batch, n), b \in appMap : a.id # b.id
<1>1. batch \in Seq(App) /\ \A i \in 1 .. n : i \in 1 .. Len(batch) /\ IDFree(batch, i)
  BY AppsAssumption DEF Registrable
<1>2. \A i, j \in 1 .. n : j < i => batch[j].id # batch[i].id
  BY <1>1 DEF IDFree
<1>3. \A i, j \in 1 .. n : batch[i].id = batch[j].id => i = j
  BY <1>2
<1> QED
  BY <1>1, <1>3 DEF IDFree, Elems, mappingExists

\* The inductive invariant of the registry.
RInv == RegistryTypeOK /\ RoutesMatchRegisteredApps

\* A call adds apps and their mappings together.
LEMMA NextRInv == RInv /\ [RegistryNext]_registry => RInv'
<1> SUFFICES ASSUME RInv, [RegistryNext]_registry PROVE RInv'
  OBVIOUS
<1>1. ASSUME NEW batch \in Batches, Register(batch) PROVE RInv'
  <2>1. PICK n \in 0 .. Len(batch) :
          /\ Registrable(batch, n)
          /\ appMap' = appMap \cup Elems(batch, n)
          /\ commandAppMap' = commandAppMap \cup Mappings(Elems(batch, n))
    BY <1>1 DEF Register
  <2>2. /\ Elems(batch, n) \subseteq App
        /\ \A a, b \in Elems(batch, n) : a.id = b.id => a = b
        /\ \A a \in Elems(batch, n), b \in appMap : a.id # b.id
    BY <2>1, AddedApps
  <2>3. Mappings(Elems(batch, n)) \subseteq AppIDs \X Commands
    BY <2>2 DEF Mappings, App
  <2>4. RegistryTypeOK'
    BY <2>1, <2>2, <2>3 DEF RInv, RegistryTypeOK
  <2>5. commandAppMap' = Mappings(appMap')
    BY <2>1, MappingsUnion DEF RInv, RoutesMatchRegisteredApps
  <2>6. \A a, b \in appMap' : a.id = b.id => a = b
    BY <2>1, <2>2 DEF RInv, RoutesMatchRegisteredApps
  <2> QED
    BY <2>4, <2>5, <2>6 DEF RInv, RoutesMatchRegisteredApps, Mappings
<1>2. CASE UNCHANGED registry
  BY <1>2 DEF registry, RInv, RegistryTypeOK, RoutesMatchRegisteredApps, Mappings
<1> QED
  BY <1>1, <1>2 DEF RegistryNext

\* A new handler has no apps and no mappings.
LEMMA NewRInv == NewHandler => RInv
  BY DEF NewHandler, RInv, RegistryTypeOK, RoutesMatchRegisteredApps, Mappings

\* apps.go:36-80: both maps keep their types, whatever apps Register is given.
THEOREM RegistryTypeCorrect == RegistrySpec => []RegistryTypeOK
<1>1. RInv => RegistryTypeOK
  BY DEF RInv
<1> QED
  BY <1>1, NewRInv, NextRInv, PTL DEF RegistrySpec

\* apps.go:57-80, 105-119: after any calls of Register, with any apps, failed half way
\* or not, the two maps agree and no ID has two apps.
THEOREM RoutesMatch == RegistrySpec => []RoutesMatchRegisteredApps
<1>1. RInv => RoutesMatchRegisteredApps
  BY DEF RInv
<1> QED
  BY <1>1, NewRInv, NextRInv, PTL DEF RegistrySpec

-------------------------------------------------------------------------------
(* The Cosmos app: the inductive invariant *)

\* The open session holds what came after the init request that opened it.
SessionIsTail ==
  session.open =>
    \E i \in 1 .. Len(requests) :
      /\ requests[i].P1 = signInit
      /\ requests[i].path = session.path
      /\ \A j \in i + 1 .. Len(requests) : requests[j].P1 = signAdd
      /\ session.data = Payload(i, Len(requests))

\* The types of the session.
Session == [open : BOOLEAN, path : Paths, data : Seq(Pieces)]

\* The inductive invariant of the app.
IInv == TypeOK /\ SessionIsTail /\ SignaturesCoverOneSession

-------------------------------------------------------------------------------
(* Type correctness *)

\* What a request contributes to the state has the right type.
LEMMA MessageFields ==
  ASSUME NEW m \in Messages
  PROVE  /\ m.path \in Paths /\ m.piece \in Pieces
         /\ m.size \in Nat /\ m.HRPLength \in 0 .. 255
         /\ \A end : PathsRead(m, end) \subseteq Paths
<1>1. m \in Message
  BY CosmosAssumption
<1> QED
  BY <1>1 DEF Message, PathsRead

\* A session with other data is a session with the same path.
LEMMA SessionExcept ==
  ASSUME NEW s \in Session, NEW d \in Seq(Pieces)
  PROVE  /\ [s EXCEPT !.data = d] \in Session
         /\ [s EXCEPT !.data = d].path = s.path
         /\ [s EXCEPT !.data = d].data = d
  BY DEF Session

\* A new Handler with a new app is well typed.
LEMMA InitType == Init => TypeOK
<1> SUFFICES ASSUME Init PROVE TypeOK
  OBVIOUS
<1>1. CosmosApp \in App /\ ZeroPath \in Paths
  BY CosmosAssumption
<1>2. RegistryTypeOK
  BY <1>1 DEF Init, RegistryTypeOK, Mappings, App
<1>3. session \in [open : BOOLEAN, path : Paths, data : Seq(Pieces)]
  BY <1>1 DEF Init, NoSession
<1>4. address \in [size : Nat, HRPLength : 0 .. 255, asked : Paths, ok : BOOLEAN, path : Paths]
  BY <1>1 DEF Init, NoAddress
<1>5. code \in Codes /\ panicked \in BOOLEAN
  BY Zenon DEF Init, Codes
<1>6. requests \in Seq(Request) /\ signatures = {}
  BY DEF Init
<1> QED
  BY <1>2, <1>3, <1>4, <1>5, <1>6 DEF TypeOK

\* Every handler keeps the types.
LEMMA NextType == TypeOK /\ [Next]_vars => TypeOK'
<1> SUFFICES ASSUME TypeOK, [Next]_vars PROVE TypeOK'
  OBVIOUS
<1> USE DEF TypeOK, registry, RegistryTypeOK, Respond, Codes
<1>1. ASSUME NEW m \in Messages, HandleUnrouted(m) \/ HandleTooShort(m) \/ handleGetVersion(m)
                                  \/ SignNoSession(m) \/ GetAddrFails(m)
      PROVE  TypeOK'
  BY <1>1, ZenonT(30) DEF HandleUnrouted, HandleTooShort, handleGetVersion, SignNoSession, GetAddrFails,
              UnroutedCode
<1>2. ASSUME NEW m \in Messages, SignInit(m) PROVE TypeOK'
  <2>1. PICK path \in PathsRead(m, 25) :
          /\ session' = [open |-> TRUE, path |-> path, data |-> <<>>]
          /\ requests' = Append(requests, [P1 |-> m.P1, path |-> path, piece |-> m.piece])
    BY <1>2, Zenon DEF SignInit, Accept
  <2>2. path \in Paths /\ m.piece \in Pieces /\ m.P1 = signInit
    BY <1>2, MessageFields DEF SignInit
  <2>3. [P1 |-> m.P1, path |-> path, piece |-> m.piece] \in Request
    BY <2>2 DEF Request
  <2>4. requests' \in Seq(Request)
    BY <2>1, <2>3
  <2>5. session' \in [open : BOOLEAN, path : Paths, data : Seq(Pieces)]
    BY <2>1, <2>2
  <2> QED
    BY <1>2, <2>4, <2>5 DEF SignInit
<1>3. ASSUME NEW m \in Messages, SignAdd(m) PROVE TypeOK'
  <2>1. m.piece \in Pieces
    BY MessageFields
  <2>2. CASE m.P1 = signAdd
    <3>1. [P1 |-> m.P1, path |-> session.path, piece |-> m.piece] \in Request
      BY <2>1, <2>2 DEF Request
    <3>2. requests' \in Seq(Request)
      <4>1. requests' = Append(requests, [P1 |-> m.P1, path |-> session.path, piece |-> m.piece])
        BY <1>3, <2>2, Zenon DEF SignAdd, Accept
      <4> QED
        BY <3>1, <4>1
    <3>3. session' \in Session
      <4> DEFINE d == Append(session.data, m.piece)
      <4>1. session \in Session /\ d \in Seq(Pieces)
        BY <2>1 DEF Session
      <4>2. session' = [session EXCEPT !.data = d]
        BY <1>3, <2>2, Zenon DEF SignAdd
      <4> HIDE DEF d
      <4> QED
        BY <4>1, <4>2, SessionExcept
    <3>4. code' = "Success" /\ UNCHANGED <<registry, panicked, address, signatures>>
      BY <1>3, Zenon DEF SignAdd
    <3> QED
      BY <3>2, <3>3, <3>4 DEF Session
  <2>3. CASE m.P1 # signAdd
    <3>1. /\ code' = "Success"
          /\ UNCHANGED <<registry, session, requests, panicked, address, signatures>>
      BY <1>3, <2>3, Zenon DEF SignAdd
    <3> QED
      BY <3>1
  <2> QED
    BY <2>2, <2>3
<1>4. ASSUME NEW m \in Messages, SignLast(m) PROVE TypeOK'
  <2> DEFINE data == Append(session.data, m.piece)
             sig == [at |-> Len(requests) + 1, path |-> session.path, data |-> data,
                     hashes |-> Hashes]
  <2>1. m.piece \in Pieces /\ data \in Seq(Pieces)
    BY MessageFields
  <2>2. requests' \in Seq(Request)
    <3>1. [P1 |-> m.P1, path |-> session.path, piece |-> m.piece] \in Request
      BY <1>4, <2>1 DEF SignLast, Request
    <3> QED
      BY <1>4, <3>1 DEF SignLast, Accept
  <2>3. session' \in [open : BOOLEAN, path : Paths, data : Seq(Pieces)]
    BY <1>4, CosmosAssumption DEF SignLast, NoSession
  <2>4. sig \in [at : Nat, path : Paths, data : Seq(Pieces), hashes : Nat]
    BY <2>1 DEF Hashes
  <2>5. signatures' \in {signatures, signatures \cup {sig}} /\ code' \in Codes
    BY <1>4 DEF SignLast, LastOutcomes
  <2> HIDE DEF sig, data
  <2>6. signatures' \subseteq [at : Nat, path : Paths, data : Seq(Pieces), hashes : Nat]
    BY <2>4, <2>5
  <2> QED
    BY <1>4, <2>2, <2>3, <2>5, <2>6 DEF SignLast
<1>5. ASSUME NEW m \in Messages, GetAddrOk(m) \/ GetAddrPanics(m) PROVE TypeOK'
  <2>1. PICK ok \in BOOLEAN, path \in Paths : Outcome(m, ok, path)
    BY <1>5, MessageFields, CosmosAssumption, Zenon DEF GetAddrOk, GetAddrPanics
  <2>2. address' \in [size : Nat, HRPLength : 0 .. 255, asked : Paths, ok : BOOLEAN, path : Paths]
    BY <2>1, MessageFields DEF Outcome
  <2> QED
    BY <1>5, <2>2, Zenon DEF GetAddrOk, GetAddrPanics
<1>6. CASE UNCHANGED vars
  BY <1>6 DEF vars, cosmosVars
<1> QED
  BY <1>1, <1>2, <1>3, <1>4, <1>5, <1>6 DEF Next, Handle

\* cosmos.go:83-329: the registry, the session, the response and the records of
\* what was answered keep their types, for every set of messages.
THEOREM TypeCorrect == Spec => []TypeOK
  BY InitType, NextType, PTL DEF Spec

-------------------------------------------------------------------------------
(* Signatures *)

\* What the requests up to n say does not change when a request is accepted.
LEMMA PastIsKept ==
  ASSUME requests \in Seq(Request), NEW r \in Request, requests' = Append(requests, r),
         NEW n \in 1 .. Len(requests), NEW i \in 1 .. n
  PROVE  /\ Payload(i, n)' = Payload(i, n)
         /\ OneSession(i, n)' <=> OneSession(i, n)
         /\ requests'[n] = requests[n]
<1>1. \A j \in 1 .. Len(requests) : requests'[j] = requests[j]
  OBVIOUS
<1>2. \A j \in 1 .. n - i : i + j \in 1 .. Len(requests)
  OBVIOUS
<1>3. \A j \in 1 .. n - i : requests'[i + j] = requests[i + j]
  BY <1>1, <1>2
<1>4. Payload(i, n)' = Payload(i, n)
  BY <1>3 DEF Payload
<1>5. i \in 1 .. Len(requests) /\ \A j \in i + 1 .. n - 1 : j \in 1 .. Len(requests)
  OBVIOUS
<1>6. OneSession(i, n)' <=> OneSession(i, n)
  BY <1>1, <1>5 DEF OneSession
<1> QED
  BY <1>1, <1>4, <1>6

\* A function on 1 .. k is a sequence of length k.
LEMMA FunctionIsSeq ==
  ASSUME NEW S, NEW k \in Nat, NEW f \in [1 .. k -> S]
  PROVE  f \in Seq(S) /\ Len(f) = k
  OBVIOUS

\* An accepted request extends the payload of the session by its piece.
LEMMA PayloadGrows ==
  ASSUME requests \in Seq(Request), NEW r \in Request, requests' = Append(requests, r),
         NEW n \in Nat, n = Len(requests), NEW i \in 1 .. n
  PROVE  Payload(i, n + 1)' = Append(Payload(i, n), r.piece)
<1> DEFINE k == n - i
           old == [j \in 1 .. k |-> requests[i + j].piece]
           new == [j \in 1 .. k + 1 |-> requests'[i + j].piece]
           grown == Append(old, r.piece)
<1>1. k \in Nat /\ i + k = n /\ r.piece \in Pieces
  BY DEF Request
<1>2. /\ requests' \in Seq(Request) /\ Len(requests') = n + 1 /\ requests'[n + 1] = r
      /\ \A j \in 1 .. n : requests'[j] = requests[j]
  OBVIOUS
<1>3. Payload(i, n) = old /\ Payload(i, n + 1)' = new
  <2>1. (n + 1) - i = k + 1
    BY <1>1
  <2>2. Payload(i, n + 1)' = [j \in 1 .. (n + 1) - i |-> requests'[i + j].piece]
    BY DEF Payload
  <2> QED
    BY <2>1, <2>2, Zenon DEF Payload
<1> HIDE DEF k
<1>4. \A j \in 1 .. k : requests[i + j] \in Request /\ requests'[i + j] = requests[i + j]
  <2>1. \A j \in 1 .. k : i + j \in 1 .. n
    BY <1>1
  <2> QED
    BY <1>2, <2>1, ElementOfSeq
<1>5. requests'[i + (k + 1)] = r
  <2>1. i + (k + 1) = n + 1
    BY <1>1
  <2> QED
    BY <1>2, <2>1
<1>6. old \in [1 .. k -> Pieces]
  BY <1>4 DEF Request
<1>7. new \in [1 .. k + 1 -> Pieces]
  <2>1. ASSUME NEW j \in 1 .. k + 1 PROVE requests'[i + j] \in Request
    <3>1. CASE j = k + 1
      BY <1>5, <3>1, Zenon
    <3>2. CASE j # k + 1
      BY <1>1, <1>4, <3>2
    <3> QED
      BY <3>1, <3>2, Zenon
  <2> QED
    BY <2>1, Zenon DEF Request
<1>8. /\ \A j \in 1 .. k : new[j] = old[j]
      /\ new[k + 1] = r.piece
  <2>1. k + 1 \in 1 .. k + 1 /\ \A j \in 1 .. k : j \in 1 .. k + 1
    BY <1>1
  <2>2. \A j \in 1 .. k : new[j] = old[j]
    BY <1>4, <2>1, Zenon
  <2>3. new[k + 1] = r.piece
    BY <1>5, <2>1, Zenon
  <2> QED
    BY <2>2, <2>3, Zenon
<1> HIDE DEF old, new
<1>9. old \in Seq(Pieces) /\ Len(old) = k
  BY <1>1, <1>6, FunctionIsSeq
<1>10. new \in Seq(Pieces) /\ Len(new) = k + 1
  <2> DEFINE k1 == k + 1
  <2>1. k1 \in Nat /\ new \in [1 .. k1 -> Pieces]
    BY <1>1, <1>7
  <2> HIDE DEF k1
  <2>2. new \in Seq(Pieces) /\ Len(new) = k1
    BY <2>1, FunctionIsSeq
  <2> QED
    BY <2>2 DEF k1
<1>11. /\ grown \in Seq(Pieces) /\ Len(grown) = k + 1
       /\ \A j \in 1 .. k : grown[j] = old[j]
       /\ grown[k + 1] = r.piece
  BY <1>1, <1>9, AppendProperties
<1> HIDE DEF grown
<1>12. \A j \in 1 .. k + 1 : new[j] = grown[j]
  <2>1. \A j \in 1 .. k + 1 : j \in 1 .. k \/ j = k + 1
    BY <1>1
  <2> QED
    BY <1>8, <1>11, <2>1, Zenon
<1>13. new = grown
  BY <1>10, <1>11, <1>12, SeqEqual
<1> QED
  BY <1>3, <1>13 DEF grown

\* The signatures made so far stay covered when a request is accepted.
LEMMA OldSignaturesStay ==
  ASSUME requests \in Seq(Request), NEW r \in Request, requests' = Append(requests, r),
         SignaturesCoverOneSession, NEW sig \in signatures
  PROVE  /\ sig.at \in 1 .. Len(requests') /\ requests'[sig.at].P1 = signLast
         /\ \E i \in 1 .. sig.at - 1 :
              /\ OneSession(i, sig.at)'
              /\ sig.path = requests'[i].path
              /\ sig.data = Payload(i, sig.at)'
<1> DEFINE n == sig.at
<1>1. n \in 1 .. Len(requests) /\ requests[n].P1 = signLast
  BY DEF SignaturesCoverOneSession
<1>2. PICK i \in 1 .. n - 1 :
        OneSession(i, n) /\ sig.path = requests[i].path /\ sig.data = Payload(i, n)
  BY DEF SignaturesCoverOneSession
<1>3. n \in 1 .. Len(requests) /\ i \in 1 .. n /\ i \in 1 .. Len(requests)
      /\ Len(requests') = Len(requests) + 1
  BY <1>1, <1>2
<1> HIDE DEF n
<1>4. /\ Payload(i, n)' = Payload(i, n)
      /\ OneSession(i, n)' <=> OneSession(i, n)
      /\ requests'[n] = requests[n]
  BY <1>3, PastIsKept
<1>5. requests'[i] = requests[i]
  BY <1>3
<1> QED
  BY <1>1, <1>2, <1>3, <1>4, <1>5 DEF n

\* A new app has signed nothing and has no session.
LEMMA InitIInv == Init => IInv
<1> SUFFICES ASSUME Init PROVE IInv
  OBVIOUS
<1>1. SessionIsTail
  BY DEF Init, NoSession, SessionIsTail
<1>2. SignaturesCoverOneSession
  BY DEF Init, SignaturesCoverOneSession
<1> QED
  BY InitType, <1>1, <1>2 DEF IInv

\* init opens a session with an empty payload, add extends it, last signs it.
LEMMA NextIInv == IInv /\ [Next]_vars => IInv'
<1> SUFFICES ASSUME IInv, [Next]_vars PROVE IInv'
  OBVIOUS
<1>0. TypeOK /\ SessionIsTail /\ SignaturesCoverOneSession /\ TypeOK'
  BY NextType DEF IInv
<1> DEFINE Entry(m, path) == [P1 |-> m.P1, path |-> path, piece |-> m.piece]
<1>1. PICK n \in Nat : n = Len(requests)
  BY <1>0 DEF TypeOK
<1>2. ASSUME UNCHANGED <<session, requests, signatures>> PROVE IInv'
  <2>1. SessionIsTail'
    BY <1>0, <1>2, ZenonT(30) DEF SessionIsTail, Payload
  <2>2. SignaturesCoverOneSession'
    <3>1. requests' = requests /\ signatures' = signatures
      BY <1>2
    <3> SUFFICES ASSUME NEW sig \in signatures
                 PROVE  /\ sig.at \in 1 .. Len(requests) /\ requests[sig.at].P1 = signLast
                        /\ \E i \in 1 .. sig.at - 1 :
                             /\ OneSession(i, sig.at)'
                             /\ sig.path = requests[i].path
                             /\ sig.data = Payload(i, sig.at)'
      BY <3>1 DEF SignaturesCoverOneSession
    <3>2. ASSUME NEW i, NEW k
          PROVE  Payload(i, k)' = Payload(i, k) /\ (OneSession(i, k)' <=> OneSession(i, k))
      BY <3>1 DEF Payload, OneSession
    <3> QED
      BY <1>0, <3>2 DEF SignaturesCoverOneSession
  <2> QED
    BY <1>0, <2>1, <2>2 DEF IInv
<1>3. ASSUME NEW m \in Messages, NEW path \in Paths, m.P1 \in {signInit, signAdd, signLast},
             requests' = Append(requests, Entry(m, path))
      PROVE  /\ Entry(m, path) \in Request
             /\ Len(requests') = n + 1 /\ requests'[n + 1] = Entry(m, path)
             /\ \A j \in 1 .. n : requests'[j] = requests[j]
  <2>1. Entry(m, path) \in Request
    BY <1>3, MessageFields DEF Request
  <2>2. requests \in Seq(Request)
    BY <1>0 DEF TypeOK
  <2> HIDE DEF Entry
  <2> QED
    BY <1>1, <1>3, <2>1, <2>2
<1>4. ASSUME NEW r \in Request, requests' = Append(requests, r), UNCHANGED signatures
      PROVE  SignaturesCoverOneSession'
  <2>1. requests \in Seq(Request)
    BY <1>0 DEF TypeOK
  <2> QED
    BY <1>0, <1>4, <2>1, OldSignaturesStay DEF SignaturesCoverOneSession
<1>5. ASSUME NEW m \in Messages, SignInit(m) PROVE IInv'
  <2>1. PICK path \in PathsRead(m, 25) :
          /\ session' = [open |-> TRUE, path |-> path, data |-> <<>>]
          /\ requests' = Append(requests, Entry(m, path))
    BY <1>5, Zenon DEF SignInit, Accept
  <2>2. path \in Paths /\ m.P1 = signInit /\ signatures' = signatures
    BY <1>5, MessageFields DEF SignInit
  <2>3. /\ Entry(m, path) \in Request
        /\ Len(requests') = n + 1 /\ requests'[n + 1] = Entry(m, path)
    BY <1>3, <2>1, <2>2
  <2>4. SessionIsTail'
    <3>1. Payload(n + 1, n + 1)' = <<>>
      BY <1>1 DEF Payload
    <3>2. requests'[n + 1].P1 = signInit /\ requests'[n + 1].path = session'.path
      BY <2>1, <2>2, <2>3
    <3>3. session'.data = <<>> /\ n + 1 \in 1 .. n + 1 /\ (n + 1) + 1 .. n + 1 = {}
      BY <1>1, <2>1
    <3> QED
      BY <2>3, <3>1, <3>2, <3>3, Zenon DEF SessionIsTail, Payload
  <2>5. SignaturesCoverOneSession'
    BY <1>4, <2>1, <2>2, <2>3
  <2> QED
    BY <1>0, <2>4, <2>5 DEF IInv
<1>6. ASSUME NEW m \in Messages, SignAdd(m), m.P1 = signAdd PROVE IInv'
  <2> DEFINE r == Entry(m, session.path)
             d == Append(session.data, m.piece)
  <2>1. requests' = Append(requests, r) /\ signatures' = signatures /\ session.open
    BY <1>6, Zenon DEF SignAdd, Accept
  <2>2. session' = [session EXCEPT !.data = d]
    BY <1>6, Zenon DEF SignAdd
  <2>3. session.path \in Paths /\ session \in Session /\ d \in Seq(Pieces)
    BY <1>0, MessageFields DEF TypeOK, Session
  <2>4. /\ r \in Request
        /\ Len(requests') = n + 1 /\ requests'[n + 1] = r
        /\ \A j \in 1 .. n : requests'[j] = requests[j]
    BY <1>3, <1>6, <2>1, <2>3
  <2>5. r.piece = m.piece /\ r.P1 = signAdd
    BY <1>6
  <2>6. session'.path = session.path /\ session'.data = d
    <3> HIDE DEF d
    <3> QED
      BY <2>2, <2>3, SessionExcept
  <2> HIDE DEF r
  <2>7. SessionIsTail'
    <3>1. PICK i \in 1 .. n :
            /\ requests[i].P1 = signInit /\ requests[i].path = session.path
            /\ \A j \in i + 1 .. n : requests[j].P1 = signAdd
            /\ session.data = Payload(i, n)
      BY <1>0, <1>1, <2>1, Zenon DEF SessionIsTail
    <3>2. Payload(i, n + 1)' = Append(Payload(i, n), r.piece)
      <4>1. requests \in Seq(Request)
        BY <1>0 DEF TypeOK
      <4> QED
        BY <1>1, <2>1, <2>4, <4>1, PayloadGrows, Zenon
    <3>3. session'.data = Payload(i, n + 1)'
      BY <2>5, <2>6, <3>1, <3>2
    <3>4. requests'[i].P1 = signInit /\ requests'[i].path = session'.path
      BY <2>4, <2>6, <3>1
    <3>5. \A j \in i + 1 .. n + 1 : requests'[j].P1 = signAdd
      <4>1. \A j \in i + 1 .. n + 1 : j = n + 1 \/ (j \in i + 1 .. n /\ j \in 1 .. n)
        BY <1>1
      <4> QED
        BY <2>4, <2>5, <3>1, <4>1, Zenon
    <3>6. i \in 1 .. n + 1
      BY <1>1
    <3> QED
      BY <2>4, <3>3, <3>4, <3>5, <3>6, Zenon DEF SessionIsTail, Payload
  <2>8. SignaturesCoverOneSession'
    BY <1>4, <2>1, <2>4
  <2> QED
    BY <1>0, <2>7, <2>8 DEF IInv
<1>7. ASSUME NEW m \in Messages, SignLast(m) PROVE IInv'
  <2> DEFINE r == Entry(m, session.path)
             data == Append(session.data, m.piece)
  <2>0. PICK sig : sig = [at |-> n + 1, path |-> session.path, data |-> data, hashes |-> Hashes]
    BY Zenon
  <2>1. /\ requests' = Append(requests, r) /\ session' = NoSession /\ session.open
        /\ m.P1 = signLast
        /\ signatures' \in {signatures, signatures \cup {sig}}
    BY <1>1, <1>7, <2>0 DEF SignLast, Accept
  <2>2. session.path \in Paths
    BY <1>0 DEF TypeOK
  <2>3. /\ r \in Request
        /\ Len(requests') = n + 1 /\ requests'[n + 1] = r
        /\ \A j \in 1 .. n : requests'[j] = requests[j]
    BY <1>3, <2>1, <2>2
  <2>4. r.piece = m.piece /\ r.P1 = signLast
    BY <2>1
  <2>5. sig.at = n + 1 /\ sig.path = session.path /\ sig.data = data
    BY <2>0
  <2> HIDE DEF r
  <2>6. SessionIsTail'
    BY <2>1 DEF SessionIsTail, NoSession
  <2> DEFINE Covered(s) ==
        /\ s.at \in 1 .. Len(requests') /\ requests'[s.at].P1 = signLast
        /\ \E i \in 1 .. s.at - 1 :
             /\ OneSession(i, s.at)'
             /\ s.path = requests'[i].path
             /\ s.data = Payload(i, s.at)'
  <2>7. \A s \in signatures : Covered(s)
    <3>1. requests \in Seq(Request)
      BY <1>0 DEF TypeOK
    <3> QED
      BY <1>0, <2>1, <2>3, <3>1, OldSignaturesStay
  <2>8. Covered(sig)
    <3>1. PICK i \in 1 .. n :
            /\ requests[i].P1 = signInit /\ requests[i].path = session.path
            /\ \A j \in i + 1 .. n : requests[j].P1 = signAdd
            /\ session.data = Payload(i, n)
      BY <1>0, <1>1, <2>1, Zenon DEF SessionIsTail
    <3>2. Payload(i, n + 1)' = Append(Payload(i, n), r.piece)
      <4>1. requests \in Seq(Request)
        BY <1>0 DEF TypeOK
      <4> QED
        BY <1>1, <2>1, <2>3, <4>1, PayloadGrows, Zenon
    <3>3. sig.data = Payload(i, n + 1)'
      BY <2>4, <2>5, <3>1, <3>2
    <3>4. OneSession(i, n + 1)'
      <4>1. (n + 1) - 1 = n /\ \A j \in i + 1 .. n : j \in 1 .. n
        BY <1>1
      <4> QED
        BY <2>3, <3>1, <4>1 DEF OneSession
    <3>5. sig.path = requests'[i].path /\ requests'[n + 1].P1 = signLast
      BY <2>3, <2>4, <2>5, <3>1
    <3>6. n + 1 \in 1 .. Len(requests') /\ i \in 1 .. (n + 1) - 1
      BY <1>1, <2>3
    <3> QED
      BY <2>5, <3>3, <3>4, <3>5, <3>6, Zenon DEF OneSession, Payload
  <2>9. \A s \in signatures' : Covered(s)
    <3> HIDE DEF Covered
    <3> QED
      BY <2>1, <2>7, <2>8
  <2>10. SignaturesCoverOneSession'
    BY <2>9, Zenon DEF SignaturesCoverOneSession, OneSession, Payload
  <2> QED
    BY <1>0, <2>6, <2>10 DEF IInv
<1>8. ASSUME NEW m \in Messages, SignAdd(m), m.P1 # signAdd PROVE IInv'
  <2>1. UNCHANGED <<session, requests, signatures>>
    BY <1>8, Zenon DEF SignAdd
  <2> QED
    BY <1>2, <2>1
<1>9. ASSUME NEW m \in Messages,
             \/ HandleUnrouted(m) \/ HandleTooShort(m) \/ handleGetVersion(m) \/ SignNoSession(m)
             \/ GetAddrFails(m) \/ GetAddrOk(m) \/ GetAddrPanics(m)
      PROVE  IInv'
  <2>1. UNCHANGED <<session, requests, signatures>>
    BY <1>9, Zenon DEF HandleUnrouted, HandleTooShort, handleGetVersion, SignNoSession, GetAddrFails,
                GetAddrOk, GetAddrPanics
  <2> QED
    BY <1>2, <2>1
<1>10. CASE UNCHANGED vars
  <2>1. UNCHANGED <<session, requests, signatures>>
    BY <1>10 DEF vars, cosmosVars
  <2> QED
    BY <1>2, <2>1
<1> HIDE DEF Entry
<1> QED
  BY <1>5, <1>6, <1>7, <1>8, <1>9, <1>10 DEF Next, Handle

\* cosmos.go:142-208: no signature covers pieces of two payloads, part of one, or
\* is made twice from one init, however many requests are sent in whatever order.
THEOREM SignaturesCovered == Spec => []SignaturesCoverOneSession
<1>1. IInv => SignaturesCoverOneSession
  BY DEF IInv
<1> QED
  BY <1>1, InitIInv, NextIInv, PTL DEF Spec

-------------------------------------------------------------------------------
(* Addresses *)

\* The uint8 offsets do not wrap for an HRP length that validate lets through.
LEMMA OffsetsExact ==
  ASSUME NEW m \in Messages, validate(m), m.size >= 6 + m.HRPLength + 20
  PROVE  SlicesFit(m) /\ pathEnd(m) <= m.size
<1>1. m.HRPLength \in 1 .. 83 /\ m.size \in Nat
  BY MessageFields DEF validate
<1>2. hrpEnd(m) = 6 + m.HRPLength
  BY <1>1 DEF hrpEnd
<1>3. pathEnd(m) = 26 + m.HRPLength
  BY <1>1, <1>2 DEF pathEnd
<1>4. pathEnd(m) <= capacity(m.size)
  BY <1>1, <1>3 DEF capacity
<1> QED
  BY <1>1, <1>2, <1>3, <1>4 DEF SlicesFit

\* cosmos.go:225-260: a get-address request that holds all the bytes it announces
\* is answered for its own path, for every HRP length and message size.
THEOREM WholeGetAddrExact == Spec => []WholeGetAddrIsExact
<1>1. Init => WholeGetAddrIsExact
  BY DEF Init, NoAddress, WholeGetAddrIsExact
<1>2. WholeGetAddrIsExact /\ [Next]_vars => WholeGetAddrIsExact'
  <2> SUFFICES ASSUME WholeGetAddrIsExact, [Next]_vars PROVE WholeGetAddrIsExact'
    OBVIOUS
  <2>1. ASSUME UNCHANGED address PROVE WholeGetAddrIsExact'
    BY <2>1 DEF WholeGetAddrIsExact
  <2>2. ASSUME NEW m \in Messages, GetAddrOk(m) PROVE WholeGetAddrIsExact'
    <3>1. PICK path \in PathsRead(m, pathEnd(m)) : Outcome(m, TRUE, path)
      BY <2>2, Zenon DEF GetAddrOk
    <3>2. m.size >= 6 + m.HRPLength + 20 => path = m.path
      BY <2>2, <3>1, OffsetsExact DEF GetAddrOk, PathsRead
    <3> QED
      BY <3>1, <3>2 DEF Outcome, WholeGetAddrIsExact
  <2>3. ASSUME NEW m \in Messages, GetAddrPanics(m) PROVE WholeGetAddrIsExact'
    <3>1. ~(m.size >= 6 + m.HRPLength + 20)
      BY <2>3, OffsetsExact DEF GetAddrPanics
    <3> QED
      BY <2>3, <3>1 DEF GetAddrPanics, Outcome, WholeGetAddrIsExact
  <2>4. ASSUME NEW m \in Messages,
               \/ HandleUnrouted(m) \/ HandleTooShort(m) \/ handleGetVersion(m)
               \/ SignNoSession(m) \/ SignInit(m) \/ SignAdd(m) \/ SignLast(m) \/ GetAddrFails(m)
        PROVE  WholeGetAddrIsExact'
    <3>1. UNCHANGED address
      BY <2>4, Zenon DEF HandleUnrouted, HandleTooShort, handleGetVersion, SignNoSession,
                         SignInit, SignAdd, SignLast, GetAddrFails
    <3> QED
      BY <2>1, <3>1
  <2>5. CASE UNCHANGED vars
    BY <2>1, <2>5 DEF vars, cosmosVars
  <2> QED
    BY <2>2, <2>3, <2>4, <2>5 DEF Next, Handle
<1> QED
  BY <1>1, <1>2, PTL DEF Spec

-------------------------------------------------------------------------------
(* The program *)

\* While the program is alone the session holds the pieces it has sent so far.
SessionIsOwn ==
  stage = "sending" /\ alone =>
    session.open /\ session.path = flow.path /\ session.data = SubSeq(flow.pieces, 1, sent)

\* The inductive invariant of the program with the app.
WInv == WalletTypeOK /\ SessionIsOwn /\ SignedAsSent

-------------------------------------------------------------------------------
(* Which handler answers *)

\* An init request answered with success opened a session.
LEMMA InitOpens ==
  ASSUME NEW m \in Messages, SignRequest(m, signInit), Handle(m), code' = "Success"
  PROVE  SignInit(m)
<1>1. INS(m) = claSignSecp256K1 /\ m.P1 = signInit
  BY DEF SignRequest, INS
<1> QED
  BY <1>1 DEF Handle, HandleUnrouted, UnroutedCode, HandleTooShort, handleGetVersion,
              SignNoSession, SignAdd, SignLast, GetAddrFails, GetAddrOk, GetAddrPanics, GetAddr,
              Respond, claSignSecp256K1, claGetVersion, claGetAddrSecp256K1, signInit, signLast

\* A piece answered with success was taken by an open session.
LEMMA PieceIsTaken ==
  ASSUME NEW m \in Messages, NEW p1 \in {signAdd, signLast}, SignRequest(m, p1), Handle(m),
         code' = "Success"
  PROVE  m.P1 = p1 /\ IF p1 = signAdd THEN SignAdd(m) ELSE SignLast(m)
<1>1. INS(m) = claSignSecp256K1 /\ m.P1 = p1
  BY DEF SignRequest, INS
<1> QED
  BY <1>1 DEF Handle, HandleUnrouted, UnroutedCode, HandleTooShort, handleGetVersion,
              SignNoSession, SignInit, SignAdd, SignLast, GetAddrFails, GetAddrOk, GetAddrPanics,
              GetAddr, Respond, claSignSecp256K1, claGetVersion, claGetAddrSecp256K1, signInit,
              signAdd, signLast

\* A request the app does not accept leaves the session and the signatures alone.
LEMMA QuietHandle ==
  ASSUME TypeOK, NEW m \in Messages, Handle(m), requests' = requests
  PROVE  UNCHANGED <<session, signatures>>
<1>1. ASSUME NEW r PROVE requests # Append(requests, r)
  <2>1. Len(Append(requests, r)) = Len(requests) + 1 /\ Len(requests) \in Nat
    BY DEF TypeOK
  <2> QED
    BY <2>1
<1>2. ~SignInit(m) /\ ~SignLast(m)
  BY <1>1, Zenon DEF SignInit, SignLast, Accept
<1>3. CASE SignAdd(m)
  BY <1>1, <1>3 DEF SignAdd, Accept
<1>4. CASE \/ HandleUnrouted(m) \/ HandleTooShort(m) \/ handleGetVersion(m) \/ SignNoSession(m)
           \/ GetAddrFails(m) \/ GetAddrOk(m) \/ GetAddrPanics(m)
  BY <1>4, Zenon DEF HandleUnrouted, HandleTooShort, handleGetVersion, SignNoSession, GetAddrFails,
              GetAddrOk, GetAddrPanics
<1> QED
  BY <1>2, <1>3, <1>4 DEF Handle

\* One more piece of a payload.
LEMMA PrefixGrows ==
  ASSUME NEW s \in Seq(Pieces), NEW n \in 0 .. Len(s), n < Len(s)
  PROVE  Append(SubSeq(s, 1, n), s[n + 1]) = SubSeq(s, 1, n + 1)
<1>1. n + 1 \in 1 .. Len(s) /\ (n + 1) - 1 = n /\ 1 \in 1 .. Len(s)
  OBVIOUS
<1>2. SubSeq(s, 1, n + 1) = SubSeq(s, 1, n) \o <<s[n + 1]>>
  BY <1>1, SubSeqRecursiveSecond
<1>3. s[n + 1] \in Pieces /\ \A i \in 1 .. n : s[i] \in Pieces
  BY <1>1
<1>4. SubSeq(s, 1, n) \in Seq(Pieces)
  BY <1>3, SubSeqProperties
<1> QED
  BY <1>2, <1>3, <1>4, AppendIsConcat

-------------------------------------------------------------------------------
(* The invariant *)

\* The program has sent nothing yet.
LEMMA InitWInv == WalletInit => WInv
<1> SUFFICES ASSUME WalletInit PROVE WInv
  OBVIOUS
<1>1. TypeOK
  BY InitType DEF WalletInit
<1>2. flow \in Flows /\ flow.pieces \in Seq(Pieces)
  BY WalletAssumption DEF WalletInit
<1>3. 0 \in 0 .. Len(flow.pieces)
  BY <1>2
<1> QED
  BY <1>1, <1>2, <1>3, Zenon DEF WalletInit, WInv, WalletTypeOK, SessionIsOwn, SignedAsSent

\* Every request, of the program or of anybody else, keeps it.
LEMMA NextWInv == WInv /\ [WalletNext]_walletVars => WInv'
<1> SUFFICES ASSUME WInv, [WalletNext]_walletVars PROVE WInv'
  OBVIOUS
<1>0. /\ TypeOK /\ WalletTypeOK /\ SessionIsOwn /\ SignedAsSent
      /\ flow \in Flows /\ flow.pieces \in Seq(Pieces) /\ Len(flow.pieces) \in Nat
      /\ sent \in 0 .. Len(flow.pieces)
  BY WalletAssumption DEF WInv, WalletTypeOK
<1>1. ASSUME NEW m \in Messages, NEW f \in Flows, Begin(f, m) PROVE WInv'
  <2>1. TypeOK'
    BY <1>0, <1>1, NextType DEF Begin, Next
  <2>2. f.pieces \in Seq(Pieces) /\ 0 \in 0 .. Len(f.pieces)
    BY WalletAssumption
  <2>3. WalletTypeOK'
    BY <1>1, <2>1, <2>2 DEF Begin, WalletTypeOK
  <2>4. SessionIsOwn'
    <3>1. CASE code' = "Success"
      <4>1. SignInit(m) /\ m.path = f.path /\ m.size >= 25
        BY <1>1, <3>1, InitOpens DEF Begin, SignRequest
      <4>2. session' = [open |-> TRUE, path |-> f.path, data |-> <<>>]
        BY <4>1, Zenon DEF SignInit, PathsRead
      <4>3. SubSeq(f.pieces, 1, 0) = <<>>
        BY SubSeqEmpty
      <4> QED
        BY <1>1, <4>2, <4>3 DEF Begin, SessionIsOwn
    <3>2. CASE code' # "Success"
      BY <1>1, <3>2 DEF Begin, SessionIsOwn
    <3> QED
      BY <3>1, <3>2
  <2>5. SignedAsSent'
    BY <1>1 DEF Begin, SignedAsSent
  <2> QED
    BY <2>3, <2>4, <2>5 DEF WInv
<1>2. ASSUME NEW m \in Messages, Send(m) PROVE WInv'
  <2>1. TypeOK'
    BY <1>0, <1>2, NextType DEF Send, Next
  <2>2. WalletTypeOK'
    BY <1>0, <1>2, <2>1 DEF Send, WalletTypeOK
  <2>3. CASE code' # "Success"
    BY <1>2, <2>2, <2>3 DEF Send, WInv, SessionIsOwn, SignedAsSent
  <2>4. CASE code' = "Success" /\ alone
    <3>1. /\ stage = "sending" /\ sent < Len(flow.pieces) /\ m.piece = flow.pieces[sent + 1]
          /\ sent' = sent + 1 /\ flow' = flow /\ alone'
          /\ stage' = IF sent + 1 = Len(flow.pieces) THEN "signed" ELSE "sending"
      BY <1>2, <2>4 DEF Send, IsPiece
    <3>2. session.path = flow.path /\ session.data = SubSeq(flow.pieces, 1, sent)
      BY <1>0, <2>4, <3>1 DEF SessionIsOwn
    <3>3. Append(session.data, m.piece) = SubSeq(flow.pieces, 1, sent + 1)
      BY <1>0, <3>1, <3>2, PrefixGrows
    <3>4. CASE sent + 1 # Len(flow.pieces)
      <4>1. SignAdd(m) /\ m.P1 = signAdd
        BY <1>2, <2>4, <3>4, PieceIsTaken DEF Send, IsPiece
      <4> DEFINE d == Append(session.data, m.piece)
      <4>2. session' = [session EXCEPT !.data = d]
        BY <4>1, Zenon DEF SignAdd
      <4>3. session \in Session /\ d \in Seq(Pieces)
        BY <1>0, MessageFields DEF TypeOK, Session
      <4>4. session.open
        BY <4>1 DEF SignAdd
      <4> HIDE DEF d
      <4>5. session'.path = flow.path /\ session'.data = d /\ session'.open
        BY <3>2, <4>2, <4>3, <4>4, SessionExcept DEF Session
      <4>6. d = SubSeq(flow'.pieces, 1, sent')
        BY <3>1, <3>3 DEF d
      <4>7. SessionIsOwn'
        BY <4>5, <4>6, <3>1 DEF SessionIsOwn
      <4>8. SignedAsSent'
        BY <3>1, <3>4 DEF SignedAsSent
      <4> QED
        BY <2>2, <4>7, <4>8 DEF WInv
    <3>5. CASE sent + 1 = Len(flow.pieces)
      <4>1. SignLast(m)
        BY <1>2, <2>4, <3>5, PieceIsTaken DEF Send, IsPiece, signAdd, signLast
      <4>2. Append(session.data, m.piece) = flow.pieces
        BY <1>0, <3>3, <3>5, SubSeqFull, Zenon
      <4> DEFINE sig == [at |-> Len(requests) + 1, path |-> session.path,
                         data |-> Append(session.data, m.piece), hashes |-> Hashes]
                 r == [P1 |-> m.P1, path |-> session.path, piece |-> m.piece]
      <4>3. sig \in signatures' /\ requests' = Append(requests, r)
        BY <2>4, <4>1 DEF SignLast, Respond, Accept
      <4>4. Len(requests') = Len(requests) + 1
        BY <1>0, <4>3 DEF TypeOK
      <4>5. sig.at = Len(requests') /\ sig.path = flow'.path /\ sig.data = flow'.pieces
        BY <3>1, <3>2, <4>2, <4>4, Zenon
      <4>6. SignedAsSent'
        BY <4>3, <4>5, Zenon DEF SignedAsSent
      <4>7. SessionIsOwn'
        BY <3>1, <3>5 DEF SessionIsOwn
      <4> QED
        BY <2>2, <4>6, <4>7 DEF WInv
    <3> QED
      BY <3>4, <3>5
  <2>5. CASE ~alone
    BY <1>2, <2>2, <2>5 DEF Send, WInv, SessionIsOwn, SignedAsSent
  <2> QED
    BY <2>3, <2>4, <2>5
<1>3. ASSUME NEW m \in Messages, Other(m) PROVE WInv'
  <2>1. TypeOK'
    BY <1>0, <1>3, NextType DEF Other, Next
  <2>2. WalletTypeOK'
    BY <1>0, <1>3, <2>1 DEF Other, WalletTypeOK
  <2>3. CASE requests' = requests
    <3>1. UNCHANGED <<session, signatures>>
      BY <1>0, <1>3, <2>3, QuietHandle DEF Other
    <3> QED
      BY <1>0, <1>3, <2>2, <2>3, <3>1, Zenon DEF Other, WInv, SessionIsOwn, SignedAsSent
  <2>4. CASE requests' # requests
    BY <1>3, <2>2, <2>4, Zenon DEF Other, WInv, SessionIsOwn, SignedAsSent
  <2> QED
    BY <2>3, <2>4
<1>4. CASE UNCHANGED walletVars
  <2>1. TypeOK'
    BY <1>0, <1>4, NextType DEF walletVars
  <2>2. UNCHANGED <<session, requests, signatures, stage, flow, sent, alone>>
    BY <1>4 DEF walletVars, vars, cosmosVars
  <2> QED
    BY <1>0, <2>1, <2>2 DEF WInv, WalletTypeOK, SessionIsOwn, SignedAsSent
<1> QED
  BY <1>1, <1>2, <1>3, <1>4 DEF WalletNext

\* cosmos.go:104-215: for payloads of any length, whatever others send in between
\* without its being accepted, a program has signed what it sent.
THEOREM SignedAsSentHolds == WalletSpec => []SignedAsSent
<1>1. WInv => SignedAsSent
  BY DEF WInv
<1> QED
  BY <1>1, InitWInv, NextWInv, PTL DEF WalletSpec

\* cosmos.go:104-215 with its host: the app keeps its types, and accepts no more pieces
\* than the program's payload has.
THEOREM WalletTypeCorrect == WalletSpec => []WalletTypeOK
<1>1. WInv => WalletTypeOK
  BY DEF WInv
<1> QED
  BY <1>1, InitWInv, NextWInv, PTL DEF WalletSpec

\* The program and the others together are a host of the Cosmos module, so that all
\* that is proved of the app for any host holds for them.
THEOREM WalletIsAHost == WalletSpec => Spec
<1>1. WalletInit => Init
  BY DEF WalletInit
<1>2. [WalletNext]_walletVars => [Next]_vars
  BY DEF WalletNext, Begin, Send, Other, Next, walletVars
<1> QED
  BY <1>1, <1>2, PTL DEF WalletSpec, Spec
===============================================================================
