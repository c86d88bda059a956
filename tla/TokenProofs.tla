------------------------------ MODULE TokenProofs -----------------------------
(***************************************************************************)
(* For every number of values of a byte, even and at least two, and all    *)
(* words: the key derived is the one at the path on the wire, and both     *)
(* tokens answer with the key at the path of the command under way,        *)
(* provided that the applet is reached by a RemoteCall.                    *)
(***************************************************************************)
EXTENDS Token, TLAPS

\* Half is what the top bit weighs, and UintMod is twice as much.
LEMMA UintFacts ==
  /\ UintMod \in Nat /\ UintMod >= 2
  /\ HardenedKeyStart \in Nat /\ UintMod = 2 * HardenedKeyStart
<1>1. PICK half \in 1 .. Base : Base = 2 * half
  BY BaseAssumption
<1> DEFINE h == half * Base * Base * Base
<1>2. Base * Base \in Nat /\ Base * Base >= 2
  BY BaseAssumption
<1>3. Base * Base * Base \in Nat /\ Base * Base * Base >= 2
  BY BaseAssumption, <1>2
<1>4. h \in Nat /\ h >= 1
  BY <1>1, <1>3, BaseAssumption
<1>5. UintMod = 2 * h
  BY <1>1, <1>3, BaseAssumption DEF UintMod
<1>6. HardenedKeyStart = h
  BY <1>4, <1>5 DEF HardenedKeyStart
<1> QED
  BY <1>4, <1>5, <1>6

\* One step of Horner's rule stays within the next power of Base.
LEMMA HornerStep ==
  ASSUME NEW b \in Byte, NEW m \in Nat \ {0}, NEW x \in 0 .. m - 1
  PROVE  b + Base * x \in 0 .. (m * Base) - 1
<1>1. Base \in Nat /\ Base >= 2 /\ b \in 0 .. Base - 1
  BY BaseAssumption DEF Byte
<1>2. Base * x \in Nat /\ m * Base \in Nat
  BY <1>1
<1>3. Base * x <= Base * (m - 1)
  BY <1>1
<1>4. Base * (m - 1) = m * Base - Base
  BY <1>1
<1> QED
  BY <1>1, <1>2, <1>3, <1>4

\* binary.LittleEndian.Uint32 returns a uint32.
LEMMA LittleEndianType == \A w \in Word : LittleEndian(w) \in Uint
<1> SUFFICES ASSUME NEW w \in Word PROVE LittleEndian(w) \in Uint
  OBVIOUS
<1>1. w[1] \in Byte /\ w[2] \in Byte /\ w[3] \in Byte /\ w[4] \in Byte
  BY DEF Word
<1>2. Base \in Nat \ {0} /\ Base * Base \in Nat \ {0} /\ Base * Base * Base \in Nat \ {0}
  BY BaseAssumption
<1>3. w[4] \in 0 .. Base - 1
  BY <1>1 DEF Byte
<1>4. w[3] + Base * w[4] \in 0 .. (Base * Base) - 1
  BY <1>1, <1>2, <1>3, HornerStep, Zenon
<1>5. w[2] + Base * (w[3] + Base * w[4]) \in 0 .. (Base * Base * Base) - 1
  BY <1>1, <1>2, <1>4, HornerStep, Zenon
<1>6. w[1] + Base * (w[2] + Base * (w[3] + Base * w[4])) \in 0 .. (Base * Base * Base * Base) - 1
  BY <1>1, <1>2, <1>5, HornerStep, Zenon
<1> QED
  BY <1>6 DEF LittleEndian, Uint, UintMod

\* The parser's exclusive or, then the uint32 sum of KeyFromPath, give back the
\* component.
LEMMA FlipThenHarden ==
  ASSUME NEW x \in Uint
  PROVE  /\ FlipTopBit(x) \in Uint
         /\ (FlipTopBit(x) + HardenedKeyStart) % UintMod = x
<1> USE UintFacts DEF Uint, FlipTopBit
<1>1. CASE x < HardenedKeyStart
  <2>1. FlipTopBit(x) + HardenedKeyStart = x + UintMod
    BY <1>1
  <2>2. (x + UintMod) % UintMod = x
    BY SMT
  <2> QED
    BY <1>1, <2>1, <2>2
<1>2. CASE x >= HardenedKeyStart
  <2>1. FlipTopBit(x) + HardenedKeyStart = x
    BY <1>2
  <2>2. x % UintMod = x
    BY SMT
  <2> QED
    BY <1>2, <2>1, <2>2
<1> QED
  BY <1>1, <1>2

-------------------------------------------------------------------------------
(* The inductive invariant *)

\* What the parser leaves in path.
PathIsParsed ==
  \A i \in 1 .. 5 :
    path[i] = IF i <= 3 THEN FlipTopBit(LittleEndian(wire[i])) ELSE LittleEndian(wire[i])

\* More exactly than KeyIsAtWirePath has it, each index is the word on the wire.
KeyIsWire ==
  /\ \A i \in 1 .. Len(child) : child[i] = LittleEndian(wire[i])
  /\ pc = "done" => Len(child) = 5

\* The inductive invariant of the derivation.
IInv ==
  /\ TypeOK
  /\ KeyIsWire
  /\ pc = "derive" => PathIsParsed
  /\ pc = "derive" => Len(child) < 5
  /\ pc \in {"idle", "parse"} => child = <<>>

\* The index that KeyFromPath asks for is the component on the wire.
LEMMA ChildIndexIsWire ==
  ASSUME TypeOK, PathIsParsed, NEW i \in 1 .. 5
  PROVE  ChildIndex(i) = LittleEndian(wire[i]) /\ LittleEndian(wire[i]) \in Uint
<1>1. LittleEndian(wire[i]) \in Uint
  BY LittleEndianType DEF TypeOK
<1>2. CASE i <= 3
  <2>1. path[i] = FlipTopBit(LittleEndian(wire[i]))
    BY <1>2 DEF PathIsParsed
  <2>2. (path[i] + HardenedKeyStart) % UintMod = LittleEndian(wire[i])
    BY <1>1, <2>1, FlipThenHarden
  <2> QED
    BY <1>1, <1>2, <2>2 DEF ChildIndex, mustHarden
<1>3. CASE ~(i <= 3)
  BY <1>1, <1>3 DEF ChildIndex, mustHarden, PathIsParsed
<1> QED
  BY <1>2, <1>3

\* All zeros is a path, on the wire and off it.
LEMMA ZeroTypes == ZeroWire \in [1 .. 5 -> Word] /\ ZeroPath \in [1 .. 5 -> Uint]
<1>1. 0 \in Byte
  BY BaseAssumption DEF Byte
<1>2. 0 \in Uint
  BY UintFacts DEF Uint
<1> QED
  BY <1>1, <1>2 DEF ZeroWire, ZeroPath, Word

\* Nothing is parsed or derived at first.
LEMMA InitIInv == Init => IInv
  BY ZeroTypes DEF Init, IInv, TypeOK, KeyIsWire

\* Parsing establishes PathIsParsed; each derived child then follows the wire.
LEMMA NextIInv == IInv /\ [Next]_vars => IInv'
<1> SUFFICES ASSUME IInv, [Next]_vars PROVE IInv'
  OBVIOUS
<1>1. CASE NewDerivationPathFromBytes
  <2> USE <1>1 DEF NewDerivationPathFromBytes
  <2>1. child = <<>> /\ wire \in [1 .. 5 -> Word]
    BY DEF IInv, TypeOK
  <2>2. ASSUME NEW i \in 1 .. 5
        PROVE  LittleEndian(wire[i]) \in Uint /\ FlipTopBit(LittleEndian(wire[i])) \in Uint
    <3>1. LittleEndian(wire[i]) \in Uint
      BY <2>1, LittleEndianType
    <3> QED
      BY <3>1, FlipThenHarden
  <2>3. path' \in [1 .. 5 -> Uint]
    BY <2>2
  <2>4. PathIsParsed'
    BY DEF PathIsParsed, LittleEndian
  <2>5. TypeOK'
    BY <2>1, <2>3 DEF IInv, TypeOK
  <2>6. KeyIsWire'
    BY <2>1 DEF KeyIsWire
  <2> QED
    BY <2>1, <2>4, <2>5, <2>6 DEF IInv
<1>2. CASE KeyFromPath
  <2> DEFINE n == Len(child) + 1
  <2> USE <1>2 DEF KeyFromPath
  <2>1. PathIsParsed /\ TypeOK /\ n \in 1 .. 5 /\ child \in Seq(Uint)
    BY DEF IInv, TypeOK
  <2>2. ChildIndex(n) = LittleEndian(wire[n]) /\ LittleEndian(wire[n]) \in Uint
    BY <2>1, ChildIndexIsWire
  <2>3. child' = Append(child, LittleEndian(wire[n])) /\ Len(child') = n
    BY <2>1, <2>2
  <2>4. TypeOK'
    BY <2>1, <2>2, <2>3 DEF TypeOK
  <2>5. PathIsParsed'
    BY <2>1 DEF PathIsParsed, LittleEndian
  <2>6. KeyIsWire'
    <3>1. ASSUME NEW i \in 1 .. n PROVE child'[i] = LittleEndian(wire[i])
      BY <2>1, <2>3 DEF IInv, KeyIsWire
    <3>2. wire' = wire
      OBVIOUS
    <3> QED
      BY <2>1, <2>3, <3>1, <3>2 DEF KeyIsWire, LittleEndian
  <2>7. pc' = "derive" => Len(child') < 5
    BY <2>1, <2>3
  <2> QED
    BY <2>4, <2>5, <2>6, <2>7 DEF IInv
<1>3. CASE ChildFails
  BY <1>3 DEF ChildFails, IInv, TypeOK, KeyIsWire
<1>4. CASE Request
  <2>1. wire' \in [1 .. 5 -> Word]
    BY <1>4, BaseAssumption DEF Request
  <2> QED
    BY <1>4, <2>1 DEF Request, IInv, TypeOK, KeyIsWire
<1>5. CASE Answered
  BY <1>5, ZeroTypes DEF Answered, IInv, TypeOK, KeyIsWire
<1>6. CASE UNCHANGED vars
  BY <1>6 DEF vars, IInv, TypeOK, KeyIsWire, PathIsParsed, LittleEndian
<1> QED
  BY <1>1, <1>2, <1>3, <1>4, <1>5, <1>6 DEF Next

\* crypto.go:72-130: components are uint32s throughout and at most five children
\* are derived, for every Base.
THEOREM TypeCorrect == Spec => []TypeOK
<1>1. IInv => TypeOK
  BY DEF IInv
<1> QED
  BY <1>1, InitIInv, NextIInv, PTL DEF Spec

\* crypto.go:72-80, 105-130: the parser's flip and KeyFromPath's sum cancel out,
\* so that the key is at the path on the wire, for every Base and all words.
THEOREM KeyAtWirePath == Spec => []KeyIsAtWirePath
<1>1. IInv => KeyIsAtWirePath
  BY DEF IInv, KeyIsWire, KeyIsAtWirePath, IsIndexAsked
<1> QED
  BY <1>1, InitIInv, NextIInv, PTL DEF Spec

-------------------------------------------------------------------------------
(* The tokens *)

\* Where the caller, or the applet, is: what it holds, and how far the derivation
\* has come.  The path in the request is the one parsed, so that decoding it again
\* changes nothing.
CallerHolds ==
  /\ at \in {"idle", "down"} => pc = "idle"
  /\ at # "end" => result = Nothing
  /\ at = "ready" /\ kind = "dumb" => pc = "done" /\ session = child
  /\ at = "ready" /\ kind = "tee" => pc = "derive" /\ session = path
  /\ result.op \in Ops =>
       result = Output(op, child) /\ (op \in {"Sign", "PublicKey"} => pc = "done")

\* Until it is answered the request is that of the operation under way.
AppletHolds ==
  /\ at \in {"mail", "derive", "compute"} => req.op = op /\ answer = NoCall
  /\ at = "mail" => req.path = path
  /\ at = "compute" /\ HasPath(op) => pc = "done"
  /\ at = "wait" /\ answer # NoCall =>
       reply = Output(op, child) /\ (op \in {"Sign", "PublicKey"} => pc = "done")

\* The inductive invariant of the tokens.
TInv == IInv /\ CallerHolds /\ AppletHolds

\* At rest nothing is held.
LEMMA InitTInv == TokenInit => TInv
<1> SUFFICES ASSUME TokenInit PROVE TInv
  OBVIOUS
<1>1. IInv
  BY InitIInv DEF TokenInit
<1> QED
  BY <1>1 DEF TokenInit, Init, AtRest, TInv, CallerHolds, AppletHolds, Nothing, Ops

\* Every step of the tokens is one of the derivation, or leaves it alone.
LEMMA DerivationSteps == TInv /\ [TokenNext]_tokenVars => [Next]_vars
<1> SUFFICES ASSUME TInv, [TokenNext]_tokenVars PROVE [Next]_vars
  OBVIOUS
<1>1. CASE AppletDecodes
  BY <1>1 DEF AppletDecodes, Decoded, TInv, AppletHolds, vars
<1>2. CASE Ask \/ Parse \/ Initialize \/ Answer \/ AppletInitializes \/ Down
  BY <1>2 DEF Ask, Parse, Initialize, Answer, AppletInitializes, Down, Next
<1>3. CASE \/ Operate \/ TeeInitialize \/ TeeSupportedSignAlgorithms \/ DoRequest
           \/ DoRequestReturns \/ AppletComputes \/ Boot
  BY <1>3 DEF Operate, TeeInitialize, TeeSupportedSignAlgorithms, DoRequest,
              DoRequestReturns, AppletComputes, Boot
<1>4. CASE UNCHANGED tokenVars
  BY <1>4 DEF tokenVars
<1> QED
  BY <1>1, <1>2, <1>3, <1>4 DEF TokenNext

\* The results that are no operation's.
LEMMA NoOps == Nothing.op \notin Ops /\ Failed.op \notin Ops
  BY Zenon DEF Nothing, Failed, Ops

\* Each step keeps what its actor holds.
LEMMA NextTInv == TInv /\ [TokenNext]_tokenVars => TInv'
<1> SUFFICES ASSUME TInv, [TokenNext]_tokenVars PROVE CallerHolds' /\ AppletHolds'
  BY DerivationSteps, NextIInv DEF TInv
<1> USE NoOps DEF TInv, CallerHolds, AppletHolds, callVars
<1>1. CASE Ask
  BY <1>1 DEF Ask, Request
<1>2. CASE Parse
  BY <1>2 DEF Parse, NewDerivationPathFromBytes
<1>3. CASE Initialize
  <2>1. CASE KeyFromPath
    BY <1>3, <2>1 DEF Initialize, KeyFromPath, ChildFails
  <2>2. CASE ChildFails
    BY <1>3, <2>2 DEF Initialize, ChildFails, KeyFromPath
  <2> QED
    BY <1>3, <2>1, <2>2 DEF Initialize
<1>4. CASE Operate
  BY <1>4 DEF Operate, vars
<1>5. CASE TeeInitialize
  BY <1>5 DEF TeeInitialize, vars
<1>6. CASE TeeSupportedSignAlgorithms
  BY <1>6 DEF TeeSupportedSignAlgorithms, vars, Output
<1>7. CASE DoRequest
  BY <1>7 DEF DoRequest, vars, Remote!Call
<1>8. CASE DoRequestReturns
  <2>1. CASE out' = CallError
    BY <1>8, <2>1 DEF DoRequestReturns, vars, Remote!Return
  <2>2. CASE out' # CallError
    <3>1. at = "wait" /\ answer # NoCall
      BY <1>8, <2>2 DEF DoRequestReturns, Remote!Return
    <3> QED
      BY <1>8, <2>2, <3>1 DEF DoRequestReturns, vars
  <2> QED
    BY <2>1, <2>2
<1>9. CASE Answer
  BY <1>9 DEF Answer, Answered
<1>10. CASE AppletDecodes
  BY <1>10 DEF AppletDecodes, Decoded
<1>11. CASE AppletInitializes
  BY <1>11 DEF AppletInitializes, KeyFromPath, ChildFails
<1>12. CASE AppletComputes
  BY <1>12 DEF AppletComputes, vars, Remote!Compute, HasPath
<1>13. CASE Down
  BY <1>13 DEF Down, Answered
<1>14. CASE Boot
  BY <1>14 DEF Boot, vars
<1>15. CASE UNCHANGED tokenVars
  BY <1>15 DEF tokenVars, vars
<1> QED
  BY <1>1, <1>2, <1>3, <1>4, <1>5, <1>6, <1>7, <1>8, <1>9, <1>10, <1>11, <1>12, <1>13,
     <1>14, <1>15, Zenon DEF TokenNext

\* crypto_token.go, tee_token.go and request.go:116-233: for all paths on the wire, an
\* operation that succeeds on either token used the key at the command's own path.
THEOREM AnswersUseOwnKeyHolds == TokenSpec => []AnswersUseOwnKey
<1>1. TInv => AnswersUseOwnKey
  <2> SUFFICES ASSUME TInv, result.op \in Ops
               PROVE  /\ result.op = op
                      /\ op \in {"Sign", "PublicKey"} =>
                           /\ Len(result.key) = 5
                           /\ \A i \in 1 .. 5 : IsIndexAsked(result.key[i], i)
    BY DEF AnswersUseOwnKey
  <2>1. result = Output(op, child) /\ (op \in {"Sign", "PublicKey"} => pc = "done")
    BY DEF TInv, CallerHolds
  <2>2. result.op = op /\ (op \in {"Sign", "PublicKey"} => result.key = child)
    BY <2>1 DEF Output
  <2>3. pc = "done" => Len(child) = 5 /\ \A i \in 1 .. 5 : child[i] = LittleEndian(wire[i])
    BY DEF TInv, IInv, KeyIsWire
  <2> QED
    BY <2>1, <2>2, <2>3 DEF IsIndexAsked
<1> QED
  BY <1>1, InitTInv, NextTInv, PTL DEF TokenSpec

\* crypto.go:105-130 as its callers use it: behind either token the derivation is
\* that of Derivation, so that what is proved of it holds here.
THEOREM TokensDerive == TokenSpec => Spec
<1>1. TokenInit => Init
  BY DEF TokenInit
<1> QED
  BY <1>1, InitTInv, NextTInv, DerivationSteps, PTL DEF TokenSpec, Spec

-------------------------------------------------------------------------------
(* Type correctness *)

\* A command under way has an operation, and a request carries it.
Asked == at \notin {"idle", "down"} => op \in Ops

\* No key, or one at a path of five.
Keys == {<<>>} \cup [1 .. 5 -> Uint]

\* A key derived to its end has five indexes.
LEMMA FiveIndexes ==
  ASSUME NEW c \in Seq(Uint), Len(c) = 5
  PROVE  c \in [1 .. 5 -> Uint]
<1>1. c = [i \in 1 .. 5 |-> c[i]] /\ \A i \in 1 .. 5 : c[i] \in Uint
  OBVIOUS
<1> QED
  BY <1>1

\* What an operation returns on a key, or without one.
LEMMA OutputType ==
  ASSUME NEW o \in Ops, NEW key, o \in {"Sign", "PublicKey"} => key \in Keys
  PROVE  Output(o, key).op \in Ops /\ Output(o, key).key \in Keys
  BY DEF Output, Keys

\* Nothing, and an error.
LEMMA NoOutputType ==
  /\ Nothing.op = "none" /\ Failed.op = "error"
  /\ Nothing.key \in Keys /\ Failed.key \in Keys
  BY DEF Nothing, Failed, Keys

\* The token's own part of TokenTypeOK.
HeldTypes ==
  /\ kind \in {"dumb", "tee"}
  /\ op \in Ops \cup {"none"}
  /\ at \in {"idle", "init", "ready", "end", "mail", "derive", "compute", "wait", "down"}
  /\ session \in Keys
  /\ result.key \in Keys /\ reply.key \in Keys
  /\ result.op \in Ops \cup {"none", "error"} /\ reply.op \in Ops \cup {"none", "error"}

\* RemoteCall's part of it.
CallTypes ==
  /\ phase \in {"idle", "busy", "down"}
  /\ req \in Calls \cup {NoCall} /\ answer \in Calls \cup {NoCall}
  /\ out \in Calls \cup {NoCall, CallError}

\* The inductive invariant that has the types.
TypeInv == TInv /\ Asked /\ HeldTypes /\ CallTypes

\* At rest there is nothing to hold.
LEMMA InitTypeInv == TokenInit => TypeInv
<1> SUFFICES ASSUME TokenInit PROVE TypeInv
  OBVIOUS
<1>1. TInv
  BY InitTInv
<1>2. Asked /\ HeldTypes
  BY NoOutputType DEF TokenInit, AtRest, Asked, HeldTypes, Keys
<1>3. CallTypes
  BY DEF TokenInit, Remote!Init, CallTypes
<1> QED
  BY <1>1, <1>2, <1>3 DEF TypeInv

\* The steps of a call keep its types: the request is an operation and a path.
LEMMA NextCallTypes == TypeInv /\ [TokenNext]_tokenVars => CallTypes'
<1> SUFFICES ASSUME TypeInv, [TokenNext]_tokenVars PROVE CallTypes'
  OBVIOUS
<1> USE DEF CallTypes, TypeInv, callVars
<1>1. CASE DoRequest
  <2>1. op \in Ops /\ session = path /\ path \in [1 .. 5 -> Uint]
    BY <1>1 DEF DoRequest, Asked, TInv, CallerHolds, IInv, TypeOK
  <2>2. [op |-> op, path |-> session] \in Calls
    BY <2>1 DEF Calls
  <2> QED
    BY <1>1, <2>2 DEF DoRequest, Remote!Call
<1>2. CASE DoRequestReturns
  BY <1>2 DEF DoRequestReturns, Remote!Return
<1>3. CASE AppletComputes
  BY <1>3 DEF AppletComputes, Remote!Compute
<1>4. CASE Answer \/ Down \/ Boot
  BY <1>4 DEF Answer, Down, Boot, Remote!Stop, Remote!Restart, Remote!Boot
<1>5. CASE \/ Ask \/ Parse \/ Initialize \/ Operate \/ TeeInitialize
           \/ TeeSupportedSignAlgorithms \/ AppletDecodes \/ AppletInitializes
  BY <1>5 DEF Ask, Parse, Initialize, Operate, TeeInitialize, TeeSupportedSignAlgorithms,
              AppletDecodes, AppletInitializes
<1>6. CASE UNCHANGED tokenVars
  BY <1>6, Zenon DEF tokenVars
<1> QED
  BY <1>1, <1>2, <1>3, <1>4, <1>5, <1>6 DEF TokenNext

\* What the caller and the applet hold keeps its types: a key is whole when used.
LEMMA NextHeldTypes == TypeInv /\ [TokenNext]_tokenVars => Asked' /\ HeldTypes'
<1> SUFFICES ASSUME TypeInv, [TokenNext]_tokenVars PROVE Asked' /\ HeldTypes'
  OBVIOUS
<1>0. IInv'
  BY NextTInv DEF TypeInv, TInv
<1> USE DEF TypeInv, Asked, HeldTypes
<1>1. CASE Ask
  BY <1>1 DEF Ask
<1>2. CASE Parse
  BY <1>2 DEF Parse
<1>3. CASE Initialize
  <2>1. CASE KeyFromPath
    <3>1. pc' = "done" => child' \in [1 .. 5 -> Uint]
      BY <1>0, FiveIndexes DEF IInv, TypeOK, KeyIsWire
    <3> QED
      BY <1>3, <2>1, <3>1, Zenon DEF Initialize, KeyFromPath, ChildFails, Keys
  <2>2. CASE ChildFails
    BY <1>3, <2>2, NoOutputType DEF Initialize, ChildFails, KeyFromPath, Keys
  <2> QED
    BY <1>3, <2>1, <2>2 DEF Initialize
<1>4. CASE Operate
  <2>1. op \in Ops
    BY <1>4 DEF Operate
  <2>2. result' = Output(op, session) \/ result' = Failed
    BY <1>4 DEF Operate
  <2>3. result'.key \in Keys /\ result'.op \in Ops \cup {"none", "error"}
    BY <2>1, <2>2, OutputType, NoOutputType
  <2> QED
    BY <1>4, <2>3 DEF Operate
<1>5. CASE TeeInitialize
  BY <1>5 DEF TeeInitialize, TInv, IInv, TypeOK, Keys
<1>6. CASE TeeSupportedSignAlgorithms
  <2>1. result'.key \in Keys /\ result'.op \in Ops
    BY <1>6, OutputType DEF TeeSupportedSignAlgorithms
  <2> QED
    BY <1>6, <2>1 DEF TeeSupportedSignAlgorithms
<1>7. CASE DoRequest
  BY <1>7 DEF DoRequest
<1>8. CASE DoRequestReturns
  <2>1. result' = Failed \/ result' = reply
    BY <1>8 DEF DoRequestReturns
  <2>2. result'.key \in Keys /\ result'.op \in Ops \cup {"none", "error"}
    BY <2>1, NoOutputType
  <2> QED
    BY <1>8, <2>2 DEF DoRequestReturns
<1>9. CASE Answer \/ Down
  BY <1>9, NoOutputType DEF Answer, Down, Keys
<1>10. CASE AppletDecodes
  BY <1>10 DEF AppletDecodes
<1>11. CASE AppletInitializes
  BY <1>11 DEF AppletInitializes
<1>12. CASE AppletComputes
  <2>1. req.op = op /\ op \in Ops
    BY <1>12 DEF AppletComputes, TInv, AppletHolds
  <2>2. op \in {"Sign", "PublicKey"} => child \in Keys
    <3>1. op \in {"Sign", "PublicKey"} => pc = "done"
      BY <1>12 DEF AppletComputes, TInv, AppletHolds, HasPath
    <3>2. pc = "done" => child \in [1 .. 5 -> Uint]
      BY FiveIndexes DEF TInv, IInv, TypeOK, KeyIsWire
    <3> QED
      BY <3>1, <3>2 DEF Keys
  <2>3. reply' = Output(op, child) \/ reply' = reply
    BY <1>12, <2>1 DEF AppletComputes
  <2>4. reply'.key \in Keys /\ reply'.op \in Ops \cup {"none", "error"}
    BY <2>1, <2>2, <2>3, OutputType
  <2> QED
    BY <1>12, <2>4 DEF AppletComputes
<1>13. CASE Boot
  BY <1>13 DEF Boot
<1>14. CASE UNCHANGED tokenVars
  BY <1>14 DEF tokenVars
<1> QED
  BY <1>1, <1>2, <1>3, <1>4, <1>5, <1>6, <1>7, <1>8, <1>9, <1>10, <1>11, <1>12, <1>13,
     <1>14 DEF TokenNext

\* crypto_token.go, tee_token.go and request.go:116-233: whatever fails and whenever the
\* board goes down, a token holds a whole path or a whole key, or none.
THEOREM TokenTypeCorrect == TokenSpec => []TokenTypeOK
<1>1. TypeInv /\ [TokenNext]_tokenVars => TypeInv'
  BY NextTInv, NextCallTypes, NextHeldTypes DEF TypeInv
<1>2. TypeInv => TokenTypeOK
  BY DEF TypeInv, HeldTypes, CallTypes, Keys, TInv, IInv, TokenTypeOK
<1> QED
  BY <1>1, <1>2, InitTypeInv, PTL DEF TokenSpec
===============================================================================
