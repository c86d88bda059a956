------------------------------ MODULE Derivation ------------------------------
(***************************************************************************)
(* crypto/crypto.go: from the 20 bytes of a derivation path on the wire to *)
(* the child indexes that KeyFromPath derives.  Key material is left out:  *)
(* a derived key is the sequence of the indexes that lead to it.  A uint32 *)
(* has four bytes of Base values each, and its top half is hardened.       *)
(***************************************************************************)
EXTENDS Integers, Sequences

CONSTANTS
  Base,   \* values of a byte (256 in the code)
  Words   \* four-byte words a path on the wire may consist of

Byte == 0 .. Base - 1
Word == [1 .. 4 -> Byte]

ASSUME BaseAssumption ==
  /\ Base \in Nat /\ Base >= 2
  /\ \E half \in 1 .. Base : Base = 2 * half
  /\ Words \subseteq Word

UintMod == Base * Base * Base * Base
HardenedKeyStart == UintMod \div 2
Uint == 0 .. UintMod - 1

VARIABLES
  wire,    \* the five words of the request
  path,    \* crypto.DerivationPath, in order
  pc,      \* "idle", "parse", "derive", "done" or "failed"
  child    \* the key derived so far: the indexes of its derivation

vars == <<wire, path, pc, child>>

\* Type correctness: five uint32 components, at most five of them derived.
TypeOK ==
  /\ wire \in [1 .. 5 -> Word]
  /\ path \in [1 .. 5 -> Uint]
  /\ pc \in {"idle", "parse", "derive", "done", "failed"}
  /\ child \in Seq(Uint) /\ Len(child) <= 5

ZeroPath == [i \in 1 .. 5 |-> 0]
ZeroWire == [i \in 1 .. 5 |-> [j \in 1 .. 4 |-> 0]]

Init == wire = ZeroWire /\ path = ZeroPath /\ pc = "idle" /\ child = <<>>

\* A command of the host brings a path.
Request ==
  /\ pc = "idle"
  /\ wire' \in [1 .. 5 -> Words]
  /\ pc' = "parse"
  /\ UNCHANGED <<path, child>>

LittleEndian(w) == w[1] + Base * (w[2] + Base * (w[3] + Base * w[4]))

\* x ^ 0x80000000
FlipTopBit(x) == IF x < HardenedKeyStart THEN x + HardenedKeyStart ELSE x - HardenedKeyStart

\* Mutant: the hardened bit is set instead of flipped.
NewDerivationPathSettingBit ==
  /\ pc = "parse"
  /\ path' = [i \in 1 .. 5 |->
                LET x == LittleEndian(wire[i])
                IN  IF i <= 3 /\ x < HardenedKeyStart THEN x + HardenedKeyStart ELSE x]
  /\ pc' = "derive"
  /\ UNCHANGED <<wire, child>>

NewDerivationPathFromBytes ==
  /\ pc = "parse"
  /\ path' = [i \in 1 .. 5 |->
                IF i <= 3 THEN FlipTopBit(LittleEndian(wire[i])) ELSE LittleEndian(wire[i])]
  /\ pc' = "derive"
  /\ UNCHANGED <<wire, child>>

mustHarden(i) == i <= 3

\* Mutant: the sum is not a uint32.
ChildIndexWide(i) == IF mustHarden(i) THEN path[i] + HardenedKeyStart ELSE path[i]

\* The index KeyFromPath asks Child for in round i of its loop: a uint32 sum.
ChildIndex(i) ==
  IF mustHarden(i) THEN (path[i] + HardenedKeyStart) % UintMod ELSE path[i]

\* One round of the loop.
KeyFromPath ==
  /\ pc = "derive"
  /\ child' = Append(child, ChildIndex(Len(child) + 1))
  /\ pc' = IF Len(child) + 1 = 5 THEN "done" ELSE "derive"
  /\ UNCHANGED <<wire, path>>

\* hdkeychain finds no valid child at this index (external).
ChildFails ==
  /\ pc = "derive"
  /\ pc' = "failed"
  /\ child' = <<>>
  /\ UNCHANGED <<wire, path>>

\* The command is over, whether or not it needed its key; nothing is kept.
Answered ==
  /\ pc # "idle"
  /\ wire' = ZeroWire /\ path' = ZeroPath /\ pc' = "idle" /\ child' = <<>>

Next == Request \/ NewDerivationPathFromBytes \/ KeyFromPath \/ ChildFails \/ Answered

Spec == Init /\ [][Next]_vars

-------------------------------------------------------------------------------
(* Properties *)

\* x is the index the host asked for in word i.  crypto.go:105 says that purpose, coin type
\* and account are hardened "by default": whether a word of theirs that is not is derived
\* as it is, as the code does, or hardened, is left open.
IsIndexAsked(x, i) ==
  LET w == LittleEndian(wire[i])
  IN  x = w \/ (i <= 3 /\ w < HardenedKeyStart /\ x = w + HardenedKeyStart)

\* crypto.go:72-80, 105-130.  The bit that the path's parser flips and the one that
\* KeyFromPath adds, modulo 2^32, cancel out: the key is derived along the indexes the
\* host sent, all five of them and in order, at a hardened word exactly there, and no
\* word of change and address index is hardened unasked.
KeyIsAtWirePath ==
  /\ \A i \in 1 .. Len(child) : IsIndexAsked(child[i], i)
  /\ pc = "done" => Len(child) = 5
===============================================================================
