--------------------------- MODULE TrustedBootProofs --------------------------
(***************************************************************************)
(* The boot of the trusted OS, for every number of peripheral slots and of *)
(* bus masters that has those configureTrustZone names, on the board and   *)
(* on the emulator.                                                        *)
(***************************************************************************)
EXTENDS TrustedBoot, SequenceTheorems, TLAPS

\* Where the parts of configureTrustZone end.
Granted == 2 * CSL_MAX
Memory == Granted + 3
Controllers == Memory + SA_MAX
Total == Controllers + 8

\* What configureTrustZone writes, and to which registers.
Values == {"SEC_LEVEL_0", "SEC_LEVEL_4", "NonSecure", "Secure"}
Writes == [reg : Registers, value : Values]

\* The registers configureTrustZone names.
LEMMA Known ==
  /\ \A i \in 0 .. CSL_MAX - 1, part \in {0, 1} : Level(i, part) \in Registers
  /\ \A i \in 0 .. SA_MAX - 1 : Access(i, 0) \in Registers
  /\ \A i \in 0 .. 2 : Region(i, 0) \in Registers
  BY DEF Registers

\* A write of one of them.
LEMMA WriteFacts ==
  ASSUME NEW r \in Registers, NEW v \in Values
  PROVE  Write(r, v) \in Writes /\ Write(r, v).reg = r /\ Write(r, v).value = v
  BY DEF Write, Writes

\* The k-th write of a level is to the half (k - 1) % 2 of slot (k - 1) \div 2.
LEMMA SlotOf ==
  ASSUME NEW k \in 1 .. Granted
  PROVE  (k - 1) \div 2 \in 0 .. CSL_MAX - 1 /\ (k - 1) % 2 \in {0, 1}
  BY BootAssumption DEF Granted

\* The parts of configureTrustZone are sequences of writes of known registers.
LEMMA Parts ==
  /\ grantAllPeripherals \in Seq(Writes) /\ Len(grantAllPeripherals) = Granted
  /\ lockMemory \in Seq(Writes) /\ Len(lockMemory) = 3
  /\ allControllersNonSecure \in Seq(Writes) /\ Len(allControllersNonSecure) = SA_MAX
  /\ restrict \in Seq(Writes) /\ Len(restrict) = 8
<1> USE BootAssumption
<1>1. grantAllPeripherals \in Seq(Writes) /\ Len(grantAllPeripherals) = Granted
  <2>1. \A k \in 1 .. Granted :
          Write(Level((k - 1) \div 2, (k - 1) % 2), "SEC_LEVEL_0") \in Writes
    BY SlotOf, Known, WriteFacts DEF Values
  <2>2. Granted \in Nat /\ grantAllPeripherals \in [1 .. Granted -> Writes]
    BY <2>1 DEF Granted, grantAllPeripherals
  <2> QED
    BY <2>2
<1>2. allControllersNonSecure \in Seq(Writes) /\ Len(allControllersNonSecure) = SA_MAX
  <2>1. \A k \in 1 .. SA_MAX : Write(Access(k - 1, 0), "NonSecure") \in Writes
    BY Known, WriteFacts DEF Values
  <2>2. allControllersNonSecure \in [1 .. SA_MAX -> Writes]
    BY <2>1 DEF allControllersNonSecure
  <2> QED
    BY <2>2
<1>3. lockMemory \in Seq(Writes) /\ Len(lockMemory) = 3
  <2>1. /\ Write(Region(0, 0), "NonSecure") \in Writes
        /\ Write(Region(1, 0), "Secure") \in Writes
        /\ Write(Region(2, 0), "Secure") \in Writes
    BY Known, WriteFacts DEF Values
  <2> QED
    BY <2>1 DEF lockMemory
<1>4. restrict \in Seq(Writes) /\ Len(restrict) = 8
  <2>1. /\ Write(Level(2, 1), "SEC_LEVEL_4") \in Writes
        /\ Write(Level(6, 1), "SEC_LEVEL_4") \in Writes
        /\ Write(Level(8, 0), "SEC_LEVEL_0") \in Writes
        /\ Write(Access(4, 0), "NonSecure") \in Writes
    BY Known, WriteFacts DEF Values
  <2>2. /\ Write(Level(13, 0), "SEC_LEVEL_4") \in Writes
        /\ Write(Level(16, 1), "SEC_LEVEL_4") \in Writes
        /\ Write(Level(34, 0), "SEC_LEVEL_4") \in Writes
        /\ Write(Access(14, 0), "Secure") \in Writes
    BY Known, WriteFacts DEF Values
  <2> QED
    BY <2>1, <2>2 DEF restrict
<1> QED
  BY <1>1, <1>2, <1>3, <1>4

\* Two sequences one after the other.
LEMMA Joined ==
  ASSUME NEW s \in Seq(Writes), NEW t \in Seq(Writes)
  PROVE  /\ s \o t \in Seq(Writes) /\ Len(s \o t) = Len(s) + Len(t)
         /\ \A k \in 1 .. Len(s) : (s \o t)[k] = s[k]
         /\ \A k \in Len(s) + 1 .. Len(s) + Len(t) : (s \o t)[k] = t[k - Len(s)]
  OBVIOUS

\* configureTrustZone on the board: its parts one after the other.
LEMMA WholeSequence ==
  ASSUME Native
  PROVE  /\ configureTrustZone \in Seq(Writes) /\ Len(configureTrustZone) = Total
         /\ \A k \in 1 .. Granted : configureTrustZone[k] = grantAllPeripherals[k]
         /\ \A k \in Granted + 1 .. Memory : configureTrustZone[k] = lockMemory[k - Granted]
         /\ \A k \in Memory + 1 .. Controllers :
              configureTrustZone[k] = allControllersNonSecure[k - Memory]
         /\ \A k \in Controllers + 1 .. Total : configureTrustZone[k] = restrict[k - Controllers]
<1>1. Granted \in Nat /\ Memory \in Nat /\ Controllers \in Nat /\ SA_MAX \in Nat
  BY BootAssumption DEF Granted, Memory, Controllers
<1>2. PICK a : a = grantAllPeripherals \o lockMemory
  BY Zenon
<1>3. PICK b : b = a \o allControllersNonSecure
  BY Zenon
<1>4. configureTrustZone = b \o restrict
  BY <1>2, <1>3 DEF configureTrustZone
<1>5. /\ a \in Seq(Writes) /\ Len(a) = Memory
      /\ \A k \in 1 .. Granted : a[k] = grantAllPeripherals[k]
      /\ \A k \in Granted + 1 .. Memory : a[k] = lockMemory[k - Granted]
  <2>1. grantAllPeripherals \in Seq(Writes) /\ lockMemory \in Seq(Writes)
    BY Parts
  <2>2. /\ a \in Seq(Writes) /\ Len(a) = Len(grantAllPeripherals) + Len(lockMemory)
        /\ \A k \in 1 .. Len(grantAllPeripherals) : a[k] = grantAllPeripherals[k]
        /\ \A k \in Len(grantAllPeripherals) + 1 .. Len(grantAllPeripherals) + Len(lockMemory) :
             a[k] = lockMemory[k - Len(grantAllPeripherals)]
    BY <2>1, <1>2, Joined
  <2>3. Len(grantAllPeripherals) = Granted /\ Len(grantAllPeripherals) + Len(lockMemory) = Memory
    BY Parts DEF Memory
  <2> QED
    BY <2>2, <2>3
<1>6. /\ b \in Seq(Writes) /\ Len(b) = Controllers
      /\ \A k \in 1 .. Memory : b[k] = a[k]
      /\ \A k \in Memory + 1 .. Controllers : b[k] = allControllersNonSecure[k - Memory]
  <2>1. a \in Seq(Writes) /\ allControllersNonSecure \in Seq(Writes)
    BY Parts, <1>5
  <2>2. /\ b \in Seq(Writes) /\ Len(b) = Len(a) + Len(allControllersNonSecure)
        /\ \A k \in 1 .. Len(a) : b[k] = a[k]
        /\ \A k \in Len(a) + 1 .. Len(a) + Len(allControllersNonSecure) :
             b[k] = allControllersNonSecure[k - Len(a)]
    BY <2>1, <1>3, Joined
  <2>3. Len(a) = Memory /\ Len(a) + Len(allControllersNonSecure) = Controllers
    BY Parts, <1>5 DEF Controllers
  <2> QED
    BY <2>2, <2>3
<1>7. /\ configureTrustZone \in Seq(Writes) /\ Len(configureTrustZone) = Total
      /\ \A k \in 1 .. Controllers : configureTrustZone[k] = b[k]
      /\ \A k \in Controllers + 1 .. Total : configureTrustZone[k] = restrict[k - Controllers]
  <2>1. b \in Seq(Writes) /\ restrict \in Seq(Writes)
    BY Parts, <1>6
  <2>2. /\ configureTrustZone \in Seq(Writes) /\ Len(configureTrustZone) = Len(b) + Len(restrict)
        /\ \A k \in 1 .. Len(b) : configureTrustZone[k] = b[k]
        /\ \A k \in Len(b) + 1 .. Len(b) + Len(restrict) :
             configureTrustZone[k] = restrict[k - Len(b)]
    BY <2>1, <1>4, Joined
  <2>3. Len(b) = Controllers /\ Len(b) + Len(restrict) = Total
    BY Parts, <1>6 DEF Total
  <2> QED
    BY <2>2, <2>3
<1>8. Granted <= Memory /\ Memory <= Controllers
  BY <1>1 DEF Memory, Controllers
<1>9. /\ \A k \in 1 .. Granted : k \in 1 .. Memory
      /\ \A k \in Granted + 1 .. Memory : k \in 1 .. Memory
      /\ \A k \in 1 .. Memory : k \in 1 .. Controllers
      /\ \A k \in Memory + 1 .. Controllers : k \in 1 .. Controllers
  BY <1>1, <1>8
<1> QED
  BY <1>5, <1>6, <1>7, <1>9

\* The writes themselves, by their places.
LEMMA TheWrites ==
  ASSUME Native
  PROVE  /\ \A k \in 1 .. Granted :
              /\ configureTrustZone[k].reg = Level((k - 1) \div 2, (k - 1) % 2)
              /\ configureTrustZone[k].value = "SEC_LEVEL_0"
         /\ \A k \in Granted + 1 .. Memory :
              /\ configureTrustZone[k].reg = Region(k - Granted - 1, 0)
              /\ configureTrustZone[k].value = IF k = Granted + 1 THEN "NonSecure" ELSE "Secure"
         /\ \A k \in Memory + 1 .. Controllers :
              /\ configureTrustZone[k].reg = Access(k - Memory - 1, 0)
              /\ configureTrustZone[k].value = "NonSecure"
         /\ \A k \in Controllers + 1 .. Total : configureTrustZone[k] = restrict[k - Controllers]
<1>0. Granted \in Nat /\ Memory \in Nat /\ SA_MAX \in Nat
  BY BootAssumption DEF Granted, Memory
<1>1. \A k \in 1 .. Granted :
        /\ grantAllPeripherals[k].reg = Level((k - 1) \div 2, (k - 1) % 2)
        /\ grantAllPeripherals[k].value = "SEC_LEVEL_0"
  BY DEF grantAllPeripherals, Granted, Write
<1>2. \A k \in 1 .. 3 :
        /\ lockMemory[k].reg = Region(k - 1, 0)
        /\ lockMemory[k].value = IF k = 1 THEN "NonSecure" ELSE "Secure"
  BY DEF lockMemory, Write
<1>3. \A k \in 1 .. SA_MAX :
        /\ allControllersNonSecure[k].reg = Access(k - 1, 0)
        /\ allControllersNonSecure[k].value = "NonSecure"
  BY DEF allControllersNonSecure, Write
<1>4. \A k \in Granted + 1 .. Memory : k - Granted \in 1 .. 3 /\ (k = Granted + 1 <=> k - Granted = 1)
  BY <1>0 DEF Memory
<1>5. \A k \in Memory + 1 .. Controllers : k - Memory \in 1 .. SA_MAX
  BY <1>0 DEF Controllers
<1> QED
  BY <1>1, <1>2, <1>3, <1>4, <1>5, WholeSequence

-------------------------------------------------------------------------------
(* What the writes done so far leave behind *)

\* A register holds what the last write of it put there.
LastWritesHold ==
  \A k \in 1 .. written :
    (\A j \in k + 1 .. written : configureTrustZone[j].reg # configureTrustZone[k].reg) =>
      reg[configureTrustZone[k].reg] = configureTrustZone[k].value

\* The inductive invariant of the boot.
BInv == TypeOK /\ LastWritesHold /\ (pc = "run" => written = Len(configureTrustZone))

\* configureTrustZone, on the board or not.
LEMMA SequenceType == configureTrustZone \in Seq(Writes)
<1>1. CASE Native
  BY <1>1, WholeSequence
<1>2. CASE ~Native
  <2>1. configureTrustZone = <<>>
    BY <1>2 DEF configureTrustZone
  <2> QED
    BY <2>1
<1> QED
  BY <1>1, <1>2

\* A board that comes up, at first or after a reset, has no write behind it.
LEMMA BInvInit ==
  ASSUME written = 0, reg = PoweredUp, pc = "register"
  PROVE  BInv
  BY SequenceType DEF BInv, TypeOK, LastWritesHold, PoweredUp

\* One more write overwrites its own register and no other.
LEMMA BInvConfigure ==
  ASSUME BInv, Configure
  PROVE  BInv'
<1> USE DEF BInv, TypeOK
<1>1. PICK w : w = configureTrustZone[written + 1]
  OBVIOUS
<1>2. /\ written \in Nat /\ written < Len(configureTrustZone) /\ Len(configureTrustZone) \in Nat
      /\ written + 1 \in 1 .. Len(configureTrustZone)
  BY SequenceType DEF Configure
<1>3. /\ pc = "configure" /\ pc' = pc /\ written' = written + 1
      /\ reg' = [reg EXCEPT ![w.reg] = w.value]
  BY <1>1 DEF Configure
<1>4. \A k \in 1 .. Len(configureTrustZone) : configureTrustZone[k].reg \in Registers
  <2> SUFFICES ASSUME NEW k \in 1 .. Len(configureTrustZone)
               PROVE  configureTrustZone[k].reg \in Registers
    OBVIOUS
  <2>1. PICK v \in Writes : v = configureTrustZone[k]
    BY SequenceType
  <2>2. v.reg \in Registers
    BY DEF Writes
  <2> QED
    BY <2>1, <2>2
<1>5. DOMAIN reg' = Registers
  BY <1>3
<1>6. TypeOK'
  BY <1>2, <1>3, <1>5
<1>7. LastWritesHold'
  <2> SUFFICES ASSUME NEW k \in 1 .. written + 1,
                      \A j \in k + 1 .. written + 1 :
                        configureTrustZone[j].reg # configureTrustZone[k].reg
               PROVE  reg'[configureTrustZone[k].reg] = configureTrustZone[k].value
    BY <1>3 DEF LastWritesHold
  <2>1. configureTrustZone[k].reg \in DOMAIN reg
    BY <1>2, <1>4
  <2>2. CASE k = written + 1
    BY <1>1, <1>3, <2>1, <2>2
  <2>3. CASE k # written + 1
    <3>1. k \in 1 .. written /\ written + 1 \in k + 1 .. written + 1
      BY <1>2, <2>3
    <3>2. w.reg # configureTrustZone[k].reg
      BY <1>1, <3>1
    <3>3. \A j \in k + 1 .. written : j \in k + 1 .. written + 1
      BY <1>2
    <3>4. reg[configureTrustZone[k].reg] = configureTrustZone[k].value
      BY <3>1, <3>3 DEF LastWritesHold
    <3> QED
      BY <1>3, <2>1, <3>2, <3>4
  <2> QED
    BY <2>2, <2>3
<1> QED
  BY <1>3, <1>6, <1>7

\* The other steps of main write nothing, and only a whole configuration is run.
LEMMA BInvNext == BInv /\ [Next]_vars => BInv'
<1> SUFFICES ASSUME BInv, [Next]_vars PROVE BInv'
  OBVIOUS
<1>1. CASE Configure
  BY <1>1, BInvConfigure
<1>2. CASE Reset
  <2>1. /\ configureTrustZone \in Seq(Writes) /\ Len(configureTrustZone) \in Nat
        /\ written' = 0 /\ reg' = PoweredUp /\ pc' = "register"
    BY <1>2, SequenceType DEF Reset
  <2>2. TypeOK'
    BY <2>1 DEF TypeOK, PoweredUp
  <2>3. LastWritesHold'
    BY <2>1 DEF LastWritesHold
  <2> QED
    BY <2>1, <2>2, <2>3 DEF BInv
<1>3. CASE RegisterApp \/ LoadNonsecureWorld \/ Fails \/ RunNonsecureWorld
             \/ NonsecureWorldStops \/ UNCHANGED vars
  BY <1>3, Zenon DEF RegisterApp, LoadNonsecureWorld, Fails, RunNonsecureWorld, NonsecureWorldStops,
              vars, BInv, TypeOK, LastWritesHold
<1> QED
  BY <1>1, <1>2, <1>3 DEF Next

\* main.go:31-100: the boot's type correctness, after any failures and resets.
THEOREM TypeCorrect == Spec => []TypeOK
<1>1. Init => BInv
  BY BInvInit DEF Init
<1>2. BInv => TypeOK
  BY DEF BInv
<1> QED
  BY <1>1, <1>2, BInvNext, PTL DEF Spec

-------------------------------------------------------------------------------
(* What all of them leave behind *)

\* Registers are told apart by their kinds, their slots and their halves.
LEMMA Apart ==
  /\ \A i, part, j, half : Level(i, part) = Level(j, half) => i = j /\ part = half
  /\ \A i, part, j, half : Access(i, part) = Access(j, half) => i = j
  /\ \A i, part, j, half : Region(i, part) = Region(j, half) => i = j
  /\ \A i, part, j, half : Level(i, part) # Access(j, half)
  /\ \A i, part, j, half : Level(i, part) # Region(j, half)
  /\ \A i, part, j, half : Access(i, part) # Region(j, half)
  BY DEF Level, Access, Region

\* The restrictions, by their places.
LEMMA Restrictions ==
  /\ restrict[1].reg = Level(2, 1) /\ restrict[1].value = "SEC_LEVEL_4"
  /\ restrict[2].reg = Level(6, 1) /\ restrict[2].value = "SEC_LEVEL_4"
  /\ restrict[3].reg = Level(8, 0) /\ restrict[3].value = "SEC_LEVEL_0"
  /\ restrict[4].reg = Access(4, 0) /\ restrict[4].value = "NonSecure"
  /\ restrict[5].reg = Level(13, 0) /\ restrict[5].value = "SEC_LEVEL_4"
  /\ restrict[6].reg = Level(16, 1) /\ restrict[6].value = "SEC_LEVEL_4"
  /\ restrict[7].reg = Level(34, 0) /\ restrict[7].value = "SEC_LEVEL_4"
  /\ restrict[8].reg = Access(14, 0) /\ restrict[8].value = "Secure"
  BY DEF restrict, Write

\* Every place is in one of the four parts.
LEMMA Places ==
  /\ Granted \in Nat /\ Memory \in Nat /\ Controllers \in Nat /\ Total \in Nat
  /\ Granted < Memory /\ Memory < Controllers /\ Controllers < Total
  /\ \A j \in 1 .. Total : \/ j \in 1 .. Granted
                           \/ j \in Granted + 1 .. Memory
                           \/ j \in Memory + 1 .. Controllers
                           \/ j \in Controllers + 1 .. Total
<1>1. CSL_MAX \in Nat /\ SA_MAX \in Nat /\ SA_MAX > 0
  BY BootAssumption
<1> QED
  BY <1>1 DEF Granted, Memory, Controllers, Total

\* The place of a restriction, and the restriction of a place.
LEMMA Last8 ==
  ASSUME NEW j \in Controllers + 1 .. Total
  PROVE  j - Controllers \in 1 .. 8 /\ j = Controllers + (j - Controllers)
  BY Places DEF Total

\* Once the normal world runs, a register holds what the last write of it put there.
LEMMA Settled ==
  ASSUME Native, BInv, pc = "run", NEW k \in 1 .. Total,
         \A j \in k + 1 .. Total : configureTrustZone[j].reg # configureTrustZone[k].reg
  PROVE  reg[configureTrustZone[k].reg] = configureTrustZone[k].value
<1>1. written = Total
  BY WholeSequence DEF BInv
<1> QED
  BY <1>1 DEF BInv, LastWritesHold

\* A restriction that no later one of the eight undoes is in force.
LEMMA Restricted ==
  ASSUME Native, BInv, pc = "run", NEW n \in 1 .. 8,
         \A m \in n + 1 .. 8 : restrict[m].reg # restrict[n].reg
  PROVE  reg[restrict[n].reg] = restrict[n].value
<1>1. Controllers + n \in Controllers + 1 .. Total /\ Controllers + n \in 1 .. Total
  BY Places DEF Total
<1>2. (Controllers + n) - Controllers = n
  BY Places
<1>3. configureTrustZone[Controllers + n] = restrict[n]
  BY <1>1, <1>2, TheWrites
<1>4. \A j \in (Controllers + n) + 1 .. Total :
        configureTrustZone[j].reg # configureTrustZone[Controllers + n].reg
  <2> SUFFICES ASSUME NEW j \in (Controllers + n) + 1 .. Total
               PROVE  configureTrustZone[j].reg # restrict[n].reg
    BY <1>3
  <2>1. j \in Controllers + 1 .. Total /\ j - Controllers \in n + 1 .. 8
    BY Places DEF Total
  <2>2. configureTrustZone[j] = restrict[j - Controllers]
    BY <2>1, TheWrites
  <2> QED
    BY <2>1, <2>2
<1> QED
  BY <1>1, <1>3, <1>4, Settled

\* The slots whose level the restrictions set.
Named == {<<2, 1>>, <<6, 1>>, <<8, 0>>, <<13, 0>>, <<16, 1>>, <<34, 0>>}

\* The memory regions stay as lockMemory made them.
LEMMA RegionsSettled ==
  ASSUME Native, BInv, pc = "run", NEW i \in 0 .. 2
  PROVE  reg[Region(i, 0)] = IF i = 0 THEN "NonSecure" ELSE "Secure"
<1>1. PICK k : k = Granted + 1 + i
  OBVIOUS
<1>2. k \in Granted + 1 .. Memory /\ k \in 1 .. Total /\ k - Granted - 1 = i
      /\ (k = Granted + 1 <=> i = 0)
  BY <1>1, Places DEF Memory
<1>3. /\ configureTrustZone[k].reg = Region(i, 0)
      /\ configureTrustZone[k].value = IF i = 0 THEN "NonSecure" ELSE "Secure"
  BY <1>2, TheWrites
<1>4. ASSUME NEW j \in k + 1 .. Total PROVE configureTrustZone[j].reg # Region(i, 0)
  <2>1. \/ j \in Granted + 1 .. Memory
        \/ j \in Memory + 1 .. Controllers
        \/ j \in Controllers + 1 .. Total
    BY <1>2, Places
  <2>2. CASE j \in Granted + 1 .. Memory
    <3>1. j - Granted - 1 # i
      BY <1>1, <2>2, Places
    <3> QED
      BY <2>2, <3>1, TheWrites, Apart
  <2>3. CASE j \in Memory + 1 .. Controllers
    BY <2>3, TheWrites, Apart
  <2>4. CASE j \in Controllers + 1 .. Total
    BY <2>4, Last8, TheWrites, Restrictions, Apart
  <2> QED
    BY <2>1, <2>2, <2>3, <2>4
<1> QED
  BY <1>2, <1>3, <1>4, Settled

\* Every bus master is Nonsecure but the DCP.
LEMMA AccessSettled ==
  ASSUME Native, BInv, pc = "run", NEW i \in 0 .. SA_MAX - 1
  PROVE  reg[Access(i, 0)] = IF i = 14 THEN "Secure" ELSE "NonSecure"
<1>1. CASE i = 14
  <2>1. reg[restrict[8].reg] = restrict[8].value
    BY Restricted
  <2> QED
    BY <1>1, <2>1, Restrictions
<1>2. CASE i = 4
  <2>1. \A m \in 4 + 1 .. 8 : restrict[m].reg # restrict[4].reg
    BY Restrictions, Apart
  <2>2. reg[restrict[4].reg] = restrict[4].value
    BY <2>1, Restricted
  <2> QED
    BY <1>2, <2>2, Restrictions
<1>3. CASE i # 14 /\ i # 4
  <2>0. SA_MAX \in Nat
    BY BootAssumption
  <2>1. PICK k : k = Memory + 1 + i
    OBVIOUS
  <2>2. k \in Memory + 1 .. Controllers /\ k \in 1 .. Total /\ k - Memory - 1 = i
    BY <2>0, <2>1, Places DEF Controllers
  <2>3. configureTrustZone[k].reg = Access(i, 0) /\ configureTrustZone[k].value = "NonSecure"
    BY <2>2, TheWrites
  <2>4. ASSUME NEW j \in k + 1 .. Total PROVE configureTrustZone[j].reg # Access(i, 0)
    <3>1. j \in Memory + 1 .. Controllers \/ j \in Controllers + 1 .. Total
      BY <2>2, Places
    <3>2. CASE j \in Memory + 1 .. Controllers
      <4>1. j - Memory - 1 # i
        BY <2>1, <3>2, Places
      <4> QED
        BY <3>2, <4>1, TheWrites, Apart
    <3>3. CASE j \in Controllers + 1 .. Total
      <4>1. PICK n \in 1 .. 8 : configureTrustZone[j] = restrict[n]
        BY <3>3, Last8, TheWrites
      <4>2. restrict[n].reg # Access(i, 0)
        BY <1>3, Restrictions, Apart
      <4> QED
        BY <4>1, <4>2
    <3> QED
      BY <3>1, <3>2, <3>3
  <2> QED
    BY <1>3, <2>2, <2>3, <2>4, Settled
<1> QED
  BY <1>1, <1>2, <1>3

\* Every peripheral is granted but the five the trusted OS keeps.
LEMMA LevelsSettled ==
  ASSUME Native, BInv, pc = "run", NEW i \in 0 .. CSL_MAX - 1, NEW part \in {0, 1}
  PROVE  reg[Level(i, part)] =
           IF <<i, part>> \in Named \ {<<8, 0>>} THEN "SEC_LEVEL_4" ELSE "SEC_LEVEL_0"
<1>1. CASE <<i, part>> \in Named
  <2>1. /\ \A m \in 1 + 1 .. 8 : restrict[m].reg # restrict[1].reg
        /\ \A m \in 2 + 1 .. 8 : restrict[m].reg # restrict[2].reg
        /\ \A m \in 3 + 1 .. 8 : restrict[m].reg # restrict[3].reg
        /\ \A m \in 5 + 1 .. 8 : restrict[m].reg # restrict[5].reg
        /\ \A m \in 6 + 1 .. 8 : restrict[m].reg # restrict[6].reg
        /\ \A m \in 7 + 1 .. 8 : restrict[m].reg # restrict[7].reg
    BY Restrictions, Apart
  <2>2. \A n \in {1, 2, 3, 5, 6, 7} : reg[restrict[n].reg] = restrict[n].value
    BY <2>1, Restricted
  <2> QED
    BY <1>1, <2>2, Restrictions DEF Named
<1>2. CASE <<i, part>> \notin Named
  <2>0. CSL_MAX \in Nat
    BY BootAssumption
  <2>1. PICK k : k = 2 * i + part + 1
    OBVIOUS
  <2>2. k \in 1 .. Granted /\ k \in 1 .. Total /\ (k - 1) \div 2 = i /\ (k - 1) % 2 = part
    BY <2>0, <2>1, Places DEF Granted
  <2>3. configureTrustZone[k].reg = Level(i, part) /\ configureTrustZone[k].value = "SEC_LEVEL_0"
    BY <2>2, TheWrites
  <2>4. ASSUME NEW j \in k + 1 .. Total PROVE configureTrustZone[j].reg # Level(i, part)
    <3>1. j \in 1 .. Total
      BY <2>2, Places
    <3>2. CASE j \in 1 .. Granted
      <4>1. (j - 1) \div 2 # i \/ (j - 1) % 2 # part
        BY <2>1, <3>2, Places
      <4> QED
        BY <3>2, <4>1, TheWrites, Apart
    <3>3. CASE j \in Granted + 1 .. Memory
      BY <3>3, TheWrites, Apart
    <3>4. CASE j \in Memory + 1 .. Controllers
      BY <3>4, TheWrites, Apart
    <3>5. CASE j \in Controllers + 1 .. Total
      <4>1. PICK n \in 1 .. 8 : configureTrustZone[j] = restrict[n]
        BY <3>5, Last8, TheWrites
      <4>2. restrict[n].reg # Level(i, part)
        BY <1>2, Restrictions, Apart DEF Named
      <4> QED
        BY <4>1, <4>2
    <3> QED
      BY <3>1, <3>2, <3>3, <3>4, <3>5, Places
  <2> QED
    BY <1>2, <2>2, <2>3, <2>4, Settled
<1> QED
  BY <1>1, <1>2

\* tz.go:272-360, main.go:63-100: for every number of slots and of bus masters, and
\* after any failures and resets, the normal world runs only behind the whole
\* firewall: the last write of every register is the one that counts, and none undoes
\* a restriction made before it.
THEOREM NormalWorldConfinedHolds == Spec => []NormalWorldConfined
<1>1. Init => BInv
  BY BInvInit DEF Init
<1>2. ASSUME BInv PROVE NormalWorldConfined
  <2> SUFFICES ASSUME pc = "run", Native PROVE NormalWorldConfined
    BY DEF NormalWorldConfined
  <2>1. reg[Region(0, 0)] = "NonSecure" /\ reg[Region(1, 0)] = "Secure" /\ reg[Region(2, 0)] = "Secure"
    BY <1>2, RegionsSettled
  <2>2. \A i \in 0 .. SA_MAX - 1 : reg[Access(i, 0)] = IF i = 14 THEN "Secure" ELSE "NonSecure"
    BY <1>2, AccessSettled
  <2>3. \A i \in 0 .. CSL_MAX - 1, part \in {0, 1} :
          reg[Level(i, part)] =
            IF <<i, part>> \in Named \ {<<8, 0>>} THEN "SEC_LEVEL_4" ELSE "SEC_LEVEL_0"
    BY <1>2, LevelsSettled, Zenon
  <2>4. \A r \in {Secure, SecureDMA, Applet} :
          \A addr \in r.start .. r.start + r.size - 1 : Locked(addr)
    BY <2>1 DEF Locked, Within, Covers, Secure, SecureDMA, Applet
  <2>5. \A addr \in NonSecure.start .. NonSecure.start + NonSecure.size - 1 : ~Locked(addr)
    BY <2>1 DEF Locked, Within, Covers, Secure, SecureDMA, Applet, NonSecure
  <2>6. \A r \in Registers : reg[r] # "up"
    <3>1. \A i \in 0 .. 2 : reg[Region(i, 0)] # "up"
      BY <2>1
    <3>2. \A i \in 0 .. SA_MAX - 1 : reg[Access(i, 0)] # "up"
      BY <2>2
    <3>3. \A i \in 0 .. CSL_MAX - 1, part \in {0, 1} : reg[Level(i, part)] # "up"
      BY <2>3, Zenon
    <3> QED
      BY <3>1, <3>2, <3>3 DEF Registers
  <2>7. {Level(2, 1), Level(6, 1), Level(13, 0), Level(16, 1), Level(34, 0)} =
          {r \in Registers : reg[r] = "SEC_LEVEL_4"}
    <3>1. ASSUME NEW r \in Registers, reg[r] = "SEC_LEVEL_4"
          PROVE  r \in {Level(2, 1), Level(6, 1), Level(13, 0), Level(16, 1), Level(34, 0)}
      <4>1. \A i \in 0 .. 2 : reg[Region(i, 0)] # "SEC_LEVEL_4"
        BY <2>1
      <4>2. PICK i \in 0 .. CSL_MAX - 1, part \in {0, 1} : r = Level(i, part)
        BY <2>2, <3>1, <4>1 DEF Registers
      <4>3. <<i, part>> \in Named \ {<<8, 0>>}
        BY <2>3, <3>1, <4>2, Zenon
      <4> QED
        BY <4>2, <4>3 DEF Named
    <3>2. ASSUME NEW r \in {Level(2, 1), Level(6, 1), Level(13, 0), Level(16, 1), Level(34, 0)}
          PROVE  r \in Registers /\ reg[r] = "SEC_LEVEL_4"
      <4>1. PICK i \in 0 .. 34, part \in {0, 1} :
              r = Level(i, part) /\ <<i, part>> \in Named \ {<<8, 0>>}
        BY DEF Named
      <4>2. i \in 0 .. CSL_MAX - 1
        BY BootAssumption
      <4> QED
        BY <2>3, <4>1, <4>2, Known, Zenon
    <3> QED
      BY <3>1, <3>2
  <2> QED
    BY <2>1, <2>2, <2>4, <2>5, <2>6, <2>7 DEF NormalWorldConfined
<1> QED
  BY <1>1, <1>2, BInvNext, PTL DEF Spec
===============================================================================
