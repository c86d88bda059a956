------------------------------ MODULE TrustedBoot -----------------------------
(***************************************************************************)
(* tee/trusted_os/main.go and tz.configureTrustZone: the trusted OS loads  *)
(* the applet and the normal world, programs the hardware firewalls, and   *)
(* starts the normal world.  Loading an image and every write of a CSU or  *)
(* TZASC register may fail (external); main panics on any error and resets *)
(* the board, which boots again with the firewalls as they come up.        *)
(*                                                                         *)
(* configureTrustZone is the sequence of its register writes.  Addresses   *)
(* are in megabytes.                                                       *)
(***************************************************************************)
EXTENDS Integers, Sequences

CONSTANTS
  Native,   \* imx6.Native: not the emulator
  CSL_MAX,  \* number of CSU peripheral slots (csu.CSL_MIN is 0)
  SA_MAX    \* number of CSU bus masters (csu.SA_MIN is 0)

ASSUME BootAssumption ==
  /\ Native \in BOOLEAN
  /\ CSL_MAX \in Nat /\ CSL_MAX > 34
  /\ SA_MAX \in Nat /\ SA_MAX > 14

-------------------------------------------------------------------------------
(* mem/layout.go *)

Secure    == [start |-> 2432, size |-> 63]
SecureDMA == [start |-> 2495, size |-> 1]
Applet    == [start |-> 2496, size |-> 32]
NonSecure == [start |-> 2048, size |-> 256]

Within(addr, r) == addr >= r.start /\ addr < r.start + r.size

-------------------------------------------------------------------------------
(* The registers.  Each is "up", as it comes up, until it is written.      *)

Level(i, part) == <<"level", i, part>>   \* who may use a peripheral
Access(i, part) == <<"access", i, part>> \* whether a bus master is Secure
Region(i, part) == <<"region", i, part>> \* TZASC region i: what it covers, for whom

Registers ==
  {Level(i, part) : i \in 0 .. CSL_MAX - 1, part \in {0, 1}}
  \cup {Access(i, 0) : i \in 0 .. SA_MAX - 1}
  \cup {Region(i, 0) : i \in 0 .. 2}

Write(reg, value) == [reg |-> reg, value |-> value]

-------------------------------------------------------------------------------
(* configureTrustZone *)

grantAllPeripherals ==
  [k \in 1 .. 2 * CSL_MAX |-> Write(Level((k - 1) \div 2, (k - 1) % 2), "SEC_LEVEL_0")]

\* What TZASC regions 1 and 2 are made to cover; region 0 is all memory.
Covers(i) ==
  IF i = 1 THEN [start |-> Secure.start, size |-> Secure.size + SecureDMA.size]
           ELSE [start |-> Applet.start, size |-> Applet.size]

lockMemory ==
  <<Write(Region(0, 0), "NonSecure"), Write(Region(1, 0), "Secure"), Write(Region(2, 0), "Secure")>>

allControllersNonSecure == [k \in 1 .. SA_MAX |-> Write(Access(k - 1, 0), "NonSecure")]

restrict ==
  <<Write(Level(2, 1), "SEC_LEVEL_4"),  \* GPIO4
    Write(Level(6, 1), "SEC_LEVEL_4"),  \* IOMUXC
    Write(Level(8, 0), "SEC_LEVEL_0"),  \* USB
    Write(Access(4, 0), "NonSecure"),  \* USB controller
    Write(Level(13, 0), "SEC_LEVEL_4"),  \* ROMCP
    Write(Level(16, 1), "SEC_LEVEL_4"),  \* TZASC
    Write(Level(34, 0), "SEC_LEVEL_4"),  \* DCP
    Write(Access(14, 0), "Secure")>>  \* DCP as a bus master

\* lock is imx6.Native; on the emulator it returns before the first write.
configureTrustZone ==
  IF Native THEN grantAllPeripherals \o lockMemory \o allControllersNonSecure \o restrict ELSE <<>>

-------------------------------------------------------------------------------

VARIABLES
  pc,        \* "register", "load", "configure", "run" or "reset"
  written,   \* how many writes of configureTrustZone are done
  reg        \* the registers

vars == <<pc, written, reg>>

PoweredUp == [r \in Registers |-> "up"]

\* Type correctness: the boot is at one of its steps and writes known registers.
TypeOK ==
  /\ pc \in {"register", "load", "configure", "run", "reset"}
  /\ written \in 0 .. Len(configureTrustZone)
  /\ DOMAIN reg = Registers

Init == pc = "register" /\ written = 0 /\ reg = PoweredUp

\* RegisterApp, then the images of LoadNonsecureWorld.
RegisterApp == pc = "register" /\ pc' = "load" /\ UNCHANGED <<written, reg>>

LoadNonsecureWorld == pc = "load" /\ pc' = "configure" /\ UNCHANGED <<written, reg>>

\* The next register write of configureTrustZone.
Configure ==
  /\ pc = "configure"
  /\ written < Len(configureTrustZone)
  /\ LET w == configureTrustZone[written + 1]
     IN  reg' = [reg EXCEPT ![w.reg] = w.value]
  /\ written' = written + 1
  /\ UNCHANGED pc

\* Mutant: an error of configureTrustZone is ignored.
FailsIgnored ==
  /\ pc \in {"register", "load"} \/ (pc = "configure" /\ written < Len(configureTrustZone))
  /\ pc' = IF pc = "configure" THEN "run" ELSE "reset"
  /\ UNCHANGED <<written, reg>>

\* Any step so far returns an error: panic, and panicHandler resets the board.
Fails ==
  /\ pc \in {"register", "load"} \/ (pc = "configure" /\ written < Len(configureTrustZone))
  /\ pc' = "reset"
  /\ UNCHANGED <<written, reg>>

RunNonsecureWorld ==
  /\ pc = "configure" /\ written = Len(configureTrustZone)
  /\ pc' = "run"
  /\ UNCHANGED <<written, reg>>

\* Mutant: main goes on when the normal world has exited.
NonsecureWorldExits == pc = "run" /\ pc' = "exited" /\ UNCHANGED <<written, reg>>

\* The normal world exits, or an applet's error becomes a panic (TrustZone).
NonsecureWorldStops == pc = "run" /\ pc' = "reset" /\ UNCHANGED <<written, reg>>

Reset == pc = "reset" /\ pc' = "register" /\ written' = 0 /\ reg' = PoweredUp

Next ==
  \/ RegisterApp \/ LoadNonsecureWorld \/ Configure \/ Fails
  \/ RunNonsecureWorld \/ NonsecureWorldStops \/ Reset

Spec == Init /\ [][Next]_vars

-------------------------------------------------------------------------------
(* Properties *)

\* Some locked TZASC region covers the address.
Locked(addr) == \E i \in 1 .. 2 : reg[Region(i, 0)] = "Secure" /\ Within(addr, Covers(i))

\* tz.go:272-360 and main.go:63-100.  On the board the normal world never runs
\* with a firewall half configured, after whatever failures and resets: all of
\* the trusted OS's, its DMA's and the applets' memory is locked and none of
\* the normal world's own, and the peripherals the trusted OS relies on are
\* still restricted after everything else was granted.  Bus master 4 is left out:
\* the comment at tz.go:334 has the USB controller Secure, the call after it does not.
NormalWorldConfined ==
  pc = "run" /\ Native =>
    /\ \A r \in {Secure, SecureDMA, Applet} :
         \A addr \in r.start .. r.start + r.size - 1 : Locked(addr)
    /\ \A addr \in NonSecure.start .. NonSecure.start + NonSecure.size - 1 : ~Locked(addr)
    /\ reg[Region(0, 0)] = "NonSecure"
    /\ {Level(2, 1), Level(6, 1), Level(13, 0), Level(16, 1), Level(34, 0)} =
         {r \in Registers : reg[r] = "SEC_LEVEL_4"}
    /\ \A i \in (0 .. SA_MAX - 1) \ {4} :
         reg[Access(i, 0)] = IF i = 14 THEN "Secure" ELSE "NonSecure"
    /\ \A r \in Registers : reg[r] # "up"
===============================================================================
