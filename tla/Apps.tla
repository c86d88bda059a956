--------------------------------- MODULE Apps ---------------------------------
(***************************************************************************)
(* apps/apps.go: the registry of apps and the routing of command APDUs.    *)
(***************************************************************************)
EXTENDS Integers, Sequences, FiniteSets

CONSTANTS
  AppIDs,     \* values of App.ID() and of an APDU's CLA; 0 is one of them
  Commands,   \* values of an APDU's INS; 0 is one of them
  AppNames,   \* the App values, told apart by their names
  Batches     \* argument lists Register is called with: sequences of App

App == [name : AppNames, id : AppIDs, commands : SUBSET Commands]

ASSUME AppsAssumption == 0 \in AppIDs /\ 0 \in Commands /\ Batches \subseteq Seq(App)

VARIABLES
  appMap,         \* h.appMap, as the set of the apps in it
  commandAppMap   \* h.commandAppMap: pairs of app ID and command

registry == <<appMap, commandAppMap>>

RegistryTypeOK ==
  /\ appMap \subseteq App
  /\ commandAppMap \subseteq AppIDs \X Commands

NewHandler == appMap = {} /\ commandAppMap = {}

mappingExists(appID) == \E a \in appMap : a.id = appID

commandAppMappingExists(appID, command) == <<appID, command>> \in commandAppMap

Elems(batch, n) == {batch[i] : i \in 1 .. n}

\* Mutant: the fields of commandMapping are swapped.
MappingsSwapped(apps) == UNION {a.commands \X {a.id} : a \in apps}

Mappings(apps) == UNION {{a.id} \X a.commands : a \in apps}

\* The ID of the i-th app of batch is not taken, by an app of an earlier call or
\* of this one.
IDFree(batch, i) ==
  /\ ~mappingExists(batch[i].id)
  /\ \A j \in 1 .. i - 1 : batch[j].id # batch[i].id

\* The loop of Register gets through n apps: it stops at the first whose ID is taken.
Registrable(batch, n) ==
  /\ \A i \in 1 .. n : IDFree(batch, i)
  /\ n < Len(batch) => ~IDFree(batch, n + 1)

\* Mutant: the commands are mapped before the ID is looked up.
RegisterCommandsFirst(batch) ==
  \E n \in 0 .. Len(batch) :
    LET tried == IF n < Len(batch) THEN n + 1 ELSE n
    IN  /\ Registrable(batch, n)
        /\ appMap' = appMap \cup Elems(batch, n)
        /\ commandAppMap' = commandAppMap \cup Mappings(Elems(batch, tried))

\* Register(batch...).  The apps before the one that fails stay registered.
Register(batch) ==
  \E n \in 0 .. Len(batch) :
    /\ Registrable(batch, n)
    /\ appMap' = appMap \cup Elems(batch, n)
    /\ commandAppMap' = commandAppMap \cup Mappings(Elems(batch, n))

-------------------------------------------------------------------------------
(* Handle: what an APDU with the given class and instruction is answered.  *)

\* UnmarshalCAPDU drops its error: a packet it cannot read has CLA and INS 0.
CLA(m) == IF m.readable THEN m.CLA ELSE 0
INS(m) == IF m.readable THEN m.INS ELSE 0

Routable(m) == mappingExists(CLA(m)) /\ commandAppMappingExists(CLA(m), INS(m))

AppFor(m) == CHOOSE a \in appMap : a.id = CLA(m)

\* The code of an APDU no app is given, for either reason.
UnroutedCode(m) == "CLANotSupported"

RegistryNext == \E batch \in Batches : Register(batch)

RegistrySpec == NewHandler /\ [][RegistryNext]_registry

-------------------------------------------------------------------------------
(* Properties *)

\* apps.go:57-80, 105-119.  Whatever Register calls failed half way, an APDU
\* is routed to at most one app, and exactly the commands of the registered
\* apps are routed.
RoutesMatchRegisteredApps ==
  /\ \A a, b \in appMap : a.id = b.id => a = b
  /\ commandAppMap = Mappings(appMap)
===============================================================================
