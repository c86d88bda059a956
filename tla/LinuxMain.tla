------------------------------- MODULE LinuxMain ------------------------------
(***************************************************************************)
(* cmd/wallera-linux as a whole: the handler of LinuxHid runs once main    *)
(* has opened the gadget, until a signal or a panic, or until the gadget   *)
(* is removed under it.                                                    *)
(***************************************************************************)
EXTENDS LinuxHid, Gadget

mainVars == <<vars, gadgetVars>>

\* Type correctness of the two runs and of the handler.
MainTypeOK == TypeOK /\ GadgetTypeOK

MainInit == up = FALSE /\ Idle /\ HostInit /\ GadgetInit

SettingUp == SetUp /\ UNCHANGED vars

Cleaning == CleanUp /\ UNCHANGED vars

\* The goroutines start.
Serve ==
  /\ Open
  /\ up' = TRUE
  /\ UNCHANGED <<session, outbound, closing, tx, hostVars>>

\* A signal, before or after signal.Notify; an error of Read or Write (notErr).
Stopped == Stop /\ Gone

\* A packet is read; main is gone if Rx panics.
Receive(p) ==
  /\ hidgExists /\ Rx(p)
  /\ IF up' THEN UNCHANGED gadgetVars ELSE Stop

HandOver == writeOutbound /\ UNCHANGED gadgetVars

Write == hidgExists /\ WriteChunk /\ UNCHANGED gadgetVars

\* Write to a gadget that is gone.
WriteFails == up /\ tx # <<>> /\ ~hidgExists /\ Stop /\ Gone

MainNext ==
  \/ SettingUp \/ Cleaning
  \/ Serve
  \/ Stopped
  \/ \E p \in HostPackets : Receive(p)
  \/ HandOver
  \/ Write
  \/ WriteFails

\* The scheduler runs what is ready, and the host polls while there is a gadget.
MainSpec ==
  /\ MainInit /\ [][MainNext]_mainVars
  /\ WF_mainVars(HandOver) /\ WF_mainVars(Write \/ WriteFails)
===============================================================================
