-------------------------------- MODULE Gadget --------------------------------
(***************************************************************************)
(* The USB gadget of cmd/wallera-linux: main, which sets it up through     *)
(* libusbgx if there is none and opens it, and a run with -clean, at any   *)
(* time, which removes it.                                                 *)
(*                                                                         *)
(* configfs, libusbgx and the hidg driver are external.  A call of theirs  *)
(* does what it says or fails and changes nothing; it fails when what it   *)
(* works on is not there, or is there already, and may fail for reasons of *)
(* its own, a fault.  The device file exists while the gadget is enabled.  *)
(***************************************************************************)
EXTENDS Integers

VARIABLES
  g1,     \* calls of configure_hidg that the gadget "g1" has been through:
          \* 0 when there is none, 5 when it is enabled
  main,   \* the program without -clean: program counter, -setup, calls made
  clean   \* a run with -clean

gadgetVars == <<g1, main, clean>>

enabled == 5
hidgExists == g1 = enabled

\* Ghosts.  left: g1 when main started;  saw: what befell a run, that a call failed
\* for reasons of its own, or that the other run changed the gadget meanwhile; a -clean
\* that changed it and then failed is a fault.
Main == [pc : {"off", "configure", "open", "failed", "set up", "serving"},
         flag : {"-setup", "none"}, step : 0 .. 4, left : 0 .. enabled,
         saw : {"nothing", "fault", "clean"}]
Clean == [pc : {"off", "found", "remove", "visited"}, saw : {"nothing", "configure"}]

GadgetTypeOK == g1 \in 0 .. enabled /\ main \in Main /\ clean \in Clean

\* What the ghosts hold no longer matters once main is gone, or serves.
At(pc) == [pc |-> pc, flag |-> "none", step |-> 0, left |-> 0, saw |-> "nothing"]

GadgetInit == g1 = 0 /\ main = At("off") /\ clean = [pc |-> "off", saw |-> "nothing"]

-------------------------------------------------------------------------------
(* main and configure_hidg *)

Running == main.pc \in {"configure", "open", "serving"}

\* A gadget that is there is used, whoever set it up.
Start(flag) ==
  /\ ~Running
  /\ main' = [pc |-> IF ~hidgExists THEN "configure"
                     ELSE IF flag = "-setup" THEN "set up" ELSE "open",
              flag |-> flag, step |-> 0, left |-> g1, saw |-> "nothing"]
  /\ UNCHANGED <<g1, clean>>

\* Mutant: a gadget that exists is taken as usbg_create_gadget's own.
ConfigureAnyway ==
  /\ main.pc = "configure" /\ g1 >= main.step
  /\ g1' = IF g1 < enabled THEN g1 + 1 ELSE g1
  /\ main' = IF g1' < enabled THEN [main EXCEPT !.step = g1']
             ELSE [main EXCEPT !.pc = IF main.flag = "-setup" THEN "set up" ELSE "open"]
  /\ clean' = [clean EXCEPT !.saw = "configure"]

\* The next call works on what the one before it left; after the last one the
\* gadget is enabled.
Configure ==
  /\ main.pc = "configure" /\ g1 = main.step
  /\ g1' = g1 + 1
  /\ main' = IF g1' < enabled THEN [main EXCEPT !.step = g1']
             ELSE [main EXCEPT !.pc = IF main.flag = "-setup" THEN "set up" ELSE "open"]
  /\ clean' = [clean EXCEPT !.saw = "configure"]

\* A call fails: usbg_cleanup frees the library's state, and nothing takes back
\* what the calls before it did; l.Panic.
ConfigureFails ==
  /\ main.pc = "configure"
  /\ main' = [main EXCEPT !.pc = "failed",
                          !.saw = IF g1 = main.step THEN "fault" ELSE main.saw]
  /\ UNCHANGED <<g1, clean>>

Open ==
  /\ main.pc = "open" /\ hidgExists
  /\ main' = At("serving")
  /\ UNCHANGED <<g1, clean>>

OpenFails ==
  /\ main.pc = "open"
  /\ main' = [main EXCEPT !.pc = "failed",
                          !.saw = IF hidgExists THEN "fault" ELSE main.saw]
  /\ UNCHANGED <<g1, clean>>

\* The program ends, by a signal or a panic; the gadget stays.
Stop ==
  /\ Running
  /\ main' = At("off")
  /\ UNCHANGED <<g1, clean>>

-------------------------------------------------------------------------------
(* cleanup_usbg.  Gadgets with other vendor and product IDs it passes over. *)

Met ==
  main' = IF main.pc \in {"configure", "open"} THEN [main EXCEPT !.saw = "clean"] ELSE main

\* usbg_init reads which gadgets there are.
CleanStart ==
  /\ clean.pc = "off"
  /\ clean' = [pc |-> IF g1 > 0 THEN "found" ELSE "visited", saw |-> "nothing"]
  /\ UNCHANGED <<g1, main>>

\* remove_gadget first disables a gadget that is enabled.
CleanDisables ==
  /\ clean.pc = "found"
  /\ g1' = IF hidgExists THEN enabled - 1 ELSE g1
  /\ clean' = [clean EXCEPT !.pc = "remove"]
  /\ Met

\* Mutant: the gadget is disabled, not removed.
CleanKeeps ==
  /\ clean.pc = "remove"
  /\ clean' = [clean EXCEPT !.pc = "visited"]
  /\ Met
  /\ UNCHANGED g1

\* usbg_rm_gadget with USBG_RM_RECURSE.
CleanRemoves ==
  /\ clean.pc = "remove"
  /\ g1' = 0
  /\ clean' = [clean EXCEPT !.pc = "visited"]
  /\ Met

\* The loop is over, at the last gadget or at the first call that fails;
\* cleanupHidg returns nil for both.
CleanEnds ==
  /\ clean.pc # "off"
  /\ clean' = [pc |-> "off", saw |-> "nothing"]
  /\ main' = IF clean.pc = "remove" /\ main.saw = "clean" THEN [main EXCEPT !.saw = "fault"]
             ELSE main
  /\ UNCHANGED g1

\* The steps that leave the handler alone.
SetUp ==
  \/ \E flag \in {"-setup", "none"} : Start(flag)
  \/ Configure \/ ConfigureFails \/ OpenFails
CleanUp == CleanStart \/ CleanDisables \/ CleanRemoves \/ CleanEnds

GadgetNext == SetUp \/ CleanUp \/ Open \/ Stop

GadgetSpec == GadgetInit /\ [][GadgetNext]_gadgetVars

-------------------------------------------------------------------------------
(* Properties *)

\* gadget-hid.c:71-103 and main.go:55-76.  A start without faults comes to serve when
\* it finds no gadget or a whole one, and only then: a start that was killed, or
\* failed, between two calls of configure_hidg makes all later ones fail until -clean.
StartsAsLeft ==
  main.saw = "nothing" =>
    /\ main.pc = "failed" => main.left \in 1 .. enabled - 1
    /\ main.pc \in {"set up", "open"} => main.left \in {0, enabled}

\* gadget-hid.c:130-169.  A -clean that has visited every gadget leaves none of ours,
\* whole or in part, wherever the start that made it stopped, unless another start
\* is making one meanwhile.
CleanLeavesNone == clean.pc = "visited" /\ clean.saw = "nothing" => g1 = 0

\* main.go:55-76 and gadget-hid.c:71-169.  When -clean takes the gadget away between
\* hidgExists and the opening, or between two calls of configure_hidg, the start that
\* fails of it adds nothing to what is left: once -clean is through there is no gadget,
\* or, if -clean changed none, the part that the start had found.
FailedStartAddsNothing ==
  main.pc = "failed" /\ main.saw # "fault" /\ clean.pc # "remove" => g1 \in {0, main.left}
===============================================================================
