-------------------------------- MODULE HidOwed -------------------------------
(***************************************************************************)
(* What the host will make of the packets on their way to it, computed by  *)
(* reading them one after the other.  A singleton has TLC evaluate its     *)
(* element once.                                                           *)
(***************************************************************************)
EXTENDS HidHost, SequencesExt

Only(S) == CHOOSE x \in S : TRUE

After(state, read) ==
  IF read.ok /\ ~read.s.ShouldReadMore
  THEN [s |-> Fresh,
        done |-> Append(state.done, [chan |-> read.s.channelID, data |-> read.s.data])]
  ELSE [state EXCEPT !.s = read.s]

Reassemble(state, p) ==
  Only(UNION {{After(st, read) : read \in {ReadData(st.s, p)}} : st \in {state}})

\* The replies they complete; what they leave unfinished counts as one of no channel.
Owed(packets) ==
  Only({IF end.s = Fresh THEN end.done ELSE Append(end.done, [chan |-> 0, data |-> <<>>]) :
          end \in {FoldLeft(Reassemble, [s |-> hostSess, done |-> <<>>], packets)}})
===============================================================================
