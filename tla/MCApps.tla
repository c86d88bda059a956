-------------------------------- MODULE MCApps --------------------------------
(***************************************************************************)
(* Registering lists of one or two apps out of twelve, three IDs among     *)
(* them, so that an ID is already taken, or taken within the list.         *)
(***************************************************************************)
EXTENDS Apps

MCApps == [name : AppNames, id : AppIDs, commands : {{0}, {0, 2}}]
MCBatches == {<<a>> : a \in MCApps} \cup (MCApps \X MCApps)
===============================================================================
