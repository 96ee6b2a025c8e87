--------------------------- MODULE MCFilesystems ---------------------------
(***************************************************************************)
(* The drivers on the volumes of MCVolumes, or the layer of fs_common.c    *)
(* with drivers of its own (MCFsCommon): the two share nothing.            *)
(***************************************************************************)
EXTENDS MCVolumes, MCFsCommon

VARIABLE layer

mcVars == <<layer, vars, commonVars>>

\* what a layer does not use has one value
MCInit ==
  /\ layer \in {"drivers", "fs_common"}
  /\ Init /\ CommonInit
  /\ layer = "fs_common" => disk = 1

MCNext ==
  /\ UNCHANGED layer
  /\ \/ layer = "drivers" /\ Next /\ UNCHANGED commonVars
     \/ layer = "fs_common" /\ CommonNext /\ UNCHANGED vars

MCSpec == MCInit /\ [][MCNext]_mcVars /\ WF_vars(Step)
=============================================================================
