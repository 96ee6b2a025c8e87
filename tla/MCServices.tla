----------------------------- MODULE MCServices -----------------------------
(***************************************************************************)
(* Values of the constants of Services for model checking, and two scenes  *)
(* more that share nothing with them nor with each other: the filesystem   *)
(* layer of fs_mount.c (MCFsMount) and the kernel loaders with the boot    *)
(* over the network (MCNetBoot).                                           *)
(***************************************************************************)
EXTENDS Services, MCFsMount, MCNetBoot

VARIABLE layer

mcVars == <<layer, servicesVars, mountVars, allVars>>

\* what a layer does not use has one value
MCInit ==
  /\ layer \in {"services", "mount", "loaders"}
  /\ ServicesInit /\ MountInit /\ NetInit
  /\ layer # "services" => scene = "plugins"
  /\ layer # "loaders" => net = "idle"

MCNext ==
  /\ UNCHANGED layer
  /\ \/ layer = "services" /\ ServicesNext /\ UNCHANGED <<mountVars, allVars>>
     \/ layer = "mount" /\ MountNext /\ UNCHANGED <<servicesVars, allVars>>
     \/ layer = "loaders" /\ NetNext /\ UNCHANGED <<servicesVars, mountVars>>

MCSpec == MCInit /\ [][MCNext]_mcVars

\* "a" computes, "b" runs "a" before its last word, "c" after it, "d" itself
MCWords(s) ==
  CASE s = "a" -> <<"push", "1", "push", "2", "add">>
    [] s = "b" -> <<"push", "1", "call", "f", "sub">>
    [] s = "c" -> <<"push", "2", "call", "f">>
    [] s = "d" -> <<"rem", "call", "g", "call">>
    [] s = "e" -> <<"push", "2", "sub", "call", "h", "push">>
MCNumber(w) == CASE w = "1" -> 1 [] w = "2" -> 2 [] OTHER -> 0
MCRuns(f) == CASE f = "f" -> {"a", "b"} [] f = "g" -> {"d", "c"} [] OTHER -> {}

\* characters a table keeps
MCKept(k) == CASE k = "env" -> 3 [] k = "environ" -> 4 [] OTHER -> 2
\* "p", "pa", "q", "pab", "pac"
MCKeys == {<<"p">>, <<"p", "a">>, <<"q">>, <<"p", "a", "b">>, <<"p", "a", "c">>}
=============================================================================
