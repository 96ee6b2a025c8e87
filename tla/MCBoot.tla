------------------------------- MODULE MCBoot -------------------------------
(***************************************************************************)
(* The boot manager's own code, one scene at a time: UefiMain and the menu *)
(* (MCUefiBoot), the BloodChain wrapper (MCBloodChainBoot), or the library *)
(* in the hands of any other caller.  A scene is chosen at the start; what *)
(* it does not use stays as it was.                                        *)
(*                                                                         *)
(* The other caller's modules have command lines shorter than an entry and *)
(* longer than one, and starts that are page-aligned (the low byte, that a *)
(* clobbered name begins with, is NUL) or not.                             *)
(***************************************************************************)
EXTENDS MCUefiBoot, MCBloodChainBoot

VARIABLE scene

mcVars == <<uefiVars, wrapperVars, scene>>

Short == <<114, 111>>
Long == [i \in 1..45 |-> 97 + (i % 26)]

OtherModules ==
  { Module(1048576, 66051, 1, <<107>>, Short),
    Module(1118481, 4096, 2, <<105, 110>>, NULL),
    Module(2097152, 513, 9, << >>, Long),
    Module(1048577, 7, 1, <<98, 97, 98, 97, 98>>, << >>),
    Module(4096, 0, 1, <<107>>, NULL),
    Module(4096, 1, 1, NULL, Short) }

AllModuleArgs == MCModuleArgs \cup OtherModules

MCInit ==
  /\ UefiInit
  /\ BootInit
  /\ scene \in {"menu", "library", "wrapper"}
  /\ scene = "menu" => mem = [cell \in Cells |-> 0]
  /\ scene # "menu" => pending = << >> /\ ~secureBoot /\ ~signed

MenuScene ==
  /\ scene = "menu"
  /\ UefiNext
  /\ UNCHANGED wrapperVars

LibraryScene ==
  /\ scene = "library"
  /\ \/ bcbp_init(57344)
     \/ \E x \in OtherModules : bcbp_add_module(x)
     \/ \E field \in Fields : bcbp_set(field, 57344)
  /\ UNCHANGED <<uefiVars, wrapper_pc, KernelSize, InitrdSize, services>>

WrapperScene ==
  /\ scene = "wrapper"
  /\ BootNext
  /\ UNCHANGED uefiVars

MCNext == (MenuScene \/ LibraryScene \/ WrapperScene) /\ UNCHANGED scene

MCSpec == MCInit /\ [][MCNext]_mcVars
                 /\ WF_uefiVars(MenuReturned) /\ WF_uefiVars(LoadPath)

=============================================================================
