-------------------------- MODULE MCBloodChainBoot --------------------------
(***************************************************************************)
(* The wrapper's own names and command line, and the modules it can add.   *)
(***************************************************************************)
EXTENDS BloodChainBoot

MCKernelName == <<107, 101, 114, 110, 101, 108>>
MCInitrdName == <<105, 110, 105, 116, 114, 100>>
MCCmdline == <<114, 111, 111, 116, 61, 47, 100, 101, 118, 47, 115, 100, 97, 49, 32, 114, 111>>

MCFileSizes == {0, 1, 4095, 4096, 66051}

\* Every module of either file, for any size of the kernel before the initrd.
MCModuleArgs ==
  LET Arg(start, size, type, name, cmdline) ==
        [start |-> start, size |-> size, type |-> type, name |-> name, cmdline |-> cmdline]
  IN  {Arg(KernelBase, size, 1, MCKernelName, MCCmdline) : size \in MCFileSizes} \cup
        {Arg(KernelBase + pages * Page, size, 2, MCInitrdName, NULL) :
           pages \in 0..17, size \in MCFileSizes}

=============================================================================
