--------------------------- MODULE BloodChainBoot ---------------------------
(***************************************************************************)
(* boot_bloodchain_wrapper of main.c, the user of the library of module    *)
(* BloodChain: it allocates the header's pages, loads kernel.elf and       *)
(* perhaps initrd.img, adds both to the table, fills in the firmware's     *)
(* tables, validates, leaves the boot services and jumps.  Each firmware   *)
(* call, and each call of the file loader, is a step and may fail.         *)
(***************************************************************************)
EXTENDS BloodChain

CONSTANTS
  KernelBase,       \* where the kernel is asked for, 0x100000
  Page,             \* 0x1000
  FileSizes,        \* sizes LoadFileToMemory may report
  KernelName, KernelCmdline, InitrdName  \* "kernel", "root=/dev/sda1 ro", "initrd"

ASSUME BloodChainBootAssumption ==
  /\ KernelBase \in Numbers /\ Page \in Numbers \ {0}
  /\ FileSizes \subseteq Numbers
  /\ {KernelName, KernelCmdline, InitrdName} \subseteq Strings

VARIABLES
  wrapper_pc,  \* the call the wrapper makes next
  KernelSize,  \* 0 until the kernel is loaded
  InitrdSize,
  services     \* the firmware's boot services are still there

wrapperVars == <<vars, wrapper_pc, KernelSize, InitrdSize, services>>

\* Mutant: rounded down to a page.
ALIGN_DOWN(size) == size - (size % Page)

\* The least multiple of a page that holds size bytes.
ALIGN_UP(size) == ((size + Page - 1) \div Page) * Page

InitrdLoadAddr == KernelBase + ALIGN_UP(KernelSize)

Module(start, size, type, name, cmdline) ==
  [start |-> start, size |-> size, type |-> type, name |-> name, cmdline |-> cmdline]

KernelModule(size) == Module(KernelBase, size, 1, KernelName, KernelCmdline)
InitrdModule(size) == Module(InitrdLoadAddr, size, 2, InitrdName, NULL)

\* Every module the wrapper may add is one the library is given.
ASSUME WrapperAssumption ==
  /\ KernelBase \in Tables
  /\ \A size \in FileSizes : KernelModule(size) \in ModuleArgs
  /\ \A kernel, size \in FileSizes :
       Module(KernelBase + ALIGN_UP(kernel), size, 2, InitrdName, NULL) \in ModuleArgs

\* The wrapper's strings are literals: the kernel's two fit in the entry the
\* initrd gets, and what they can grow to is still a name and a command line.
ASSUME StringsAssumption ==
  /\ KernelCmdline # << >>
  /\ Len(KernelName) + 1 + Len(KernelCmdline) + 1 <= EntrySize
  /\ EntrySize + Len(InitrdName) + 1 <= NameMax
  /\ EntrySize + Len(InitrdName) + 1 <= CmdlineMax
  /\ NameMax \in Nat /\ CmdlineMax \in Nat /\ ModuleMax \in Nat
  /\ ModuleMax >= 2
  /\ FirstType = 1 /\ LastType \in Nat /\ LastType >= 2

BootInit ==
  /\ Init
  /\ wrapper_pc = "allocate"
  /\ KernelSize = 0
  /\ InitrdSize = 0
  /\ services = TRUE

AllocatePages ==
  /\ wrapper_pc = "allocate"
  /\ \/ bcbp_init(KernelBase) /\ wrapper_pc' = "load_kernel"
     \/ wrapper_pc' = "returned" /\ UNCHANGED vars
  /\ UNCHANGED <<KernelSize, InitrdSize, services>>

\* The status of bcbp_add_module does not exist: an empty kernel is not added
\* and the wrapper goes on.  A kernel that cannot be loaded ends it.
LoadKernel ==
  /\ wrapper_pc = "load_kernel"
  /\ \/ \E size \in FileSizes :
          /\ bcbp_add_module(KernelModule(size))
          /\ KernelSize' = size
          /\ wrapper_pc' = "load_initrd"
     \/ wrapper_pc' = "returned" /\ UNCHANGED <<vars, KernelSize>>
  /\ UNCHANGED <<InitrdSize, services>>

\* No initrd, one that cannot be loaded or an empty one: there is no module.
LoadInitrd ==
  /\ wrapper_pc = "load_initrd"
  /\ \/ \E size \in FileSizes \ {0} :
          /\ bcbp_add_module(InitrdModule(size))
          /\ InitrdSize' = size
     \/ UNCHANGED <<vars, InitrdSize>>
  /\ wrapper_pc' = "acpi_rsdp"
  /\ UNCHANGED <<KernelSize, services>>

\* The firmware's tables are given to the kernel as far as they are found.
SetTable(field, next) ==
  /\ wrapper_pc = field
  /\ \/ \E address \in Tables : bcbp_set(field, address)
     \/ UNCHANGED vars
  /\ wrapper_pc' = next
  /\ UNCHANGED <<KernelSize, InitrdSize, services>>

SetTables ==
  \/ SetTable("acpi_rsdp", "smbios")
  \/ SetTable("smbios", "framebuffer")
  \/ SetTable("framebuffer", "validate")

Validate ==
  /\ wrapper_pc = "validate"
  /\ wrapper_pc' = IF bcbp_validate = 0 THEN "exit" ELSE "load_error"
  /\ UNCHANGED <<vars, KernelSize, InitrdSize, services>>

\* The status of ExitBootServices is not looked at.
Jump ==
  /\ wrapper_pc = "exit"
  /\ services' \in BOOLEAN
  /\ wrapper_pc' = "kernel"
  /\ UNCHANGED <<vars, KernelSize, InitrdSize>>

BootNext == AllocatePages \/ LoadKernel \/ LoadInitrd \/ SetTables \/ Validate \/ Jump

BootSpec == BootInit /\ [][BootNext]_wrapperVars

-----------------------------------------------------------------------------
(* Properties *)

\* bcbp_validate never refuses the table the wrapper itself has built, although
\* the memory it allows is computed from strings the initrd's entry overwrote.
OwnTableAccepted == wrapper_pc # "load_error"

\* A file that is empty or absent is no module.
Loaded(size) == IF size > 0 THEN 1 ELSE 0

\* What the kernel reads from the table at the jump: the files that were loaded,
\* in order, in memory that does not overlap.
HandoffTable ==
  wrapper_pc = "kernel" =>
    /\ hdr.module_count = Loaded(KernelSize) + Loaded(InitrdSize)
    /\ KernelSize > 0 => /\ StartOf(mem, 0) = KernelBase
                         /\ SizeOf(mem, 0) = KernelSize
                         /\ TypeOf(mem, 0) = FirstType
    /\ \A i, j \in Indices : i < j => StartOf(mem, i) + SizeOf(mem, i) <= StartOf(mem, j)

\* The kernel finds its own module by name, as the example kernel of USAGE.md does.
KernelFindsItself ==
  (wrapper_pc = "kernel" /\ KernelSize > 0) => bcbp_find_module(KernelName) # NULL

=============================================================================
