------------------------------- MODULE NetBoot -------------------------------
(***************************************************************************)
(* Booting over the network, net/pxe.c, above the kernel loaders: a call   *)
(* of pxe_boot_kernel brings up the card once, fetches the kernel and the  *)
(* initrd and calls the loader that the first word of the kernel selects.  *)
(* The card's functions and the server are external: each call may fail.   *)
(* The menu may boot again after a failure.  Loaders called from elsewhere *)
(* run as in Handoff.                                                      *)
(***************************************************************************)
EXTENDS Handoff

CONSTANTS
  NetKernelSizes, NetInitrdSizes,   \* sizes of the files on the server
  NetCmdlineLengths

ASSUME NetBootAssumption ==
  NetKernelSizes \subseteq Nat /\ NetInitrdSizes \subseteq Nat /\ NetCmdlineLengths \subseteq Nat

VARIABLES
  pxe_initialized,
  card,      \* of the network: "off", "up" after pxe_init, "leased" after DHCP
  net,       \* how far pxe_boot_kernel is, or "direct" for a loader called from elsewhere
  request,   \* its parameters
  served,    \* the files as the server has them, and whether it tells their sizes
  fetched    \* kernel_size and initrd_size

netVars == <<pxe_initialized, card, net, request, served, fetched>>
allVars == <<vars, netVars>>

\* What the code takes for a size that is not known, and the size it takes instead.
UnknownSize == 65535
DefaultSize == MiB

Kinds == {"linux", "multiboot1", "multiboot2", "limine", "other"}
NoRequest == [initrd |-> FALSE, cmdline |-> 0]
NothingFetched == [kernel |-> 0, initrd |-> NoFile]
Nothing == [kernel |-> 0, initrd |-> NoFile, kind |-> "other", known |-> FALSE]
NoFiles ==
  [kernel |-> 0, initrd |-> NoFile, cmdline |-> 0, setup_sects |-> 0,
   header |-> NoHeader, elf |-> NoElf]

NetInit ==
  /\ pxe_initialized = 0 /\ card = "off"
  /\ request = NoRequest /\ served = Nothing /\ fetched = NothingFetched
  /\ \/ net = "direct" /\ Init
     \/ /\ net = "idle" /\ loader = "boot_linux_kernel" /\ files = NoFiles
        /\ modules = 0 /\ next = 1 /\ placed = {} /\ lost = {} /\ pc = "idle"

-----------------------------------------------------------------------------
(* The network *)

pxe_boot_kernel ==
  /\ net = "idle"
  /\ request' \in [initrd : BOOLEAN, cmdline : NetCmdlineLengths]
  /\ served' \in [kernel : NetKernelSizes, initrd : NetInitrdSizes, kind : Kinds, known : BOOLEAN]
  /\ UNCHANGED fetched
  /\ net' = IF pxe_initialized = 1 THEN "kernel" ELSE "init"
  /\ UNCHANGED <<vars, pxe_initialized, card>>

\* pxe_boot_kernel returns -1, and its variables are gone.
Return ==
  /\ net' = "idle"
  /\ request' = NoRequest /\ served' = Nothing /\ fetched' = NothingFetched
Fail == Return /\ UNCHANGED vars

\* pxe_network_init up to DHCP.
pxe_init ==
  /\ net = "init"
  /\ \/ card' = "up" /\ net' = "dhcp" /\ UNCHANGED <<vars, request, served, fetched>>
     \/ UNCHANGED card /\ Fail
  /\ UNCHANGED pxe_initialized

\* Mutant: the card stays up when there is no lease.
pxe_dhcp_leaves_card_up ==
  /\ net = "dhcp"
  /\ \/ /\ card' = "leased" /\ pxe_initialized' = 1 /\ net' = "kernel"
        /\ UNCHANGED <<vars, request, served, fetched>>
     \/ UNCHANGED <<card, pxe_initialized>> /\ Fail

pxe_dhcp_discover ==
  /\ net = "dhcp"
  /\ \/ /\ card' = "leased" /\ pxe_initialized' = 1 /\ net' = "kernel"
        /\ UNCHANGED <<vars, request, served, fetched>>
     \/ card' = "off" /\ UNCHANGED pxe_initialized /\ Fail

pxe_cleanup_network ==
  /\ net = "idle" /\ pxe_initialized = 1
  /\ card' = "off" /\ pxe_initialized' = 0
  /\ UNCHANGED <<vars, net, request, served, fetched>>

-----------------------------------------------------------------------------
(* The files *)

Answer(size) == IF served.known THEN size ELSE UnknownSize

\* The size -1 of a missing file, as unsigned number, fails in allocate_memory or in
\* the transfer, as any file may: its buffer is not given back.
pxe_load_kernel ==
  /\ net = "kernel"
  /\ \/ /\ fetched' = [fetched EXCEPT !.kernel = IF Answer(served.kernel) = UnknownSize
                                                   THEN DefaultSize ELSE served.kernel]
        /\ net' = IF request.initrd THEN "initrd" ELSE "dispatch"
        /\ UNCHANGED <<vars, request, served>>
     \/ Fail
  /\ UNCHANGED <<pxe_initialized, card>>

\* Mutant: an initrd of no known size is taken for one of 1 MiB, as a kernel is.
SizeOrDefault(size) == IF size = UnknownSize THEN DefaultSize ELSE size

\* The size an initrd is fetched with; there is none when it is not known.
InitrdAnswer(size) == IF size = UnknownSize THEN NoFile ELSE size

pxe_load_initrd ==
  /\ net = "initrd"
  /\ LET size == InitrdAnswer(Answer(served.initrd))
     IN  \/ /\ size # NoFile
            /\ fetched' = [fetched EXCEPT !.initrd = size]
            /\ net' = "dispatch"
            /\ UNCHANGED <<vars, request, served>>
         \/ Fail
  /\ UNCHANGED <<pxe_initialized, card>>

-----------------------------------------------------------------------------
(* The loader *)

LoaderOf(kind) ==
  CASE kind = "linux" -> "boot_linux_kernel"
    [] kind = "multiboot1" -> "boot_multiboot1_kernel"
    [] kind = "multiboot2" -> "boot_multiboot2_kernel"
    [] kind = "limine" -> "boot_limine_kernel"

\* The first word is read whatever the size, so that the kind of a file shorter than
\* that is what lies behind it.  Only the Linux loader is given the initrd.  A file that begins with the word of Limine does not begin as an ELF file.
Dispatch ==
  /\ net = "dispatch" /\ served.kind # "other"
  /\ loader' = LoaderOf(served.kind)
  /\ files' = [kernel |-> fetched.kernel,
               initrd |-> IF served.kind = "linux" THEN fetched.initrd ELSE NoFile,
               cmdline |-> request.cmdline,
               setup_sects |-> IF served.kind = "linux" THEN 72 ELSE 0,
               header |-> NoHeader,
               elf |-> [NoElf EXCEPT !.type = 0]]
  /\ net' = "loader" /\ pc' = "called"
  /\ UNCHANGED <<modules, next, placed, lost, pxe_initialized, card, request, served, fetched>>

NoLoader ==
  /\ net = "dispatch" /\ served.kind = "other"
  /\ Fail /\ UNCHANGED <<pxe_initialized, card>>

\* The loader refuses the file, and pxe_boot_kernel returns its -1.
LoaderReturns ==
  /\ net = "loader" /\ pc = "refused"
  /\ pc' = "idle" /\ Return
  /\ loader' = "boot_linux_kernel" /\ files' = NoFiles
  /\ UNCHANGED <<modules, next, placed, lost, pxe_initialized, card>>

NetNext ==
  \/ net \in {"direct", "loader"} /\ Next /\ UNCHANGED netVars
  \/ pxe_boot_kernel \/ pxe_init \/ pxe_dhcp_discover \/ pxe_cleanup_network
  \/ pxe_load_kernel \/ pxe_load_initrd \/ Dispatch \/ NoLoader \/ LoaderReturns

NetSpec == NetInit /\ [][NetNext]_allVars

-----------------------------------------------------------------------------
(* Properties *)

\* After any number of failed network boots, wherever each failed, pxe_initialized
\* tells whether the card has a lease, a card without one is off, and no memory a
\* kernel was to be placed in has been touched, so that the next call, of whatever
\* loader, finds the machine as the first did (pxe.c:60-78, 136-164).  A kernel that
\* is started leaves with the card still leased: nothing gives it back before.
FlagTellsCard ==
  net # "direct" =>
    /\ net # "dhcp" => <<pxe_initialized, card>> \in {<<1, "leased">>, <<0, "off">>}
    /\ net # "loader" => placed = {} /\ lost = {}
    /\ pc = "kernel" => card = "leased"

\* A kernel started over the network lies in memory with the size its file has on
\* the server, 1 MiB only where the server did not tell or the file has the very size
\* that stands for that; its initrd is the one asked for, whole, or the boot has
\* failed.  It is never a Limine kernel: the word pxe.c looks for and the one
\* limine.c looks for are the same four bytes (pxe.c:86, 110, 160, limine.c:231).
NetKernelIsServed ==
  (net = "loader" /\ pc = "kernel") =>
    /\ loader # "boot_limine_kernel"
    /\ loader = "boot_linux_kernel" =>
         files.initrd = IF request.initrd THEN served.initrd ELSE NoFile
    /\ lost = {} => \A o \in placed :
         /\ o.what = "initrd" => o.size = served.initrd
         /\ o.what = "kernel" =>
              o.size + (IF loader = "boot_linux_kernel" THEN setup_size(files) ELSE 0)
                = IF served.known /\ served.kernel # UnknownSize THEN served.kernel ELSE MiB

=============================================================================
