--------------------------- MODULE NetBootProofs ---------------------------
(***************************************************************************)
(* What holds of every boot over the network and of every loader, whatever *)
(* the sizes of the files: first the state of pxe.c between and during its *)
(* calls, then what a loader's writes leave of each other in memory.       *)
(***************************************************************************)
EXTENDS NetBoot, SequenceTheorems, TLAPS

-----------------------------------------------------------------------------
(* The calls of pxe_boot_kernel *)

NetPlaces == {"direct", "idle", "init", "dhcp", "kernel", "initrd", "dispatch", "loader"}

\* The card and its flag agree but between pxe_init and the answer of DHCP.
CardInv ==
  /\ net \in NetPlaces
  /\ net \in {"idle", "init"} =>
       \/ pxe_initialized = 1 /\ card = "leased" /\ net = "idle"
       \/ pxe_initialized = 0 /\ card = "off"
  /\ net = "dhcp" => pxe_initialized = 0
  /\ net \in {"kernel", "initrd", "dispatch", "loader"} => pxe_initialized = 1 /\ card = "leased"

\* Nothing is written but by a loader that accepted its file.
IdleInv ==
  /\ net \notin {"direct", "loader"} => pc = "idle"
  /\ net \notin {"direct", "loader"} \/ (net = "loader" /\ pc \in {"called", "refused"})
       => placed = {} /\ lost = {} /\ next = 1

\* The size a kernel is loaded with.
KernelTold == IF served.known /\ served.kernel # UnknownSize THEN served.kernel ELSE MiB
InitrdTold == IF request.initrd THEN served.initrd ELSE NoFile

\* How far the files are fetched at each call, and what the loader is given.
FetchInv ==
  /\ net \in {"idle", "init", "dhcp", "kernel"} => fetched = NothingFetched
  /\ net \in {"initrd", "dispatch"} =>
       fetched = [kernel |-> KernelTold, initrd |-> IF net = "initrd" THEN NoFile ELSE InitrdTold]
  /\ net = "initrd" => request.initrd
  /\ net \in NetPlaces \ {"direct", "idle"} =>
       /\ served.kind \in Kinds /\ served.known \in BOOLEAN /\ request.initrd \in BOOLEAN
       /\ served.kernel \in Nat /\ served.initrd \in Nat /\ request.cmdline \in Nat
  /\ net = "loader" =>
       /\ loader \in {"boot_linux_kernel", "boot_multiboot1_kernel", "boot_multiboot2_kernel",
                      "boot_limine_kernel"}
       /\ files.kernel = KernelTold /\ files.cmdline = request.cmdline
       /\ loader = "boot_linux_kernel" => files.initrd = InitrdTold
       /\ loader = "boot_limine_kernel" => files.elf.type = 0 /\ pc \in {"called", "refused"}

NetInv == CardInv /\ IdleInv /\ FetchInv

\* The machine is switched on with the card off, or a loader is called directly.
LEMMA NetInitInv == NetInit => NetInv
  BY DEF NetInit, NetInv, CardInv, IdleInv, FetchInv, NetPlaces

\* A loader's own steps: a Limine kernel is refused, since the file it is taken
\* for begins with another word.
LEMMA LoaderStepInv ==
  ASSUME NetInv, net \in {"direct", "loader"}, Next, UNCHANGED netVars
  PROVE  NetInv'
<1>1. CASE net = "direct"
  BY <1>1 DEF NetInv, CardInv, IdleInv, FetchInv, netVars, NetPlaces
<1>2. CASE net = "loader"
  <2>1. loader' = loader /\ files' = files
    BY DEF Next, multiboot1_load_module, Refuse, Accept, WriteNext, Jump
  <2>2. CardInv'
    BY <1>2 DEF NetInv, CardInv, netVars
  <2>3. /\ loader = "boot_limine_kernel" => pc' \in {"called", "refused"}
        /\ pc' \in {"called", "refused"} => UNCHANGED <<placed, lost, next>> /\ pc = "called"
    <3>1. CASE multiboot1_load_module
      BY <1>2, <3>1 DEF NetInv, FetchInv, multiboot1_load_module
    <3>2. CASE Refuse
      BY <3>2 DEF Refuse
    <3>3. CASE Accept
      BY <1>2, <3>3 DEF NetInv, FetchInv, Accept, Accepts
    <3>4. CASE WriteNext
      BY <1>2, <3>4 DEF NetInv, FetchInv, WriteNext
    <3>5. CASE Jump
      BY <1>2, <3>5 DEF NetInv, FetchInv, Jump
    <3>6. QED
      BY <3>1, <3>2, <3>3, <3>4, <3>5 DEF Next
  <2>4. IdleInv'
    BY <1>2, <2>3 DEF NetInv, IdleInv, netVars
  <2>5. FetchInv'
    BY <1>2, <2>1, <2>3 DEF NetInv, FetchInv, netVars, KernelTold, InitrdTold
  <2>6. QED
    BY <2>2, <2>4, <2>5 DEF NetInv
<1>3. QED
  BY <1>1, <1>2

\* Each call of pxe.c, and each return from one.
LEMMA NetNextInv == NetInv /\ [NetNext]_allVars => NetInv'
<1> SUFFICES ASSUME NetInv, [NetNext]_allVars PROVE NetInv'
  OBVIOUS
<1> USE DEF NetInv
<1>1. ASSUME UNCHANGED vars, net' = "idle", fetched' = NothingFetched,
             \/ pxe_initialized' = 1 /\ card' = "leased"
             \/ pxe_initialized' = 0 /\ card' = "off",
             net \notin {"direct", "loader"}
      PROVE  NetInv'
  BY <1>1 DEF CardInv, IdleInv, FetchInv, NetPlaces, vars
<1>2. CASE net \in {"direct", "loader"} /\ Next /\ UNCHANGED netVars
  BY <1>2, LoaderStepInv
<1>3. CASE pxe_boot_kernel
  <2>1. /\ request' \in [initrd : BOOLEAN, cmdline : NetCmdlineLengths]
        /\ served' \in [kernel : NetKernelSizes, initrd : NetInitrdSizes,
                        kind : Kinds, known : BOOLEAN]
        /\ net = "idle" /\ net' = IF pxe_initialized = 1 THEN "kernel" ELSE "init"
        /\ UNCHANGED <<vars, fetched, pxe_initialized, card>>
    BY <1>3 DEF pxe_boot_kernel
  <2>2. /\ served'.kind \in Kinds /\ served'.known \in BOOLEAN /\ request'.initrd \in BOOLEAN
        /\ served'.kernel \in Nat /\ served'.initrd \in Nat /\ request'.cmdline \in Nat
    BY <2>1, NetBootAssumption DEF NetBootAssumption
  <2>3. FetchInv'
    BY <2>1, <2>2 DEF FetchInv
  <2>4. QED
    BY <2>1, <2>3 DEF CardInv, IdleInv, NetPlaces, vars
<1>4. CASE pxe_init
  <2>1. CASE Fail
    BY <1>1, <1>4, <2>1 DEF pxe_init, Fail, Return, CardInv, NetPlaces
  <2>2. CASE ~Fail
    BY <1>4, <2>2 DEF pxe_init, CardInv, IdleInv, FetchInv, NetPlaces, vars
  <2>3. QED
    BY <2>1, <2>2
<1>5. CASE pxe_dhcp_discover
  <2>1. CASE Fail
    BY <1>1, <1>5, <2>1 DEF pxe_dhcp_discover, Fail, Return, CardInv, NetPlaces
  <2>2. CASE ~Fail
    BY <1>5, <2>2 DEF pxe_dhcp_discover, CardInv, IdleInv, FetchInv, NetPlaces, vars
  <2>3. QED
    BY <2>1, <2>2
<1>6. CASE pxe_cleanup_network
  BY <1>6 DEF pxe_cleanup_network, CardInv, IdleInv, FetchInv, NetPlaces, vars
<1>7. CASE pxe_load_kernel
  <2>1. CASE Fail
    BY <1>1, <1>7, <2>1 DEF pxe_load_kernel, Fail, Return, CardInv, NetPlaces
  <2>2. CASE ~Fail
    <3>1. /\ fetched' = [fetched EXCEPT !.kernel = IF Answer(served.kernel) = UnknownSize
                                                   THEN DefaultSize ELSE served.kernel]
          /\ net = "kernel" /\ net' = IF request.initrd THEN "initrd" ELSE "dispatch"
          /\ UNCHANGED <<vars, request, served, pxe_initialized, card>>
      BY <1>7, <2>2 DEF pxe_load_kernel
    <3>2. fetched' = [kernel |-> KernelTold, initrd |-> NoFile]
      BY <3>1 DEF FetchInv, NothingFetched, Answer, KernelTold, DefaultSize
    <3>3. FetchInv'
      BY <3>1, <3>2 DEF FetchInv, KernelTold, InitrdTold, NetPlaces
    <3>4. QED
      BY <3>1, <3>3 DEF CardInv, IdleInv, NetPlaces, vars
  <2>3. QED
    BY <2>1, <2>2
<1>8. CASE pxe_load_initrd
  <2>1. CASE Fail
    BY <1>1, <1>8, <2>1 DEF pxe_load_initrd, Fail, Return, CardInv, NetPlaces
  <2>2. CASE ~Fail
    <3> DEFINE size == InitrdAnswer(Answer(served.initrd))
    <3>1. /\ size # NoFile /\ fetched' = [fetched EXCEPT !.initrd = size]
          /\ net = "initrd" /\ net' = "dispatch"
          /\ UNCHANGED <<vars, request, served, pxe_initialized, card>>
      BY <1>8, <2>2 DEF pxe_load_initrd
    <3>2. size = served.initrd
      BY <3>1 DEF InitrdAnswer, Answer
    <3>3. fetched' = [kernel |-> KernelTold, initrd |-> InitrdTold]
      BY <3>1, <3>2 DEF FetchInv, InitrdTold
    <3>4. FetchInv'
      BY <3>1, <3>3 DEF FetchInv, KernelTold, InitrdTold, NetPlaces
    <3>5. QED
      BY <3>1, <3>4 DEF CardInv, IdleInv, NetPlaces, vars
  <2>3. QED
    BY <2>1, <2>2
<1>9. CASE Dispatch
  <2>1. /\ net = "dispatch" /\ net' = "loader" /\ pc' = "called"
        /\ UNCHANGED <<modules, next, placed, lost, pxe_initialized, card, request, served, fetched>>
    BY <1>9 DEF Dispatch
  <2>2. /\ files'.kernel = KernelTold /\ files'.cmdline = request.cmdline
        /\ files'.elf.type = 0
        /\ files'.initrd = IF served.kind = "linux" THEN InitrdTold ELSE NoFile
    BY <1>9, <2>1 DEF Dispatch, FetchInv, NoElf
  <2>3. /\ loader' \in {"boot_linux_kernel", "boot_multiboot1_kernel",
                        "boot_multiboot2_kernel", "boot_limine_kernel"}
        /\ loader' = "boot_linux_kernel" => served.kind = "linux"
    BY <1>9, <2>1 DEF Dispatch, LoaderOf, FetchInv, Kinds, NetPlaces
  <2>4. FetchInv'
    BY <2>1, <2>2, <2>3 DEF FetchInv, KernelTold, InitrdTold, NetPlaces
  <2>5. QED
    BY <2>1, <2>4 DEF CardInv, IdleInv, NetPlaces
<1>10. CASE NoLoader
  BY <1>1, <1>10 DEF NoLoader, Fail, Return, CardInv, NetPlaces
<1>11. CASE LoaderReturns
  BY <1>11 DEF LoaderReturns, Return, CardInv, IdleInv, FetchInv, NetPlaces
<1>12. CASE UNCHANGED allVars
  BY <1>12 DEF allVars, netVars, vars, CardInv, IdleInv, FetchInv, KernelTold, InitrdTold
<1>13. QED
  BY <1>2, <1>3, <1>4, <1>5, <1>6, <1>7, <1>8, <1>9, <1>10, <1>11, <1>12 DEF NetNext

\* The invariant holds always.
THEOREM NetInvariance == NetSpec => []NetInv
  BY NetInitInv, NetNextInv, PTL DEF NetSpec

\* After failures in any number and at any place, the flag pxe_initialized tells
\* whether the card has its lease, and no memory has been written.
THEOREM NetCardSafe == NetSpec => []FlagTellsCard
<1>1. NetInv => FlagTellsCard
  <2> SUFFICES ASSUME NetInv, net # "direct" PROVE FlagTellsCard
    BY DEF FlagTellsCard
  <2>1. pc = "kernel" => net = "loader"
    BY DEF NetInv, IdleInv
  <2>2. net # "dhcp" => <<pxe_initialized, card>> \in {<<1, "leased">>, <<0, "off">>}
    BY DEF NetInv, CardInv, NetPlaces
  <2>3. net # "loader" => placed = {} /\ lost = {}
    BY DEF NetInv, IdleInv
  <2>4. QED
    BY <2>1, <2>2, <2>3 DEF FlagTellsCard, NetInv, CardInv
<1>2. QED
  BY <1>1, NetInvariance, PTL

-----------------------------------------------------------------------------
(* The writes of a loader *)

\* What a loader is given, whoever calls it.
FilesOK ==
  /\ loader \in AllLoaders
  /\ files.kernel \in Nat /\ files.cmdline \in Nat /\ files.setup_sects \in 0..255
  /\ files.initrd \in Nat \cup {NoFile}
  /\ files.header \in [load_addr : Nat, load_end_addr : Nat, bss_end_addr : Nat]
  /\ files.elf.segments \in Seq([vaddr : Nat, filesz : Nat, memsz : Nat])
  /\ files.elf.entry \in Nat
  /\ files.initrd # NoFile => loader \in LinuxLoaders \cup DeviceTreeLoaders
  /\ files.cmdline # 0 => loader \notin ChainLoaders

W == Writes(loader, files)

\* Of the writes before the n-th: the object o is one that no later one has
\* touched, and the object o is one the kernel needs that a later one has.
Kept(n, o) ==
  \E j \in 1..(n - 1) : /\ o = W[j] /\ W[j].size # 0
                        /\ \A k \in (j + 1)..(n - 1) : ~Overlap(W[j], W[k])
Gone(n, o) ==
  \E j \in 1..(n - 1) : /\ o = W[j] /\ W[j].what \in Payload
                        /\ \E k \in (j + 1)..(n - 1) : Overlap(W[j], W[k])

\* What multiboot1_load_module writes, before the loader itself.
OfModule(o) == loader = "multiboot1_load_kernel" /\ o.what \in {"module", "record", "string"}

\* Memory is what the writes so far, in their order, have left of each other, and
\* what they have left of the modules.
PlacedInv ==
  pc \in {"called", "writing", "kernel"} =>
    /\ next \in Nat /\ next >= 1 /\ (next = 1 \/ next - 1 <= Len(W))
    /\ \A o : Kept(next, o) => o \in placed
    /\ \A o \in placed : Kept(next, o) \/ OfModule(o)
    /\ \A o : Gone(next, o) => o \in lost
    /\ \A o \in lost : Gone(next, o) \/ OfModule(o)
    /\ pc = "called" => next = 1
    /\ pc # "called" => Accepts(loader, files) /\ ~Overruns(loader, files)
    /\ pc = "kernel" => next > Len(W)

\* The files of a direct call, and those of a boot over the network.
LoaderInv ==
  /\ pc # "idle" => FilesOK
  /\ pc = "idle" => net \notin {"direct", "loader"}
  /\ PlacedInv

\* Before the first write there is nothing.
LEMMA NothingPlaced ==
  ASSUME placed = {}, lost = {}, next = 1, pc \in {"idle", "called", "refused"}
  PROVE  PlacedInv
<1>1. \A o : ~Kept(next, o) /\ ~Gone(next, o)
  BY DEF Kept, Gone
<1>2. QED
  BY <1>1 DEF PlacedInv

\* A write puts its object where the ones that it overlaps were.
LEMMA WriteNextPlaced ==
  ASSUME PlacedInv, WriteNext
  PROVE  PlacedInv'
<1> DEFINE w == W[next]
<1>1. /\ next \in Nat /\ next >= 1 /\ pc = "writing" /\ pc' = pc /\ loader' = loader
      /\ next' = next + 1 /\ next <= Len(W) /\ W' = W
      /\ Accepts(loader, files)' /\ ~Overruns(loader, files)'
  BY DEF PlacedInv, WriteNext, W
<1>2. /\ placed' = (placed \ {o \in placed : Overlap(o, w)}) \cup (IF w.size # 0 THEN {w} ELSE {})
      /\ lost' = lost \cup {o \in {u \in placed : Overlap(u, w)} : o.what \in Payload}
  BY DEF WriteNext, Write, W
<1>3. /\ \A o : Kept(next, o) => o \in placed
      /\ \A o \in placed : Kept(next, o) \/ OfModule(o)
      /\ \A o : Gone(next, o) => o \in lost
      /\ \A o \in lost : Gone(next, o) \/ OfModule(o)
      /\ \A o : OfModule(o)' <=> OfModule(o)
  BY <1>1 DEF PlacedInv, OfModule
<1>4. /\ 1..(next' - 1) = 1..next
      /\ \A j \in 1..next : /\ j = next \/ j \in 1..(next - 1)
                            /\ (j + 1)..(next' - 1) = (j + 1)..next
      /\ (next + 1)..next = {}
      /\ \A j \in 1..(next - 1) : (j + 1)..next = ((j + 1)..(next - 1)) \cup {next}
  BY <1>1
<1>5. ASSUME NEW o
      PROVE  /\ Kept(next, o)' => o \in placed'
             /\ o \in placed' => Kept(next, o)' \/ OfModule(o)'
  <2>1. Kept(next, o)' <=>
          \/ o = w /\ w.size # 0
          \/ Kept(next, o) /\ ~Overlap(o, w)
    <3> DEFINE K(j) == /\ o = W[j] /\ W[j].size # 0
                       /\ \A k \in (j + 1)..next : ~Overlap(W[j], W[k])
    <3>1. Kept(next, o)' <=> \E j \in 1..next : K(j)
      BY <1>1, <1>4 DEF Kept
    <3>2. K(next) <=> o = w /\ w.size # 0
      BY <1>4
    <3>3. ASSUME NEW j \in 1..(next - 1)
          PROVE  K(j) <=> /\ o = W[j] /\ W[j].size # 0
                          /\ \A k \in (j + 1)..(next - 1) : ~Overlap(W[j], W[k])
                          /\ ~Overlap(o, w)
      BY <1>4
    <3>4. next \in 1..next /\ \A j \in 1..(next - 1) : j \in 1..next
      BY <1>1
    <3> HIDE DEF K
    <3>5. (\E j \in 1..next : K(j)) <=> K(next) \/ \E j \in 1..(next - 1) : K(j)
      BY <1>4, <3>4
    <3>6. (\E j \in 1..(next - 1) : K(j)) <=> Kept(next, o) /\ ~Overlap(o, w)
      BY <3>3 DEF Kept
    <3>7. QED
      BY <3>1, <3>2, <3>5, <3>6
  <2>2. QED
    BY <1>2, <1>3, <2>1
<1>6. ASSUME NEW o
      PROVE  /\ Gone(next, o)' => o \in lost'
             /\ o \in lost' => Gone(next, o)' \/ OfModule(o)'
  <2>1. Gone(next, o)' <=>
          \/ Gone(next, o)
          \/ Kept(next, o) /\ Overlap(o, w) /\ o.what \in Payload
    <3> DEFINE P(j) == o = W[j] /\ W[j].what \in Payload
               Hit(j) == \E k \in (j + 1)..(next - 1) : Overlap(W[j], W[k])
               G(j) == P(j) /\ \E k \in (j + 1)..next : Overlap(W[j], W[k])
    <3>1. Gone(next, o)' <=> \E j \in 1..next : G(j)
      BY <1>1, <1>4 DEF Gone
    <3>2. ~G(next)
      BY <1>4
    <3>3. ASSUME NEW j \in 1..(next - 1)
          PROVE  G(j) <=> P(j) /\ (Hit(j) \/ Overlap(o, w))
      BY <1>4
    <3>4. next \in 1..next /\ \A j \in 1..(next - 1) : j \in 1..next
      BY <1>1
    <3>5. \A j : P(j) /\ Overlap(o, w) => W[j].size # 0
      BY DEF Overlap
    <3>6. Gone(next, o) <=> \E j \in 1..(next - 1) : P(j) /\ Hit(j)
      BY DEF Gone
    <3>7. (Kept(next, o) /\ o.what \in Payload) <=>
            \E j \in 1..(next - 1) : P(j) /\ W[j].size # 0 /\ ~Hit(j)
      BY DEF Kept
    <3> HIDE DEF G, P, Hit
    <3>8. Gone(next, o)' <=> \E j \in 1..(next - 1) : P(j) /\ (Hit(j) \/ Overlap(o, w))
      BY <1>4, <3>1, <3>2, <3>3, <3>4
    <3>9. QED
      BY <3>5, <3>6, <3>7, <3>8
  <2>2. QED
    BY <1>2, <1>3, <2>1
<1>7. next' \in Nat /\ next' >= 1 /\ next' - 1 <= Len(W)
  BY <1>1
<1>8. QED
  BY <1>1, <1>5, <1>6, <1>7 DEF PlacedInv

\* The other steps of a loader write modules or nothing.
LEMMA LoaderStepPlaced ==
  ASSUME PlacedInv, Next
  PROVE  PlacedInv' /\ loader' = loader /\ files' = files /\ pc # "idle" /\ pc' # "idle"
<1>1. CASE multiboot1_load_module
  <2>1. /\ pc = "called" /\ loader = "multiboot1_load_kernel"
        /\ UNCHANGED <<loader, files, next, pc>>
    BY <1>1 DEF multiboot1_load_module
  <2>2. next = 1 /\ next' = 1
    BY <2>1 DEF PlacedInv
  <2>3. /\ \A o : ~Kept(next, o) /\ ~Gone(next, o)
        /\ \A o : ~Kept(next, o)' /\ ~Gone(next, o)'
        /\ \A o : OfModule(o)' <=> OfModule(o)
    BY <2>1, <2>2 DEF Kept, Gone, OfModule
  <2>4. PICK w : /\ \A i \in DOMAIN w : w[i].what \in {"module", "record", "string"}
                 /\ \A o \in placed' : o \in placed \/ \E i \in DOMAIN w : o = w[i]
                 /\ \A o \in lost' : o \in lost \/ o \in placed
    <3>1. PICK size \in ModuleSizes, cmdline \in CmdlineLengths :
            LET w == ModuleWrites(modules, size, cmdline)
                hit == {o \in placed : \E i \in DOMAIN w : Overlap(o, w[i])}
            IN  /\ placed' = (placed \ hit) \cup {w[i] : i \in {j \in DOMAIN w : w[j].size > 0}}
                /\ lost' = lost \cup {o \in hit : o.what \in Payload}
      BY <1>1 DEF multiboot1_load_module
    <3> DEFINE w == ModuleWrites(modules, size, cmdline)
    <3>2. \A i \in DOMAIN w : w[i].what \in {"module", "record", "string"}
      <4> DEFINE record == 576 * KiB + 512 + 16 * modules
                 string == 576 * KiB + 768 + 64 * modules
      <4>1. w = << Object("module", 2 * MiB, size), Field("record", record, 12, string),
                   When(cmdline > 0, Object("string", string, cmdline + 1)) >>
        BY Zenon DEF ModuleWrites
      <4> HIDE DEF w, record, string
      <4>2. DOMAIN w = 1..3 /\ w[1].what = "module" /\ w[2].what = "record" /\ w[3].what = "string"
        BY <4>1, SMT DEF Object, Field, When
      <4>3. \A i \in 1..3 : i = 1 \/ i = 2 \/ i = 3
        OBVIOUS
      <4>4. QED
        BY <4>2, <4>3
    <3> HIDE DEF w
    <3>3. /\ \A o \in placed' : o \in placed \/ \E i \in DOMAIN w : o = w[i]
          /\ \A o \in lost' : o \in lost \/ o \in placed
      BY <3>1 DEF w
    <3>4. QED
      BY <3>2, <3>3
  <2>5. /\ \A o \in placed : OfModule(o)
        /\ \A o \in lost : OfModule(o)
    <3>1. /\ \A o \in placed : Kept(next, o) \/ OfModule(o)
          /\ \A o \in lost : Gone(next, o) \/ OfModule(o)
      BY <2>1, Zenon DEF PlacedInv
    <3>2. QED
      BY <2>3, <3>1, Zenon
  <2>6. /\ \A o \in placed' : OfModule(o)'
        /\ \A o \in lost' : OfModule(o)'
    <3>1. \A o : o.what \in {"module", "record", "string"} => OfModule(o)
      BY <2>1 DEF OfModule
    <3>2. ASSUME NEW o \in placed' PROVE OfModule(o)
      <4>1. CASE o \in placed
        BY <2>5, <4>1
      <4>2. CASE \E i \in DOMAIN w : o = w[i]
        <5>1. o.what \in {"module", "record", "string"}
          BY <2>4, <4>2
        <5>2. QED
          BY <3>1, <5>1
      <4>3. QED
        BY <2>4, <4>1, <4>2
    <3>3. \A o \in lost' : OfModule(o)
      BY <2>4, <2>5, Zenon
    <3>4. QED
      BY <2>3, <3>2, <3>3, Zenon
  <2>7. PlacedInv'
    BY <2>1, <2>2, <2>3, <2>6 DEF PlacedInv
  <2>8. QED
    BY <2>1, <2>7
<1>2. CASE Refuse
  BY <1>2 DEF Refuse, PlacedInv
<1>3. CASE Accept
  <2>1. W' = W /\ (\A o : Kept(next, o)' <=> Kept(next, o)) /\ (\A o : Gone(next, o)' <=> Gone(next, o))
        /\ \A o : OfModule(o)' <=> OfModule(o)
    BY <1>3 DEF Accept, W, Kept, Gone, OfModule
  <2>2. QED
    BY <1>3, <2>1 DEF Accept, PlacedInv
<1>4. CASE WriteNext
  <2>1. loader' = loader /\ files' = files /\ pc # "idle" /\ pc' # "idle"
    BY <1>4 DEF WriteNext
  <2>2. QED
    BY <1>4, <2>1, WriteNextPlaced
<1>5. CASE Jump
  <2>1. W' = W /\ (\A o : Kept(next, o)' <=> Kept(next, o)) /\ (\A o : Gone(next, o)' <=> Gone(next, o))
        /\ \A o : OfModule(o)' <=> OfModule(o)
    BY <1>5 DEF Jump, W, Kept, Gone, OfModule
  <2>2. next > Len(W)
    BY <1>5 DEF Jump, W
  <2>3. QED
    BY <1>5, <2>1, <2>2 DEF Jump, PlacedInv
<1>6. QED
  BY <1>1, <1>2, <1>3, <1>4, <1>5 DEF Next

\* A direct call, or none.
LEMMA LoaderInitInv == NetInit => LoaderInv
<1> SUFFICES ASSUME NetInit PROVE LoaderInv
  OBVIOUS
<1>1. CASE net = "direct" /\ Init
  <2>1. loader \in AllLoaders /\ files \in Files(loader) /\ pc = "called"
    BY <1>1, HandoffAssumption DEF HandoffAssumption, Init
  <2>2. /\ files.kernel \in KernelSizes
        /\ files.initrd \in {NoFile} \cup InitrdSizes
        /\ files.cmdline \in {0} \cup CmdlineLengths
        /\ files.setup_sects \in {0} \cup SetupSects
        /\ files.header \in Headers \cup {NoHeader}
        /\ files.elf \in Elfs \cup {NoElf}
    BY <2>1 DEF Files
  <2>3. /\ files.kernel \in Nat /\ files.cmdline \in Nat /\ files.setup_sects \in 0..255
        /\ files.initrd \in Nat \cup {NoFile}
    <3>1. /\ KernelSizes \subseteq Nat /\ InitrdSizes \subseteq Nat
          /\ CmdlineLengths \subseteq Nat /\ SetupSects \subseteq 0..255
      BY HandoffAssumption, Zenon DEF HandoffAssumption
    <3> DEFINE kernel == files.kernel
               initrd == files.initrd
               cmdline == files.cmdline
               sects == files.setup_sects
    <3>2. /\ kernel \in KernelSizes /\ initrd \in {NoFile} \cup InitrdSizes
          /\ cmdline \in {0} \cup CmdlineLengths /\ sects \in {0} \cup SetupSects
      BY <2>2, Zenon
    <3> HIDE DEF kernel, initrd, cmdline, sects
    <3>a. 0 \in Nat /\ 0 \in 0..255
      OBVIOUS
    <3>3. kernel \in Nat /\ initrd \in Nat \cup {NoFile} /\ cmdline \in Nat /\ sects \in 0..255
      BY <3>1, <3>2, <3>a, Zenon
    <3>4. QED
      BY <3>3 DEF kernel, initrd, cmdline, sects
  <2>4. files.header \in [load_addr : Nat, load_end_addr : Nat, bss_end_addr : Nat]
    BY <2>2, HandoffAssumption DEF HandoffAssumption, NoHeader
  <2>5. files.elf.segments \in Seq([vaddr : Nat, filesz : Nat, memsz : Nat])
    <3>1. NoElf.segments = << >>
      BY DEF NoElf
    <3>2. \A e \in Elfs : e.segments \in Seq([vaddr : Nat, filesz : Nat, memsz : Nat])
      BY HandoffAssumption DEF HandoffAssumption
    <3> DEFINE S == Seq([vaddr : Nat, filesz : Nat, memsz : Nat])
    <3>3. << >> \in S
      BY EmptySeq
    <3> HIDE DEF S
    <3>4. files.elf.segments \in S
      BY <2>2, <3>1, <3>2, <3>3 DEF S
    <3>5. QED
      BY <3>4 DEF S
  <2>e. files.elf.entry \in Nat
    <3>1. NoElf.entry = 0 /\ 0 \in Nat
      BY DEF NoElf
    <3>2. \A e \in Elfs : e.entry \in Nat
      BY HandoffAssumption DEF HandoffAssumption
    <3>3. QED
      BY <2>2, <3>1, <3>2
  <2>f. /\ files.initrd # NoFile => loader \in LinuxLoaders \cup DeviceTreeLoaders
        /\ files.cmdline # 0 => loader \notin ChainLoaders
    <3>1. /\ loader \notin LinuxLoaders \cup DeviceTreeLoaders => files.initrd \in {NoFile} \cup {}
          /\ loader \in ChainLoaders => files.cmdline \in {0}
      BY <2>1, Zenon DEF Files
    <3>2. QED
      BY <3>1, Zenon
  <2>6. FilesOK
    BY <2>1, <2>3, <2>4, <2>5, <2>e, <2>f DEF FilesOK
  <2>7. PlacedInv
    BY <1>1, NothingPlaced DEF Init
  <2>8. QED
    BY <2>1, <2>6, <2>7 DEF LoaderInv
<1>2. CASE net = "idle"
  BY <1>2, NothingPlaced DEF NetInit, LoaderInv
<1>3. QED
  BY <1>1, <1>2 DEF NetInit

\* A boot over the network calls a loader with files of the same types.
LEMMA LoaderNextInv == NetInv /\ LoaderInv /\ [NetNext]_allVars => LoaderInv'
<1> SUFFICES ASSUME NetInv, LoaderInv, [NetNext]_allVars PROVE LoaderInv'
  OBVIOUS
<1>1. CASE net \in {"direct", "loader"} /\ Next /\ UNCHANGED netVars
  <2>1. PlacedInv' /\ loader' = loader /\ files' = files /\ pc # "idle" /\ pc' # "idle"
    BY <1>1, LoaderStepPlaced DEF LoaderInv
  <2>2. QED
    BY <2>1 DEF LoaderInv, FilesOK
<1>2. ASSUME UNCHANGED vars, net' \notin {"direct", "loader"} \/ net' = net PROVE LoaderInv'
  BY <1>2 DEF vars, LoaderInv, FilesOK, PlacedInv, W, Kept, Gone, OfModule
<1>3. CASE pxe_boot_kernel \/ pxe_init \/ pxe_dhcp_discover \/ pxe_cleanup_network
             \/ pxe_load_kernel \/ pxe_load_initrd \/ NoLoader
  BY <1>2, <1>3 DEF pxe_boot_kernel, pxe_init, pxe_dhcp_discover, pxe_cleanup_network,
                    pxe_load_kernel, pxe_load_initrd, NoLoader, Fail, Return
<1>4. CASE Dispatch
  <2>1. /\ net = "dispatch" /\ served.kind \in Kinds \ {"other"}
        /\ net' = "loader" /\ pc' = "called" /\ loader' = LoaderOf(served.kind)
        /\ UNCHANGED <<next, placed, lost>>
        /\ files' = [kernel |-> fetched.kernel,
                     initrd |-> IF served.kind = "linux" THEN fetched.initrd ELSE NoFile,
                     cmdline |-> request.cmdline,
                     setup_sects |-> IF served.kind = "linux" THEN 72 ELSE 0,
                     header |-> NoHeader, elf |-> [NoElf EXCEPT !.type = 0]]
    BY <1>4 DEF Dispatch, NetInv, FetchInv, NetPlaces
  <2>2. placed = {} /\ lost = {} /\ next = 1
    BY <2>1 DEF NetInv, IdleInv
  <2>3. loader' \in AllLoaders
    BY <2>1 DEF LoaderOf, Kinds, AllLoaders, LinuxLoaders, Multiboot1Boots, Multiboot2Boots, LimineLoaders
  <2>4. fetched.kernel \in Nat /\ fetched.initrd \in Nat \cup {NoFile} /\ request.cmdline \in Nat
    BY <2>1 DEF NetInv, FetchInv, KernelTold, InitrdTold, MiB, NetPlaces
  <2>5. /\ files'.kernel \in Nat /\ files'.cmdline \in Nat /\ files'.setup_sects \in 0..255
        /\ files'.initrd \in Nat \cup {NoFile} /\ files'.header = NoHeader
        /\ files'.elf.segments = << >> /\ files'.elf.entry = 0
    BY <2>1, <2>4 DEF NoElf
  <2>a. /\ files'.initrd # NoFile => loader' \in LinuxLoaders \cup DeviceTreeLoaders
        /\ loader' \notin ChainLoaders
    BY <2>1 DEF LoaderOf, Kinds, LinuxLoaders, ChainLoaders
  <2>6. FilesOK'
    BY <2>3, <2>5, <2>a DEF FilesOK, NoHeader
  <2>7. PlacedInv'
    <3>1. \A o : ~Kept(next, o)' /\ ~Gone(next, o)'
      BY <2>1, <2>2 DEF Kept, Gone
    <3>2. QED
      BY <2>1, <2>2, <3>1 DEF PlacedInv
  <2>8. QED
    BY <2>1, <2>6, <2>7 DEF LoaderInv
<1>5. CASE LoaderReturns
  <2>1. placed = {} /\ lost = {} /\ next = 1
    BY <1>5 DEF LoaderReturns, NetInv, IdleInv
  <2>2. PlacedInv' /\ pc' = "idle" /\ net' = "idle"
    BY <1>5, <2>1 DEF LoaderReturns, Return, PlacedInv
  <2>3. QED
    BY <2>2 DEF LoaderInv
<1>6. CASE UNCHANGED allVars
  BY <1>2, <1>6 DEF allVars, netVars
<1>7. QED
  BY <1>1, <1>3, <1>4, <1>5, <1>6 DEF NetNext

\* Both invariants hold always.
THEOREM LoaderInvariance == NetSpec => [](NetInv /\ LoaderInv)
  BY NetInitInv, NetNextInv, LoaderInitInv, LoaderNextInv, PTL DEF NetSpec

\* At the jump every object in memory is one of the loader's writes.
LEMMA AtTheJump ==
  ASSUME LoaderInv, pc = "kernel", loader # "multiboot1_load_kernel",
         NEW n \in Nat, Len(W) = n
  PROVE  /\ FilesOK /\ Accepts(loader, files) /\ ~Overruns(loader, files)
         /\ \A o : o \in placed <=>
              \E j \in 1..n : /\ o = W[j] /\ W[j].size # 0
                              /\ \A k \in (j + 1)..n : ~Overlap(W[j], W[k])
         /\ lost = {} => \A j \in 1..n : W[j].what \in Payload =>
                           \A k \in (j + 1)..n : ~Overlap(W[j], W[k])
         /\ (\A j \in 1..n : W[j].what \in Payload =>
               \A k \in (j + 1)..n : ~Overlap(W[j], W[k])) => lost = {}
<1>1. next - 1 = n
  BY DEF LoaderInv, PlacedInv
<1>2. /\ \A o : o \in placed <=> Kept(next, o)
      /\ \A o : o \in lost <=> Gone(next, o)
      /\ FilesOK /\ Accepts(loader, files) /\ ~Overruns(loader, files)
  BY DEF LoaderInv, PlacedInv, OfModule
<1>3. \A j \in 1..n : (\E k \in (j + 1)..n : Overlap(W[j], W[k])) /\ W[j].what \in Payload
                         => Gone(next, W[j])
  BY <1>1 DEF Gone
<1>4. \A o : Gone(next, o) => \E j \in 1..n : /\ W[j].what \in Payload
                                              /\ \E k \in (j + 1)..n : Overlap(W[j], W[k])
  BY <1>1 DEF Gone
<1>5. \A o : Kept(next, o) <=>
         \E j \in 1..n : /\ o = W[j] /\ W[j].size # 0
                         /\ \A k \in (j + 1)..n : ~Overlap(W[j], W[k])
  BY <1>1 DEF Kept
<1>6. QED
  BY <1>2, <1>3, <1>4, <1>5

-----------------------------------------------------------------------------
(* The loaders that pxe_boot_kernel calls *)

\* Each loader has its own writes.
LEMMA WritesOf ==
  ASSUME NEW f
  PROVE  /\ Writes("linux_load_kernel", f) = linux_load_kernel(f)
         /\ Writes("boot_linux_kernel", f) = boot_linux_kernel(f)
         /\ Writes("ia32_boot_linux", f) = ia32_boot_linux(f)
         /\ Writes("x86_64_boot_linux", f) = x86_64_boot_linux(f)
         /\ Writes("multiboot1_load_kernel", f) = multiboot1_load_kernel(f)
         /\ Writes("boot_multiboot1_kernel", f) = boot_multiboot1_kernel(f)
         /\ Writes("ia32_boot_multiboot1", f) = ia32_boot_multiboot1(f)
         /\ Writes("x86_64_boot_multiboot1", f) = x86_64_boot_multiboot1(f)
         /\ Writes("multiboot2_load_kernel", f) = multiboot2_load_kernel(f)
         /\ Writes("boot_multiboot2_kernel", f) = boot_multiboot2_kernel(f)
         /\ Writes("ia32_boot_multiboot2", f) = ia32_boot_multiboot2(f)
         /\ Writes("x86_64_boot_multiboot2", f) = x86_64_boot_multiboot2(f)
         /\ Writes("limine_load_kernel", f) = limine_load_kernel(f)
         /\ Writes("boot_limine_kernel", f) = boot_limine_kernel(f)
         /\ Writes("aarch64_boot_linux", f) = aarch64_boot_linux(f)
         /\ Writes("riscv64_boot_linux", f) = riscv64_boot_linux(f)
         /\ Writes("loongarch64_boot_linux", f) = loongarch64_boot_linux(f)
         /\ Writes("aarch64_boot_uefi", f) = aarch64_boot_uefi(f)
         /\ Writes("riscv64_boot_opensbi", f) = riscv64_boot_opensbi(f)
         /\ Writes("loongarch64_boot_uefi", f) = loongarch64_boot_uefi(f)
         /\ Writes("chainload_mbr", f) = chainload_mbr(f)
         /\ Writes("chainload_gpt", f) = chainload_gpt(f)
         /\ Writes("chainload_iso", f) = chainload_iso(f)
         /\ Writes("chainload_file", f) = chainload_file(f)
         /\ Writes("boot_chainload_kernel", f) = boot_chainload_kernel(f)
  BY SMTT(60) DEF Writes

\* The ten writes of the Linux loaders.
LEMMA LinuxItems ==
  ASSUME NEW f, NEW initrd
  PROVE  LET w == LinuxWrites(f, initrd)
             params == 589824
         IN  /\ Len(w) = 10
             /\ w[1] = Object("kernel", MiB, f.kernel - setup_size(f))
             /\ w[2] = When(initrd, Object("initrd", InitrdBehindKernel(f), InitrdSize(f)))
             /\ w[3] = Object("params", params, 136)
             /\ w[4] = Object("setup", params, setup_size(f))
             /\ w[5] = When(HasCmdline(f), Object("cmdline", params + 32, f.cmdline + 1))
             /\ w[6] = When(HasCmdline(f), Field("cmdline_addr", params + 60, 4, params + 32))
             /\ w[7] = When(initrd, Field("initrd_addr", params + 44, 4, InitrdBehindKernel(f)))
             /\ w[8] = When(initrd, Field("initrd_size", params + 48, 4, InitrdSize(f)))
             /\ w[9] = Field("mem_upper", params + 128, 4, 0)
             /\ w[10] = Field("ext_mem_k", params + 132, 4, 0)
<1>1. 576 * KiB = 589824
  BY DEF KiB
<1> HIDE DEF KiB
<1>2. QED
  BY <1>1 DEF LinuxWrites

\* The five writes of boot_multiboot1_kernel and its twins.
LEMMA Multiboot1Items ==
  ASSUME NEW f, NEW word \in {4, 8}
  PROVE  LET w == Multiboot1Boot(f, word)
         IN  /\ Len(w) = 5
             /\ w[1] = Object("params", 4096, IF word = 4 THEN 88 ELSE 168)
             /\ w[2] = Object("mem", 4096, IF word = 4 THEN 12 ELSE 24)
             /\ w[3] = When(HasCmdline(f), Object("cmdline", 8192, f.cmdline + 1))
             /\ w[4] = When(HasCmdline(f),
                            Field("cmdline_addr", IF word = 4 THEN 4112 ELSE 4128, word, 8192))
             /\ w[5] = Object("kernel", MiB, f.kernel)
<1>1. /\ 4 * KiB = 4096 /\ 8 * KiB = 8192
      /\ 20 * word + 8 = IF word = 4 THEN 88 ELSE 168
      /\ 3 * word = IF word = 4 THEN 12 ELSE 24
      /\ 4096 + 4 * word = IF word = 4 THEN 4112 ELSE 4128
  BY DEF KiB
<1>2. QED
  BY <1>1 DEF Multiboot1Boot

\* The seven writes of boot_multiboot2_kernel.
LEMMA Multiboot2Items ==
  ASSUME NEW f
  PROVE  LET w == boot_multiboot2_kernel(f)
             end == 4096 + 24 + CmdlineTagSize(f)
         IN  /\ Len(w) = 7
             /\ w[1] = Object("info", 4096, 8)
             /\ w[2] = Tag(4104, 16)
             /\ w[3] = When(HasCmdline(f), Field("tag", 4120, 8, CmdlineTagSize(f)))
             /\ w[4] = When(HasCmdline(f), Object("cmdline", 4128, f.cmdline + 1))
             /\ w[5] = Object("end", end, 8)
             /\ w[6] = Field("total_size", 4096, 4, end + 8 - 4096)
             /\ w[7] = Object("kernel", MiB, f.kernel)
<1>1. 4 * KiB = 4096
  BY DEF KiB
<1>2. QED
  BY <1>1 DEF boot_multiboot2_kernel, CmdlineTag

\* What is placed of the kernel and the initrd has the sizes the loader was given.
LEMMA ServedSizes ==
  ASSUME NetInv, LoaderInv, net = "loader", pc = "kernel", NEW o \in placed
  PROVE  /\ o.what = "initrd" => loader = "boot_linux_kernel" /\ o.size = InitrdSize(files) /\ o.size # 0
         /\ o.what = "kernel" =>
              o.size = files.kernel - (IF loader = "boot_linux_kernel" THEN setup_size(files) ELSE 0)
<1>1. loader \in {"boot_linux_kernel", "boot_multiboot1_kernel", "boot_multiboot2_kernel"}
  BY DEF NetInv, FetchInv
<1>2. FilesOK
  BY DEF LoaderInv
<1>3. CASE loader = "boot_linux_kernel"
  <2> DEFINE w == LinuxWrites(files, InitrdSize(files) > 0)
  <2>1. W = w
    BY <1>3, WritesOf DEF W, boot_linux_kernel
  <2>2. Len(w) = 10
    BY LinuxItems
  <2> HIDE DEF w
  <2>3. PICK j \in 1..10 : o = w[j] /\ w[j].size # 0
    BY <1>3, <2>1, <2>2, AtTheJump
  <2>4. /\ w[1].size = files.kernel - setup_size(files)
        /\ w[2].size # 0 => w[2].size = InitrdSize(files)
        /\ w[1].what = "kernel" /\ w[2].what = "initrd"
        /\ \A i \in 3..10 : w[i].what \notin {"kernel", "initrd"}
    <3> DEFINE c == HasCmdline(files)
               i0 == InitrdSize(files) > 0
               behind == InitrdBehindKernel(files)
               size == files.kernel - setup_size(files)
               length == InitrdSize(files)
               params == 589824
    <3>1. /\ w[1] = Object("kernel", MiB, size)
          /\ w[2] = When(i0, Object("initrd", behind, length))
          /\ w[3] = Object("params", params, 136)
          /\ w[4] = Object("setup", params, setup_size(files))
          /\ w[5] = When(c, Object("cmdline", params + 32, files.cmdline + 1))
          /\ w[6] = When(c, Field("cmdline_addr", params + 60, 4, params + 32))
          /\ w[7] = When(i0, Field("initrd_addr", params + 44, 4, behind))
          /\ w[8] = When(i0, Field("initrd_size", params + 48, 4, length))
          /\ w[9] = Field("mem_upper", params + 128, 4, 0)
          /\ w[10] = Field("ext_mem_k", params + 132, 4, 0)
      BY LinuxItems, SMT DEF w
    <3> HIDE DEF c, i0, behind, size, length, params
    <3>2. /\ w[1].what = "kernel" /\ w[2].what = "initrd" /\ w[3].what = "params"
          /\ w[4].what = "setup" /\ w[5].what = "cmdline" /\ w[6].what = "cmdline_addr"
          /\ w[7].what = "initrd_addr" /\ w[8].what = "initrd_size"
          /\ w[9].what = "mem_upper" /\ w[10].what = "ext_mem_k"
          /\ w[1].size = size /\ w[2].size = IF i0 THEN length ELSE 0
      BY <3>1, SMT DEF Object, Field, When
    <3>3. QED
      BY <3>2, SMT DEF size, length
  <2>5. j = 1 \/ j = 2 \/ j \in 3..10
    OBVIOUS
  <2>6. QED
    BY <1>3, <2>3, <2>4, <2>5
<1>4. CASE loader = "boot_multiboot1_kernel"
  <2> DEFINE w == Multiboot1Boot(files, 4)
  <2>1. W = w
    BY <1>4, WritesOf DEF W, boot_multiboot1_kernel
  <2>2. Len(w) = 5
    BY Multiboot1Items
  <2> HIDE DEF w
  <2>3. PICK j \in 1..5 : o = w[j]
    BY <1>4, <2>1, <2>2, AtTheJump
  <2>4. /\ w[5].size = files.kernel
        /\ \A i \in 1..4 : w[i].what \notin {"kernel", "initrd"}
        /\ w[5].what = "kernel"
    <3> DEFINE c == HasCmdline(files)
    <3>1. /\ w[1] = Object("params", 4096, 88) /\ w[2] = Object("mem", 4096, 12)
          /\ w[3] = When(c, Object("cmdline", 8192, files.cmdline + 1))
          /\ w[4] = When(c, Field("cmdline_addr", 4112, 4, 8192))
          /\ w[5] = Object("kernel", MiB, files.kernel)
      BY Multiboot1Items, SMT DEF w
    <3> HIDE DEF c
    <3>2. /\ w[1].what = "params" /\ w[2].what = "mem" /\ w[3].what = "cmdline"
          /\ w[4].what = "cmdline_addr" /\ w[5].what = "kernel" /\ w[5].size = files.kernel
      BY <3>1, SMT DEF Object, Field, When
    <3>3. QED
      BY <3>2, SMT
  <2>5. j = 5 \/ j \in 1..4
    OBVIOUS
  <2>6. files.kernel - 0 = files.kernel
    BY <1>2 DEF FilesOK
  <2>7. QED
    BY <1>4, <2>3, <2>4, <2>5, <2>6
<1>5. CASE loader = "boot_multiboot2_kernel"
  <2> DEFINE w == boot_multiboot2_kernel(files)
  <2>1. W = w
    BY <1>5, WritesOf DEF W
  <2>2. Len(w) = 7
    BY Multiboot2Items
  <2> HIDE DEF w
  <2>3. PICK j \in 1..7 : o = w[j]
    BY <1>5, <2>1, <2>2, AtTheJump
  <2>4. /\ w[7].size = files.kernel
        /\ \A i \in 1..6 : w[i].what \notin {"kernel", "initrd"}
        /\ w[7].what = "kernel"
    <3> DEFINE c == HasCmdline(files)
               size == CmdlineTagSize(files)
               end == 4096 + 24 + size
    <3>1. /\ w[1] = Object("info", 4096, 8) /\ w[2] = Tag(4104, 16)
          /\ w[3] = When(c, Field("tag", 4120, 8, size))
          /\ w[4] = When(c, Object("cmdline", 4128, files.cmdline + 1))
          /\ w[5] = Object("end", end, 8) /\ w[6] = Field("total_size", 4096, 4, end + 8 - 4096)
          /\ w[7] = Object("kernel", MiB, files.kernel)
      BY Multiboot2Items, SMT DEF w
    <3> HIDE DEF c, size, end
    <3>2. /\ w[1].what = "info" /\ w[2].what = "tag" /\ w[3].what = "tag"
          /\ w[4].what = "cmdline" /\ w[5].what = "end" /\ w[6].what = "total_size"
          /\ w[7].what = "kernel" /\ w[7].size = files.kernel
      BY <3>1, SMT DEF Object, Field, When, Tag
    <3>3. QED
      BY <3>2, SMT
  <2>5. j = 7 \/ j \in 1..6
    OBVIOUS
  <2>6. files.kernel - 0 = files.kernel
    BY <1>2 DEF FilesOK
  <2>7. QED
    BY <1>5, <2>3, <2>4, <2>5, <2>6
<1>6. QED
  BY <1>1, <1>3, <1>4, <1>5

\* A kernel booted over the network lies in memory with the size its file has on
\* the server, 1 MiB where pxe.c was told none, and with the initrd asked for.
THEOREM NetKernelSafe == NetSpec => []NetKernelIsServed
<1>1. NetInv /\ LoaderInv => NetKernelIsServed
  <2> SUFFICES ASSUME NetInv, LoaderInv, net = "loader", pc = "kernel"
               PROVE  /\ loader # "boot_limine_kernel"
                      /\ loader = "boot_linux_kernel" => files.initrd = InitrdTold
                      /\ \A o \in placed :
                           /\ o.what = "initrd" => o.size = served.initrd
                           /\ o.what = "kernel" =>
                                o.size + (IF loader = "boot_linux_kernel"
                                            THEN setup_size(files) ELSE 0) = KernelTold
    BY DEF NetKernelIsServed, InitrdTold, KernelTold
  <2>1. /\ loader # "boot_limine_kernel" /\ files.kernel = KernelTold
        /\ loader = "boot_linux_kernel" => files.initrd = InitrdTold
    BY DEF NetInv, FetchInv
  <2>2. files.kernel \in Nat /\ setup_size(files) \in Nat
    <3>1. files.kernel \in Nat /\ files.setup_sects \in 0..255
      BY DEF LoaderInv, FilesOK
    <3>2. QED
      BY <3>1, SMT DEF setup_size
  <2>3. ASSUME NEW o \in placed
        PROVE  /\ o.what = "initrd" => o.size = served.initrd
               /\ o.what = "kernel" =>
                    o.size + (IF loader = "boot_linux_kernel"
                                THEN setup_size(files) ELSE 0) = KernelTold
    <3>1. o.what = "initrd" => o.size = served.initrd
      BY <2>1, ServedSizes DEF InitrdTold, InitrdSize, HasInitrd
    <3> DEFINE d == IF loader = "boot_linux_kernel" THEN setup_size(files) ELSE 0
    <3>2. d \in Nat
      BY <2>2
    <3> HIDE DEF d
    <3>3. o.what = "kernel" => o.size = files.kernel - d
      BY ServedSizes DEF d
    <3>4. o.what = "kernel" => o.size + d = files.kernel
      <4>1. \A a, b \in Nat : (a - b) + b = a
        OBVIOUS
      <4>2. (files.kernel - d) + d = files.kernel
        BY <2>2, <3>2, <4>1, Zenon
      <4>3. QED
        BY <3>3, <4>2, Zenon
    <3>5. QED
      BY <2>1, <3>1, <3>4 DEF d
  <2>4. QED
    BY <2>1, <2>3
<1>2. QED
  BY <1>1, LoaderInvariance, PTL

-----------------------------------------------------------------------------
(* The tags of multiboot2_load_kernel *)

\* What RoundUp adds leads to the next multiple of 8.
LEMMA RoundUpBound ==
  ASSUME NEW n \in Nat
  PROVE  /\ RoundUp(n) \in Nat /\ n <= RoundUp(n) /\ RoundUp(n) % 8 = 0
         /\ \A a \in Nat : a % 8 = 0 => /\ (a + RoundUp(n)) % 8 = 0
                                        /\ ((a + n + 7) \div 8) * 8 = a + RoundUp(n)
<1>1. PICK q \in Nat, r \in 0..7 : n = 8 * q + r
  <2>1. n = 8 * (n \div 8) + (n % 8) /\ n \div 8 \in Nat /\ n % 8 \in 0..7
    OBVIOUS
  <2>2. QED
    BY <2>1
<1>2. n % 8 = r
  BY <1>1
<1>3. RoundUp(n) = IF r = 0 THEN 8 * q ELSE 8 * q + 8
  BY <1>1, <1>2 DEF RoundUp
<1>4. ASSUME NEW a \in Nat, a % 8 = 0
      PROVE  (a + RoundUp(n)) % 8 = 0 /\ ((a + n + 7) \div 8) * 8 = a + RoundUp(n)
  <2>1. a = 8 * (a \div 8) /\ a \div 8 \in Nat
    BY <1>4
  <2> DEFINE p == a \div 8
  <2> HIDE DEF p
  <2>2. a = 8 * p /\ p \in Nat
    BY <2>1 DEF p
  <2>3. CASE r = 0
    <3>1. a + n + 7 = 8 * (p + q) + 7 /\ a + RoundUp(n) = 8 * (p + q)
      BY <1>1, <1>3, <2>2, <2>3
    <3>2. (a + n + 7) \div 8 = p + q
      BY <1>1, <2>2, <3>1
    <3>3. QED
      BY <1>1, <2>2, <3>1, <3>2
  <2>4. CASE r # 0
    <3>1. a + n + 7 = 8 * (p + q + 1) + (r - 1) /\ a + RoundUp(n) = 8 * (p + q + 1)
      BY <1>1, <1>3, <2>2, <2>4
    <3>2. (a + n + 7) \div 8 = p + q + 1
      BY <1>1, <2>2, <2>4, <3>1
    <3>3. QED
      BY <1>1, <2>2, <3>1, <3>2
  <2>5. QED
    BY <2>3, <2>4
<1>5. QED
  BY <1>1, <1>3, <1>4

\* Its ten writes; the first tag behind the command line's is at m.
LEMMA TagItems ==
  ASSUME NEW f, f.cmdline \in Nat
  PROVE  LET w == multiboot2_load_kernel(f)
             m == 589832 + RoundUp(CmdlineTagSize(f))
         IN  /\ Len(w) = 10
             /\ w[1].what = "kernel" /\ w[2].what = "bss"
             /\ w[3] = Object("info", 589824, 8)
             /\ w[4] = When(HasCmdline(f), Field("tag", 589832, 8, CmdlineTagSize(f)))
             /\ w[5] = When(HasCmdline(f), Object("cmdline", 589840, f.cmdline + 1))
             /\ w[6] = Tag(m, 16)
             /\ w[7] = Tag(m + 16, 20)
             /\ w[8] = Tag(m + 40, 64)
             /\ w[9] = Object("end", m + 104, 8)
             /\ w[10] = Field("total_size", 589824, 4, m + 104 + 8 - 589824)
<1> DEFINE R == RoundUp(CmdlineTagSize(f))
           m == 589832 + R
           A == LoadWrites(f)
<1>1. 576 * KiB = 589824 /\ RoundUp(16) = 16 /\ RoundUp(20) = 24 /\ RoundUp(64) = 64
  BY SMT DEF KiB, RoundUp
<1>2. R \in Nat
  <2>1. CmdlineTagSize(f) \in Nat
    BY SMT DEF CmdlineTagSize
  <2>2. QED
    BY <2>1, RoundUpBound, Zenon
<1>3. A = << A[1], A[2] >> /\ A[1].what = "kernel" /\ A[2].what = "bss"
  BY SMT DEF LoadWrites, Object, When
<1> HIDE DEF R
<1>4. /\ m \in Nat /\ 589824 + 8 + R = m /\ 589824 + 8 = 589832 /\ 589832 + 8 = 589840
      /\ m + 16 + 24 = m + 40 /\ m + 40 + 64 = m + 104
  BY <1>2, SMT
<1> HIDE DEF m, A
<1>5. multiboot2_load_kernel(f) =
        A \o << Object("info", 589824, 8) >> \o CmdlineTag(589832, f)
          \o << Tag(m, 16), Tag(m + 16, 20), Tag(m + 40, 64), Object("end", m + 104, 8),
                Field("total_size", 589824, 4, m + 104 + 8 - 589824) >>
  <2> DEFINE info == 576 * KiB
             meminfo == info + 8 + RoundUp(CmdlineTagSize(f))
             bootdev == meminfo + RoundUp(16)
             mmap == bootdev + RoundUp(20)
             end == mmap + RoundUp(64)
  <2>1. multiboot2_load_kernel(f) =
          LoadWrites(f) \o << Object("info", info, 8) >> \o CmdlineTag(info + 8, f)
            \o << Tag(meminfo, 16), Tag(bootdev, 20), Tag(mmap, 64), Object("end", end, 8),
                  Field("total_size", info, 4, end + 8 - info) >>
    BY Zenon DEF multiboot2_load_kernel
  <2>2. info = 589824 /\ info + 8 = 589832
    BY <1>1, SMT
  <2> HIDE DEF info
  <2>3. meminfo = m
    BY <1>4, <2>2, SMT DEF R
  <2> HIDE DEF meminfo
  <2>4. bootdev = m + 16
    BY <1>1, <2>3, SMT
  <2> HIDE DEF bootdev
  <2>5. mmap = m + 40
    BY <1>1, <1>4, <2>4, SMT
  <2> HIDE DEF mmap
  <2>6. end = m + 104
    BY <1>1, <1>4, <2>5, SMT
  <2> HIDE DEF end
  <2>7. QED
    BY <2>1, <2>2, <2>3, <2>4, <2>5, <2>6, SMT DEF A
<1>6. CmdlineTag(589832, f) =
        << When(HasCmdline(f), Field("tag", 589832, 8, CmdlineTagSize(f))),
           When(HasCmdline(f), Object("cmdline", 589840, f.cmdline + 1)) >>
  BY <1>4, SMT DEF CmdlineTag
<1>7. ASSUME NEW a, NEW b, NEW c, NEW d, NEW e, NEW g, NEW h, NEW i, NEW j, NEW k
      PROVE  LET s == << a, b >> \o << c >> \o << d, e >> \o << g, h, i, j, k >>
             IN  /\ Len(s) = 10 /\ s[1] = a /\ s[2] = b /\ s[3] = c /\ s[4] = d /\ s[5] = e
                 /\ s[6] = g /\ s[7] = h /\ s[8] = i /\ s[9] = j /\ s[10] = k
  BY SMT
<1>8. multiboot2_load_kernel(f) =
        << A[1], A[2] >> \o << Object("info", 589824, 8) >>
          \o << When(HasCmdline(f), Field("tag", 589832, 8, CmdlineTagSize(f))),
                When(HasCmdline(f), Object("cmdline", 589840, f.cmdline + 1)) >>
          \o << Tag(m, 16), Tag(m + 16, 20), Tag(m + 40, 64), Object("end", m + 104, 8),
                Field("total_size", 589824, 4, m + 104 + 8 - 589824) >>
  <2> DEFINE P == << A[1], A[2] >>
             I == << Object("info", 589824, 8) >>
             T == CmdlineTag(589832, f)
             C == << When(HasCmdline(f), Field("tag", 589832, 8, CmdlineTagSize(f))),
                     When(HasCmdline(f), Object("cmdline", 589840, f.cmdline + 1)) >>
             D == << Tag(m, 16), Tag(m + 16, 20), Tag(m + 40, 64), Object("end", m + 104, 8),
                     Field("total_size", 589824, 4, m + 104 + 8 - 589824) >>
  <2>1. A = P /\ T = C /\ multiboot2_load_kernel(f) = A \o I \o T \o D
    BY <1>3, <1>5, <1>6
  <2>2. multiboot2_load_kernel(f) = P \o I \o C \o D
    <3> HIDE DEF P, I, T, C, D
    <3> QED
      BY <2>1, Zenon
  <2>3. QED
    BY <2>2
<1>9. QED
  BY <1>3, <1>7, <1>8, SMT DEF m, R

\* From tag to tag, whatever the length of the command line, a kernel that walks
\* the information of multiboot2_load_kernel gets to the end tag, where the total
\* size ends too.
THEOREM NetTagsSafe == NetSpec => []TagsLeadToTheEnd
<1>1. LoaderInv => TagsLeadToTheEnd
  <2> SUFFICES ASSUME LoaderInv, pc = "kernel", loader = "multiboot2_load_kernel"
               PROVE  TagsLeadToTheEnd
    BY DEF TagsLeadToTheEnd
  <2> DEFINE w == multiboot2_load_kernel(files)
             c == HasCmdline(files)
             C == CmdlineTagSize(files)
             R == RoundUp(C)
             m == 589832 + R
  <2>1. files.cmdline \in Nat /\ W = w
    BY WritesOf DEF LoaderInv, FilesOK, W
  <2>2. /\ C \in Nat /\ files.cmdline \in Nat
        /\ IF c THEN C = 9 + files.cmdline ELSE C = 0
    BY <2>1, SMT DEF CmdlineTagSize, HasCmdline
  <2>3. /\ R \in Nat /\ C <= R /\ R % 8 = 0
        /\ \A a \in Nat : a % 8 = 0 => /\ (a + R) % 8 = 0
                                       /\ ((a + C + 7) \div 8) * 8 = a + R
    BY <2>2, RoundUpBound
  <2>4. ~c => R = 0
    BY <2>2, SMT DEF RoundUp
  <2>5. /\ Len(w) = 10
        /\ w[1].what = "kernel" /\ w[2].what = "bss"
        /\ w[3] = Object("info", 589824, 8)
        /\ w[4] = When(c, Field("tag", 589832, 8, C))
        /\ w[5] = When(c, Object("cmdline", 589840, files.cmdline + 1))
        /\ w[6] = Tag(m, 16) /\ w[7] = Tag(m + 16, 20) /\ w[8] = Tag(m + 40, 64)
        /\ w[9] = Object("end", m + 104, 8)
        /\ w[10] = Field("total_size", 589824, 4, m + 104 + 8 - 589824)
    BY <2>1, TagItems
  <2>6. m \in Nat /\ m >= 589832 + C /\ m % 8 = 0 /\ (~c => m = 589832)
    <3> HIDE DEF c, C, R
    <3>1. 589832 \in Nat /\ 589832 % 8 = 0
      BY SMT
    <3>2. m % 8 = 0
      BY <2>3, <3>1, SMT
    <3>3. m \in Nat /\ m >= 589832 + C /\ (~c => m = 589832)
      BY <2>2, <2>3, <2>4, SMT
    <3>4. QED
      BY <3>2, <3>3
  <2> HIDE DEF w, c, C, R, m
  <2>7. /\ w[3].what = "info"
        /\ w[4].what = "tag" /\ w[4].at = 589832 /\ w[4].value = C
        /\ w[4].size = IF c THEN 8 ELSE 0
        /\ w[5].what = "cmdline" /\ w[5].at = 589840
        /\ w[5].size = IF c THEN files.cmdline + 1 ELSE 0
        /\ w[6].what = "tag" /\ w[6].at = m /\ w[6].size = 16 /\ w[6].value = 16
        /\ w[7].what = "tag" /\ w[7].at = m + 16 /\ w[7].size = 20 /\ w[7].value = 20
        /\ w[8].what = "tag" /\ w[8].at = m + 40 /\ w[8].size = 64 /\ w[8].value = 64
        /\ w[9].what = "end" /\ w[9].at = m + 104 /\ w[9].size = 8
        /\ w[10].what = "total_size" /\ w[10].at = 589824 /\ w[10].size = 4
        /\ w[10].value = m + 104 + 8 - 589824
    BY <2>5, SMT DEF Object, Field, Tag, When
  <2>8. \A o : o \in placed <=>
          \E j \in 1..10 : /\ o = w[j] /\ w[j].size # 0
                           /\ \A k \in (j + 1)..10 : ~Overlap(w[j], w[k])
    BY <2>1, <2>5, AtTheJump
  <2>9. ASSUME NEW j \in {4, 6, 7, 8, 9, 10}, NEW k \in (j + 1)..10
        PROVE  ~Overlap(w[j], w[k])
    <3>1. k \in 5..10
      BY SMT
    <3>2. CASE j = 4
      <4>1. C = 9 + files.cmdline \/ ~c
        BY <2>2
      <4>2. QED
        BY <2>2, <2>6, <2>7, <3>1, <3>2, <4>1, SMT DEF Overlap
    <3>3. CASE j \in {6, 7, 8, 9, 10}
      <4>1. k \in 7..10
        BY <3>3, SMT
      <4>2. QED
        BY <2>2, <2>6, <2>7, <3>3, <4>1, SMT DEF Overlap
    <3>4. QED
      BY <3>2, <3>3, SMT
  <2>10. /\ \A j \in {6, 7, 8, 9, 10} : w[j] \in placed
         /\ c => w[4] \in placed
    <3>1. ASSUME NEW j \in {4, 6, 7, 8, 9, 10}, w[j].size # 0 PROVE w[j] \in placed
      <4>1. j \in 1..10
        BY SMT
      <4>2. QED
        BY <2>8, <2>9, <3>1, <4>1
    <3>2. /\ \A j \in {6, 7, 8, 9, 10} : j \in {4, 6, 7, 8, 9, 10} /\ w[j].size # 0
          /\ c => w[4].size # 0
      BY <2>7, SMT
    <3>3. QED
      BY <3>1, <3>2
  <2> DEFINE tags == {o \in placed : o.what \in {"tag", "end"}}
             After(t) == ((t.at + t.value + 7) \div 8) * 8
  <2>11. w[6] \in tags /\ w[7] \in tags /\ w[8] \in tags /\ w[9] \in tags /\ (c => w[4] \in tags)
    BY <2>7, <2>10, SMT
  <2>12. ASSUME NEW t \in tags
         PROVE  t = w[9] \/ t = w[6] \/ t = w[7] \/ t = w[8] \/ (t = w[4] /\ c)
    <3>1. PICK j \in 1..10 : t = w[j] /\ w[j].size # 0
      BY <2>8
    <3>2. j = 4 \/ j = 6 \/ j = 7 \/ j = 8 \/ j = 9
      BY <2>5, <2>7, <3>1, SMT
    <3>3. QED
      BY <2>7, <3>1, <3>2, SMT
  <2>13. /\ After(w[6]) = m + 16 /\ After(w[7]) = m + 40 /\ After(w[8]) = m + 104
         /\ After(w[4]) = m
    <3>1. PICK q \in Nat : m = 8 * q
      <4>1. m = 8 * (m \div 8) /\ m \div 8 \in Nat
        BY <2>6, SMT
      <4>2. QED
        BY <4>1
    <3>2. /\ m + 16 + 7 = 8 * (q + 2) + 7 /\ m + 16 + 20 + 7 = 8 * (q + 5) + 3
          /\ m + 40 + 64 + 7 = 8 * (q + 13) + 7
          /\ m + 16 = 8 * (q + 2) /\ m + 40 = 8 * (q + 5) /\ m + 104 = 8 * (q + 13)
      BY <3>1, SMT
    <3>3. /\ (m + 16 + 7) \div 8 = q + 2 /\ (m + 16 + 20 + 7) \div 8 = q + 5
          /\ (m + 40 + 64 + 7) \div 8 = q + 13
      BY <3>1, <3>2, SMT
    <3>4. ((589832 + C + 7) \div 8) * 8 = m
      <4>1. 589832 \in Nat /\ 589832 % 8 = 0
        BY SMT
      <4>2. QED
        BY <2>3, <4>1, SMT DEF m
    <3>5. QED
      BY <2>7, <3>1, <3>2, <3>3, <3>4, SMT
  <2> HIDE DEF tags, After
  <2>14. ASSUME NEW t \in tags, t.what = "tag" PROVE \E u \in tags : u.at = After(t)
    <3>1. t # w[9]
      BY <2>7, <2>14
    <3>2. QED
      BY <2>7, <2>11, <2>12, <2>13, <3>1, SMT
  <2>15. \E t \in tags : t.at = 589832
    <3>1. CASE c
      BY <2>7, <2>11, <3>1, SMT
    <3>2. CASE ~c
      BY <2>6, <2>7, <2>11, <3>2, SMT
    <3>3. QED
      BY <3>1, <3>2
  <2>16. \E t \in tags, s \in placed :
           t.what = "end" /\ s.what = "total_size" /\ 589824 + s.value = t.at + t.size
    <3>1. 589824 + (m + 104 + 8 - 589824) = m + 104 + 8
      BY <2>6, SMT
    <3>2. w[9] \in tags /\ w[10] \in placed
      BY <2>10, <2>11
    <3>3. 589824 + w[10].value = w[9].at + w[9].size
      BY <2>7, <3>1, SMT
    <3>4. QED
      BY <2>7, <3>2, <3>3, SMT
  <2>17. 576 * KiB = 589824 /\ 576 * KiB + 8 = 589832
    BY SMT DEF KiB
  <2>18. QED
    BY <2>14, <2>15, <2>16, <2>17, SMT DEF TagsLeadToTheEnd, tags, After
<1>2. QED
  BY <1>1, LoaderInvariance, PTL

-----------------------------------------------------------------------------
(* The entry of a Limine kernel *)

\* The odd writes are the segments, the even ones zeros.
LEMMA SegmentItems ==
  ASSUME NEW l, NEW f, f.elf.segments \in Seq([vaddr : Nat, filesz : Nat, memsz : Nat])
  PROVE  LET w == SegmentWrites(l, f)
             n == Len(f.elf.segments)
         IN  /\ n \in Nat /\ Len(w) = 2 * n /\ DOMAIN w = 1..(2 * n)
             /\ \A i \in 1..n :
                  /\ w[2 * i].what = "bss"
                  /\ w[2 * i - 1] = Field("kernel", SegmentAddr(l, f, f.elf.segments[i]),
                                          f.elf.segments[i].filesz, f.elf.segments[i].vaddr)
<1> DEFINE w == SegmentWrites(l, f)
           s == f.elf.segments
           n == Len(s)
           item(j) == LET seg == s[(j + 1) \div 2]
                          at == SegmentAddr(l, f, seg)
                      IN  IF j % 2 = 1 THEN Field("kernel", at, seg.filesz, seg.vaddr)
                          ELSE When(seg.memsz > seg.filesz,
                                    Object("bss", at + seg.filesz, seg.memsz - seg.filesz))
<1>1. n \in Nat
  BY LenProperties
<1>2. w = [j \in 1..(2 * n) |-> item(j)]
  BY DEF SegmentWrites
<1> HIDE DEF w, item
<1>3. 2 * n \in Nat /\ Len(w) = 2 * n /\ DOMAIN w = 1..(2 * n)
  BY <1>1, <1>2
<1>4. ASSUME NEW i \in 1..n
      PROVE  /\ w[2 * i].what = "bss"
             /\ w[2 * i - 1] = Field("kernel", SegmentAddr(l, f, s[i]), s[i].filesz, s[i].vaddr)
  <2> HIDE DEF s, n
  <2>1. /\ 2 * i \in 1..(2 * n) /\ 2 * i - 1 \in 1..(2 * n)
        /\ (2 * i) % 2 = 0 /\ (2 * i - 1) % 2 = 1 /\ (2 * i - 1 + 1) \div 2 = i
    BY <1>1
  <2>2. w[2 * i] = item(2 * i) /\ w[2 * i - 1] = item(2 * i - 1)
    BY <1>2, <2>1
  <2>3. item(2 * i).what = "bss"
    <3>1. (2 * i) % 2 # 1
      BY <2>1
    <3>2. QED
      BY <3>1, Zenon DEF item, When, Object
  <2>4. item(2 * i - 1) = Field("kernel", SegmentAddr(l, f, s[i]), s[i].filesz, s[i].vaddr)
    BY <2>1, Zenon DEF item
  <2>5. QED
    BY <2>2, <2>3, <2>4
<1>5. QED
  BY <1>1, <1>3, <1>4 DEF w

\* What either loader of Limine kernels places as a kernel are the segments.
LEMMA LimineItems ==
  ASSUME NEW l \in LimineLoaders, NEW f,
         f.elf.segments \in Seq([vaddr : Nat, filesz : Nat, memsz : Nat])
  PROVE  LET w == Writes(l, f)
             n == Len(f.elf.segments)
         IN  /\ Len(w) \in Nat /\ 2 * n <= Len(w) /\ n \in Nat
             /\ \A i \in 1..n :
                  w[2 * i - 1] = Field("kernel", SegmentAddr(l, f, f.elf.segments[i]),
                                       f.elf.segments[i].filesz, f.elf.segments[i].vaddr)
             /\ \A j \in 1..Len(w) :
                  w[j].what = "kernel" => \E i \in 1..n : j = 2 * i - 1
<1> DEFINE n == Len(f.elf.segments)
           S == SegmentWrites(l, f)
<1>1. /\ n \in Nat /\ Len(S) = 2 * n /\ DOMAIN S = 1..(2 * n)
      /\ \A i \in 1..n :
           /\ S[2 * i].what = "bss"
           /\ S[2 * i - 1] = Field("kernel", SegmentAddr(l, f, f.elf.segments[i]),
                                   f.elf.segments[i].filesz, f.elf.segments[i].vaddr)
  BY SegmentItems
<1>2. \E T : /\ Writes(l, f) = S \o T /\ Len(T) \in Nat
             /\ \A k \in 1..Len(T) : T[k].what # "kernel"
  <2>1. CASE l = "limine_load_kernel"
    <3>1. Writes(l, f) = S
      BY <2>1, WritesOf, Zenon DEF limine_load_kernel
    <3>2. S = S \o << >>
      BY DEF SegmentWrites
    <3>3. Len(<< >>) \in Nat /\ \A k \in 1..Len(<< >>) : FALSE
      OBVIOUS
    <3>4. QED
      <4> HIDE DEF S
      <4> QED
        BY <3>1, <3>2, <3>3, Zenon
  <2>2. CASE l = "boot_limine_kernel"
    <3> DEFINE record == 4 * KiB + 256
               cmdline == 4 * KiB + 768
               T == << Object("params", 4 * KiB, 16),
                       Object("params", record, 24),
                       Object("path", record + 24, 8),
                       Field("cmdline_addr", record + 32, 8, cmdline),
                       When(HasCmdline(f), Object("cmdline", cmdline, f.cmdline + 1)) >>
    <3>1. Writes(l, f) = S \o T
      <4>1. Writes("boot_limine_kernel", f) = boot_limine_kernel(f)
        BY WritesOf, Zenon
      <4>2. boot_limine_kernel(f) = SegmentWrites("boot_limine_kernel", f) \o T
        BY Zenon DEF boot_limine_kernel
      <4> HIDE DEF T
      <4>3. QED
        BY <2>2, <4>1, <4>2, Zenon
    <3>2. /\ Len(T) = 5 /\ T[1].what = "params" /\ T[2].what = "params" /\ T[3].what = "path"
          /\ T[4].what = "cmdline_addr" /\ T[5].what = "cmdline"
      <4> HIDE DEF record, cmdline
      <4> QED
        BY SMT DEF Object, Field, When
    <3> HIDE DEF T, S
    <3>3. Len(T) \in Nat /\ \A k \in 1..Len(T) : T[k].what # "kernel"
      BY <3>2, SMT
    <3>4. QED
      BY <3>1, <3>3, Zenon
  <2>3. QED
    BY <2>1, <2>2 DEF LimineLoaders
<1>3. PICK T : /\ Writes(l, f) = S \o T /\ Len(T) \in Nat
               /\ \A k \in 1..Len(T) : T[k].what # "kernel"
  BY <1>2
<1> DEFINE w == Writes(l, f)
<1> HIDE DEF n, S, w
<1>4. /\ Len(w) = 2 * n + Len(T)
      /\ \A j \in 1..(2 * n) : w[j] = S[j]
      /\ \A j \in (2 * n + 1)..(2 * n + Len(T)) : w[j] = T[j - 2 * n]
  BY <1>1, <1>3 DEF w
<1>5. ASSUME NEW i \in 1..n PROVE w[2 * i - 1] = S[2 * i - 1] /\ w[2 * i] = S[2 * i]
  <2>1. 2 * i - 1 \in 1..(2 * n) /\ 2 * i \in 1..(2 * n)
    BY <1>1
  <2>2. QED
    BY <1>4, <2>1
<1>6. ASSUME NEW j \in 1..Len(w), w[j].what = "kernel"
      PROVE  \E i \in 1..n : j = 2 * i - 1
  <2>1. CASE j \in (2 * n + 1)..(2 * n + Len(T))
    <3>1. j - 2 * n \in 1..Len(T)
      BY <1>1, <1>3, <2>1
    <3>2. QED
      BY <1>3, <1>4, <1>6, <2>1, <3>1
  <2>2. CASE j \in 1..(2 * n)
    <3>1. PICK i \in 1..n : j = 2 * i \/ j = 2 * i - 1
      <4>1. PICK q \in Nat : j = 2 * q \/ j = 2 * q - 1
        <5>1. j = 2 * (j \div 2) + (j % 2) /\ j \div 2 \in Nat /\ j % 2 \in 0..1
          BY <1>1, <2>2
        <5>2. CASE j % 2 = 0
          BY <5>1, <5>2
        <5>3. CASE j % 2 = 1
          <6>1. j = 2 * (j \div 2 + 1) - 1 /\ j \div 2 + 1 \in Nat
            BY <5>1, <5>3
          <6>2. QED
            BY <6>1
        <5>4. QED
          BY <5>1, <5>2, <5>3
      <4>2. q \in 1..n
        BY <1>1, <2>2, <4>1
      <4>3. QED
        BY <4>1, <4>2
    <3>2. j # 2 * i
      BY <1>1, <1>5, <1>6
    <3>3. QED
      BY <3>1, <3>2
  <2>3. QED
    BY <1>1, <1>3, <1>4, <2>1, <2>2
<1>7. Len(w) \in Nat /\ 2 * n <= Len(w)
  BY <1>1, <1>3, <1>4
<1>8. QED
  BY <1>1, <1>5, <1>6, <1>7 DEF w, n

\* A Limine kernel that is whole is entered at its own entry exactly when the byte
\* of the entry is in a segment, and the segment lies where it is linked: in the
\* lower half, or when the entry is the start of the upper, or when the loader is
\* boot_limine_kernel.
THEOREM NetEntrySafe == NetSpec => []EntryIsTheKernels
<1>1. LoaderInv => EntryIsTheKernels
  <2> SUFFICES ASSUME LoaderInv, pc = "kernel", loader \in LimineLoaders, lost = {}
               PROVE  EntryIsTheKernels
    BY DEF EntryIsTheKernels
  <2> DEFINE entry == files.elf.entry
             Holds(at, size) == at <= entry /\ entry < at + size
             segments == files.elf.segments
             n == Len(segments)
             Fits(i) == /\ Holds(segments[i].vaddr, segments[i].filesz)
                        /\ segments[i].vaddr < HighHalf \/ entry = HighHalf
                             \/ loader = "boot_limine_kernel"
             Enters(o) == o.what = "kernel" /\ o.value = o.at /\ Holds(o.at, o.size)
  <2>1. FilesOK /\ loader # "multiboot1_load_kernel"
    BY DEF LoaderInv, LimineLoaders
  <2>2. /\ entry \in Nat /\ segments \in Seq([vaddr : Nat, filesz : Nat, memsz : Nat])
        /\ HighHalf \in Nat /\ n \in Nat /\ DOMAIN segments = 1..n
        /\ \A i \in 1..n : segments[i] \in [vaddr : Nat, filesz : Nat, memsz : Nat]
    <3>1. entry \in Nat /\ segments \in Seq([vaddr : Nat, filesz : Nat, memsz : Nat])
      BY <2>1 DEF FilesOK
    <3>2. HighHalf \in Nat
      BY HandoffAssumption DEF HandoffAssumption
    <3>3. QED
      BY <3>1, <3>2, LenProperties, ElementOfSeq
  <2>3. /\ Len(W) \in Nat /\ 2 * n <= Len(W)
        /\ \A i \in 1..n :
             W[2 * i - 1] = Field("kernel", SegmentAddr(loader, files, segments[i]),
                                  segments[i].filesz, segments[i].vaddr)
        /\ \A j \in 1..Len(W) : W[j].what = "kernel" => \E i \in 1..n : j = 2 * i - 1
    BY <2>2, LimineItems DEF W
  <2>4. /\ \A o : o \in placed =>
             \E j \in 1..Len(W) : o = W[j] /\ W[j].size # 0
        /\ \A j \in 1..Len(W) : W[j].what \in Payload /\ W[j].size # 0 => W[j] \in placed
    <3>1. /\ \A o : o \in placed <=>
               \E j \in 1..Len(W) : /\ o = W[j] /\ W[j].size # 0
                                    /\ \A k \in (j + 1)..Len(W) : ~Overlap(W[j], W[k])
          /\ lost = {} => \A j \in 1..Len(W) : W[j].what \in Payload =>
                            \A k \in (j + 1)..Len(W) : ~Overlap(W[j], W[k])
      BY <2>1, <2>3, AtTheJump
    <3>2. QED
      BY <3>1
  <2>5. ASSUME NEW i \in 1..n
        PROVE  /\ W[2 * i - 1].what = "kernel"
               /\ W[2 * i - 1].at = SegmentAddr(loader, files, segments[i])
               /\ W[2 * i - 1].size = segments[i].filesz
               /\ W[2 * i - 1].value = segments[i].vaddr
               /\ 2 * i - 1 \in 1..Len(W)
               /\ segments[i].vaddr \in Nat /\ segments[i].filesz \in Nat
    <3>1. segments[i] \in [vaddr : Nat, filesz : Nat, memsz : Nat]
      BY <2>2
    <3>2. 2 * i - 1 \in 1..Len(W)
      BY <2>2, <2>3
    <3>3. W[2 * i - 1] = Field("kernel", SegmentAddr(loader, files, segments[i]),
                               segments[i].filesz, segments[i].vaddr)
      BY <2>3
    <3> HIDE DEF Fits, Enters, n, segments
    <3>4. QED
      BY <3>1, <3>2, <3>3 DEF Field
  <2> HIDE DEF n, segments, entry
  <2>6. ASSUME NEW i \in 1..n
        PROVE  Enters(W[2 * i - 1]) <=> Fits(i)
    <3> DEFINE v == segments[i].vaddr
               z == segments[i].filesz
               at == SegmentAddr(loader, files, segments[i])
    <3>1. v \in Nat /\ z \in Nat
      BY <2>5
    <3>2. Enters(W[2 * i - 1]) <=> v = at /\ Holds(v, z)
      BY <2>5
    <3>3. LoadBase(loader, files) =
            IF loader = "boot_limine_kernel" THEN HighHalf
            ELSE IF entry >= HighHalf THEN entry ELSE 2 * MiB
      BY Zenon DEF LoadBase, entry
    <3>4. at = IF v >= HighHalf THEN v - HighHalf + LoadBase(loader, files) ELSE v
      BY Zenon DEF SegmentAddr
    <3> DEFINE base == LoadBase(loader, files)
    <3>5. base \in Nat
      <4>1. 2 * MiB \in Nat
        BY SMT DEF MiB
      <4>2. QED
        BY <2>2, <3>3, <4>1
    <3> HIDE DEF v, z, at, base
    <3>6. v >= HighHalf => (at = v <=> base = HighHalf)
      BY <2>2, <3>1, <3>4, <3>5 DEF base
    <3>7. v < HighHalf => at = v
      BY <2>2, <3>1, <3>4
    <3>8. v < HighHalf \/ v >= HighHalf
      BY <2>2, <3>1
    <3>9. v >= HighHalf /\ Holds(v, z) =>
            (base = HighHalf <=> entry = HighHalf \/ loader = "boot_limine_kernel")
      <4>1. v >= HighHalf /\ Holds(v, z) => entry >= HighHalf
        BY <2>2, <3>1
      <4>2. QED
        BY <3>3, <4>1, Zenon DEF base
    <3>10. Fits(i) <=> Holds(v, z) /\ (v < HighHalf \/ entry = HighHalf
                                         \/ loader = "boot_limine_kernel")
      BY Zenon DEF v, z
    <3> HIDE DEF Fits, Enters, Holds
    <3>11. ~(v < HighHalf /\ v >= HighHalf)
      BY <2>2, <3>1
    <3>12. QED
      BY <3>2, <3>6, <3>7, <3>8, <3>9, <3>10, <3>11, Zenon
  <2>7. ASSUME NEW o \in placed, Enters(o) PROVE \E i \in DOMAIN segments : Fits(i)
    <3>1. PICK j \in 1..Len(W) : o = W[j]
      BY <2>4
    <3>2. PICK i \in 1..n : j = 2 * i - 1
      BY <2>3, <2>7, <3>1
    <3>3. Fits(i)
      BY <2>6, <2>7, <3>1, <3>2
    <3>4. QED
      BY <2>2, <3>3
  <2>8. ASSUME NEW i \in DOMAIN segments, Fits(i) PROVE \E o \in placed : Enters(o)
    <3>1. i \in 1..n
      BY <2>2
    <3>2. Enters(W[2 * i - 1])
      BY <2>6, <2>8, <3>1
    <3>3. segments[i].filesz # 0
      BY <2>2, <2>5, <2>8, <3>1
    <3>4. W[2 * i - 1] \in placed
      <4>1. "kernel" \in Payload
        BY DEF Payload
      <4>2. QED
        BY <2>4, <2>5, <3>1, <3>3, <4>1
    <3>5. QED
      BY <3>2, <3>4
  <2>9. (\E o \in placed : Enters(o)) <=> \E i \in DOMAIN segments : Fits(i)
    <3> HIDE DEF Fits, Enters
    <3> QED
      BY <2>7, <2>8
  <2>10. QED
    BY <2>9, Zenon DEF EntryIsTheKernels, segments, entry
<1>2. QED
  BY <1>1, LoaderInvariance, PTL

-----------------------------------------------------------------------------
(* What the parameters tell the kernel *)

\* A write that is in memory at the jump if nothing the kernel needs is lost.
Lasts(w, i) ==
  w[i].size # 0 /\ (w[i].what \in Payload \/ \A k \in (i + 1)..Len(w) : ~Overlap(w[i], w[k]))

\* Some write that lasts tells where the command line or the initrd is, and some
\* one has the length told.
Truthful(w) ==
  \A j \in 1..Len(w) :
    /\ w[j].what \in {"cmdline", "initrd"} /\ w[j].size # 0 =>
         \E i \in 1..Len(w) : Tells(w[i], w[j]) /\ Lasts(w, i)
    /\ w[j].what \in DOMAIN Length /\ w[j].value > 0 /\ w[j].size # 0 =>
         \E i \in 1..Len(w) : /\ w[i].what = Length[w[j].what] /\ w[i].size = w[j].value
                              /\ Lasts(w, i)

\* Some write, of that size, is of the object; if it has a size at all.
Given(w, what, size) ==
  size # 0 => \E j \in 1..Len(w) : w[j].what = what /\ w[j].size = size

\* The bytes of the command line, with the 0 at its end.
Line(f) == IF HasCmdline(f) THEN f.cmdline + 1 ELSE 0

\* What is in memory at the jump, for all loaders.
LEMMA AtAnyJump ==
  ASSUME LoaderInv, pc = "kernel", lost = {}, Len(W) \in Nat
  PROVE  /\ FilesOK
         /\ \A o \in placed : o.what \notin {"module", "record", "string"} =>
              \E j \in 1..Len(W) : o = W[j] /\ W[j].size # 0
         /\ \A j \in 1..Len(W) : Lasts(W, j) => W[j] \in placed
<1> DEFINE n == Len(W)
<1>1. next - 1 = n
  BY DEF LoaderInv, PlacedInv
<1>2. /\ \A o : Kept(next, o) => o \in placed
      /\ \A o \in placed : Kept(next, o) \/ OfModule(o)
      /\ \A o : ~Gone(next, o)
      /\ FilesOK
  BY DEF LoaderInv, PlacedInv
<1>3. ASSUME NEW o \in placed, o.what \notin {"module", "record", "string"}
      PROVE  \E j \in 1..n : o = W[j] /\ W[j].size # 0
  BY <1>1, <1>2, <1>3 DEF OfModule, Kept
<1>4. ASSUME NEW j \in 1..n, Lasts(W, j) PROVE W[j] \in placed
  <2>1. \A k \in (j + 1)..n : ~Overlap(W[j], W[k])
    BY <1>1, <1>2, <1>4 DEF Lasts, Gone
  <2>2. Kept(next, W[j])
    BY <1>1, <1>4, <2>1 DEF Lasts, Kept
  <2>3. QED
    BY <1>2, <2>2
<1>5. QED
  BY <1>2, <1>3, <1>4

\* The names of what is told, one by one.
LEMMA Tellings ==
  /\ DOMAIN Length = {"cmdline_size", "initrd_size", "kernel_size"}
  /\ Length["cmdline_size"] = "cmdline" /\ Length["initrd_size"] = "initrd"
  /\ Length["kernel_size"] = "kernel"
  /\ \A p, o : p.what = "cmdline_addr" /\ o.what = "cmdline" /\ p.value = o.at => Tells(p, o)
  /\ \A p, o : p.what = "initrd_addr" /\ o.what = "initrd" /\ p.value = o.at => Tells(p, o)
  /\ \A p, o : p.what = "tag" /\ o.what = "cmdline" /\ p.at + 8 = o.at /\ p.value = 8 + o.size
                 => Tells(p, o)
  /\ "kernel" \in Payload /\ "initrd" \in Payload /\ "cmdline" \in Payload /\ "tag" \in Payload
  BY DEF Length, Target, Tells, Payload

\* A loader whose writes are truthful tells where what it was given is, and no wrong
\* length.
LEMMA TruthAtTheJump ==
  ASSUME LoaderInv, pc = "kernel", lost = {}, Len(W) \in Nat, Truthful(W)
  PROVE  /\ \A what \in {"cmdline", "initrd"} : \A size :
              Given(W, what, size) /\ size # 0 => Told(what, size)
         /\ \A p \in placed :
              p.what \in DOMAIN Length /\ p.value > 0 =>
                \E o \in placed : o.what = Length[p.what] /\ o.size = p.value
<1>1. /\ \A o \in placed : o.what \notin {"module", "record", "string"} =>
           \E j \in 1..Len(W) : o = W[j] /\ W[j].size # 0
      /\ \A j \in 1..Len(W) : Lasts(W, j) => W[j] \in placed
  BY AtAnyJump
<1>2. ASSUME NEW what \in {"cmdline", "initrd"}, NEW size, Given(W, what, size), size # 0
      PROVE  Told(what, size)
  <2>1. PICK j \in 1..Len(W) : W[j].what = what /\ W[j].size = size
    BY <1>2 DEF Given
  <2>2. Lasts(W, j)
    BY <1>2, <2>1, Tellings DEF Lasts
  <2>3. PICK i \in 1..Len(W) : Tells(W[i], W[j]) /\ Lasts(W, i)
    BY <1>2, <2>1 DEF Truthful
  <2>4. W[j] \in placed /\ W[i] \in placed
    BY <1>1, <2>2, <2>3
  <2>5. QED
    BY <2>1, <2>3, <2>4, Zenon DEF Told
<1>3. ASSUME NEW p \in placed, p.what \in DOMAIN Length, p.value > 0
      PROVE  \E o \in placed : o.what = Length[p.what] /\ o.size = p.value
  <2>1. p.what \notin {"module", "record", "string"}
    BY <1>3 DEF Length
  <2>2. PICK j \in 1..Len(W) : p = W[j] /\ W[j].size # 0
    BY <1>1, <2>1
  <2>3. PICK i \in 1..Len(W) : /\ W[i].what = Length[W[j].what] /\ W[i].size = W[j].value
                               /\ Lasts(W, i)
    BY <1>3, <2>2 DEF Truthful
  <2>4. QED
    BY <1>1, <2>2, <2>3
<1>4. QED
  BY <1>2, <1>3

\* The Linux loaders: the fields are written after the setup code, apart from each
\* other.
LEMMA LinuxTruth ==
  ASSUME NEW f, NEW initrd \in BOOLEAN, f.cmdline \in Nat, InitrdSize(f) # 0 => initrd
  PROVE  /\ Len(LinuxWrites(f, initrd)) = 10 /\ Truthful(LinuxWrites(f, initrd))
         /\ Given(LinuxWrites(f, initrd), "cmdline", Line(f))
         /\ Given(LinuxWrites(f, initrd), "initrd", InitrdSize(f))
<1> DEFINE w == LinuxWrites(f, initrd)
           c == HasCmdline(f)
           behind == InitrdBehindKernel(f)
           length == InitrdSize(f)
           size == f.kernel - setup_size(f)
           setup == setup_size(f)
           s == f.cmdline + 1
           P == 589824
<1>1. /\ Len(w) = 10
      /\ w[1] = Object("kernel", MiB, size)
      /\ w[2] = When(initrd, Object("initrd", behind, length))
      /\ w[3] = Object("params", P, 136)
      /\ w[4] = Object("setup", P, setup)
      /\ w[5] = When(c, Object("cmdline", P + 32, s))
      /\ w[6] = When(c, Field("cmdline_addr", P + 60, 4, P + 32))
      /\ w[7] = When(initrd, Field("initrd_addr", P + 44, 4, behind))
      /\ w[8] = When(initrd, Field("initrd_size", P + 48, 4, length))
      /\ w[9] = Field("mem_upper", P + 128, 4, 0)
      /\ w[10] = Field("ext_mem_k", P + 132, 4, 0)
  BY LinuxItems, SMT
<1>2. s # 0 /\ s \in Nat /\ P \in Nat
  BY SMT
<1> HIDE DEF w, c, behind, length, size, setup, s, P
<1>3. /\ w[1].what = "kernel" /\ w[3].what = "params" /\ w[4].what = "setup"
      /\ w[2].what = "initrd" /\ w[2].at = behind /\ w[2].size = IF initrd THEN length ELSE 0
      /\ w[5].what = "cmdline" /\ w[5].at = P + 32 /\ w[5].size = IF c THEN s ELSE 0
      /\ w[6].what = "cmdline_addr" /\ w[6].at = P + 60 /\ w[6].size = IF c THEN 4 ELSE 0
      /\ w[6].value = P + 32
      /\ w[7].what = "initrd_addr" /\ w[7].at = P + 44 /\ w[7].size = IF initrd THEN 4 ELSE 0
      /\ w[7].value = behind
      /\ w[8].what = "initrd_size" /\ w[8].at = P + 48 /\ w[8].size = IF initrd THEN 4 ELSE 0
      /\ w[8].value = length
      /\ w[9].what = "mem_upper" /\ w[9].at = P + 128 /\ w[9].size = 4
      /\ w[10].what = "ext_mem_k" /\ w[10].at = P + 132 /\ w[10].size = 4
  BY <1>1, SMT DEF Object, Field, When
<1>4. ASSUME NEW i \in {6, 7}, w[i].size # 0 PROVE Lasts(w, i)
  <2>1. ASSUME NEW k \in (i + 1)..10 PROVE ~Overlap(w[i], w[k])
    <3>1. k \in {7, 8, 9, 10} /\ (i = 6 \/ k # 7)
      BY SMT
    <3>2. QED
      BY <1>2, <1>3, <3>1, SMT DEF Overlap
  <2>2. QED
    BY <1>1, <1>4, <2>1, Zenon DEF Lasts
<1>5. ASSUME NEW j \in 1..10
      PROVE  /\ w[j].what \in {"cmdline", "initrd"} => j = 5 \/ j = 2
             /\ w[j].what \in DOMAIN Length => j = 8
  BY <1>3, Tellings, SMT
<1>6. w[5].size # 0 => Tells(w[6], w[5]) /\ Lasts(w, 6)
  <2> SUFFICES ASSUME w[5].size # 0 PROVE Tells(w[6], w[5]) /\ Lasts(w, 6)
    OBVIOUS
  <2>1. w[6].size # 0 /\ 6 \in {6, 7} /\ w[6].value = w[5].at
    BY <1>3, SMT
  <2>2. QED
    BY <1>3, <1>4, <2>1, Tellings
<1>7. w[2].size # 0 => Tells(w[7], w[2]) /\ Lasts(w, 7)
  <2> SUFFICES ASSUME w[2].size # 0 PROVE Tells(w[7], w[2]) /\ Lasts(w, 7)
    OBVIOUS
  <2>1. w[7].size # 0 /\ 7 \in {6, 7} /\ w[7].value = w[2].at
    BY <1>3, SMT
  <2>2. QED
    BY <1>3, <1>4, <2>1, Tellings
<1>8. w[8].size # 0 /\ w[8].value > 0 =>
        w[2].what = Length[w[8].what] /\ w[2].size = w[8].value /\ Lasts(w, 2)
  <2> SUFFICES ASSUME w[8].size # 0, w[8].value > 0
               PROVE  w[2].what = Length[w[8].what] /\ w[2].size = w[8].value /\ Lasts(w, 2)
    OBVIOUS
  <2>1. w[2].size = w[8].value /\ w[2].size # 0
    BY <1>3, SMT
  <2>2. QED
    BY <1>3, <2>1, Tellings DEF Lasts
<1>9. 2 \in 1..10 /\ 6 \in 1..10 /\ 7 \in 1..10
  OBVIOUS
<1>10. Truthful(w)
  BY <1>1, <1>5, <1>6, <1>7, <1>8, <1>9 DEF Truthful
<1>11. Line(f) = (IF c THEN s ELSE 0) /\ (length # 0 => initrd) /\ InitrdSize(f) = length
  BY DEF Line, c, s, length
<1>12. 5 \in 1..10
  OBVIOUS
<1>13. Given(w, "cmdline", Line(f)) /\ Given(w, "initrd", length)
  BY <1>1, <1>3, <1>9, <1>11, <1>12 DEF Given
<1>14. QED
  BY <1>1, <1>10, <1>11, <1>13 DEF w

\* boot_multiboot1_kernel and its twin of ia32.c, with words of 4 bytes.
LEMMA Multiboot1Truth ==
  ASSUME NEW f, f.cmdline \in Nat
  PROVE  /\ Len(Multiboot1Boot(f, 4)) = 5 /\ Truthful(Multiboot1Boot(f, 4))
         /\ Given(Multiboot1Boot(f, 4), "cmdline", Line(f))
         /\ \A j \in 1..5 : Multiboot1Boot(f, 4)[j].what = "cmdline_addr" =>
              Multiboot1Boot(f, 4)[j].at = 4 * KiB + 16
<1> DEFINE w == Multiboot1Boot(f, 4)
           c == HasCmdline(f)
           s == f.cmdline + 1
           M == MiB
<1>1. /\ Len(w) = 5
      /\ w[1] = Object("params", 4096, 88)
      /\ w[2] = Object("mem", 4096, 12)
      /\ w[3] = When(c, Object("cmdline", 8192, s))
      /\ w[4] = When(c, Field("cmdline_addr", 4112, 4, 8192))
      /\ w[5] = Object("kernel", M, f.kernel)
  BY Multiboot1Items, SMT
<1>2. s # 0 /\ s \in Nat /\ M >= 8192 /\ M \in Nat /\ 4 * KiB + 16 = 4112
  BY SMT DEF MiB, KiB
<1> HIDE DEF w, c, s, M
<1>3. /\ w[1].what = "params" /\ w[2].what = "mem"
      /\ w[3].what = "cmdline" /\ w[3].at = 8192 /\ w[3].size = IF c THEN s ELSE 0
      /\ w[4].what = "cmdline_addr" /\ w[4].at = 4112 /\ w[4].size = IF c THEN 4 ELSE 0
      /\ w[4].value = 8192
      /\ w[5].what = "kernel" /\ w[5].at = M
  BY <1>1, SMT DEF Object, Field, When
<1>4. ASSUME NEW j \in 1..5
      PROVE  /\ w[j].what \in {"cmdline", "initrd"} => j = 3
             /\ w[j].what \notin DOMAIN Length
             /\ w[j].what = "cmdline_addr" => j = 4
  BY <1>3, Tellings, SMT
<1>5. w[3].size # 0 => Tells(w[4], w[3]) /\ Lasts(w, 4)
  <2> SUFFICES ASSUME w[3].size # 0 PROVE Tells(w[4], w[3]) /\ Lasts(w, 4)
    OBVIOUS
  <2>1. w[4].size # 0 /\ w[4].value = w[3].at
    BY <1>3, SMT
  <2>2. ASSUME NEW k \in (4 + 1)..5 PROVE ~Overlap(w[4], w[k])
    <3>1. k = 5
      OBVIOUS
    <3>2. ~(w[5].at < w[4].at + w[4].size)
      BY <1>2, <1>3, SMT
    <3>3. QED
      BY <3>1, <3>2, SMT DEF Overlap
  <2>3. Lasts(w, 4)
    BY <1>1, <2>1, <2>2 DEF Lasts
  <2>4. QED
    BY <1>3, <2>1, <2>3, Tellings
<1>6. 3 \in 1..5 /\ 4 \in 1..5
  OBVIOUS
<1>7. Truthful(w)
  BY <1>1, <1>4, <1>5, <1>6 DEF Truthful
<1>8. \A j \in 1..5 : w[j].what = "cmdline_addr" => w[j].at = 4 * KiB + 16
  BY <1>2, <1>3, <1>4, SMT
<1>9. Line(f) = IF c THEN s ELSE 0
  BY DEF Line, c, s
<1>10. Given(w, "cmdline", Line(f))
  BY <1>1, <1>3, <1>6, <1>9 DEF Given
<1>11. QED
  BY <1>1, <1>7, <1>8, <1>10 DEF w

\* multiboot1_load_kernel: the address of the command line lies before it.
LEMMA InfoTruth ==
  ASSUME NEW f, f.cmdline \in Nat
  PROVE  /\ Len(multiboot1_load_kernel(f)) = 10 /\ Truthful(multiboot1_load_kernel(f))
         /\ Given(multiboot1_load_kernel(f), "cmdline", Line(f))
<1> DEFINE w == multiboot1_load_kernel(f)
           A == LoadWrites(f)
           c == HasCmdline(f)
           s == f.cmdline + 1
           P == 576 * KiB
<1>1. A = << A[1], A[2] >> /\ A[1].what = "kernel" /\ A[2].what = "bss"
  BY SMT DEF LoadWrites, Object, When
<1>2. s # 0 /\ s \in Nat /\ P \in Nat
  BY SMT DEF KiB
<1>3. w = A \o << Object("params", P, 88), Object("mem", P, 12),
                  When(c, Object("cmdline", P + 32, s)),
                  When(c, Field("cmdline_addr", P + 16, 4, P + 32)),
                  Object("boot_device", P + 12, 4), Object("mmap", P + 256, 64),
                  Object("mmap_length", P + 44, 4), Field("mmap_addr", P + 48, 4, P + 256) >>
  BY Zenon DEF multiboot1_load_kernel
<1> HIDE DEF w, A, c, s, P
<1>4. /\ Len(w) = 10
      /\ w[1] = A[1] /\ w[2] = A[2]
      /\ w[3] = Object("params", P, 88)
      /\ w[4] = Object("mem", P, 12)
      /\ w[5] = When(c, Object("cmdline", P + 32, s))
      /\ w[6] = When(c, Field("cmdline_addr", P + 16, 4, P + 32))
      /\ w[7] = Object("boot_device", P + 12, 4)
      /\ w[8] = Object("mmap", P + 256, 64)
      /\ w[9] = Object("mmap_length", P + 44, 4)
      /\ w[10] = Field("mmap_addr", P + 48, 4, P + 256)
  <2> DEFINE a1 == A[1]
             a2 == A[2]
             b1 == Object("params", P, 88)
             b2 == Object("mem", P, 12)
             b3 == When(c, Object("cmdline", P + 32, s))
             b4 == When(c, Field("cmdline_addr", P + 16, 4, P + 32))
             b5 == Object("boot_device", P + 12, 4)
             b6 == Object("mmap", P + 256, 64)
             b7 == Object("mmap_length", P + 44, 4)
             b8 == Field("mmap_addr", P + 48, 4, P + 256)
  <2>1. w = A \o << b1, b2, b3, b4, b5, b6, b7, b8 >>
    BY <1>3
  <2>2. A = << a1, a2 >>
    BY <1>1
  <2> HIDE DEF a1, a2, b1, b2, b3, b4, b5, b6, b7, b8
  <2>3. /\ Len(w) = 10 /\ w[1] = a1 /\ w[2] = a2 /\ w[3] = b1 /\ w[4] = b2 /\ w[5] = b3
        /\ w[6] = b4 /\ w[7] = b5 /\ w[8] = b6 /\ w[9] = b7 /\ w[10] = b8
    BY <2>1, <2>2, SMT
  <2>4. QED
    BY <2>3 DEF a1, a2, b1, b2, b3, b4, b5, b6, b7, b8
<1>5. /\ w[1].what = "kernel" /\ w[2].what = "bss" /\ w[3].what = "params" /\ w[4].what = "mem"
      /\ w[5].what = "cmdline" /\ w[5].at = P + 32 /\ w[5].size = IF c THEN s ELSE 0
      /\ w[6].what = "cmdline_addr" /\ w[6].at = P + 16 /\ w[6].size = IF c THEN 4 ELSE 0
      /\ w[6].value = P + 32
      /\ w[7].what = "boot_device" /\ w[7].at = P + 12 /\ w[7].size = 4
      /\ w[8].what = "mmap" /\ w[8].at = P + 256
      /\ w[9].what = "mmap_length" /\ w[9].at = P + 44
      /\ w[10].what = "mmap_addr" /\ w[10].at = P + 48
  BY <1>1, <1>4, SMT DEF Object, Field, When
<1>6. ASSUME NEW j \in 1..10
      PROVE  /\ w[j].what \in {"cmdline", "initrd"} => j = 5
             /\ w[j].what \notin DOMAIN Length
  BY <1>5, Tellings, SMT
<1>7. w[5].size # 0 => Tells(w[6], w[5]) /\ Lasts(w, 6)
  <2> SUFFICES ASSUME w[5].size # 0 PROVE Tells(w[6], w[5]) /\ Lasts(w, 6)
    OBVIOUS
  <2>1. w[6].size = 4 /\ w[6].value = w[5].at
    BY <1>5, SMT
  <2>2. ASSUME NEW k \in (6 + 1)..10 PROVE ~Overlap(w[6], w[k])
    <3>1. k = 7 \/ k = 8 \/ k = 9 \/ k = 10
      BY SMT
    <3>2. ~(w[6].at < w[7].at + w[7].size) /\ \A i \in 8..10 : ~(w[i].at < w[6].at + w[6].size)
      BY <1>2, <1>5, <2>1, SMT
    <3>3. QED
      BY <3>1, <3>2, SMT DEF Overlap
  <2>3. Lasts(w, 6)
    BY <1>4, <2>1, <2>2 DEF Lasts
  <2>4. QED
    BY <1>5, <2>1, <2>3, Tellings
<1>8. 5 \in 1..10 /\ 6 \in 1..10
  OBVIOUS
<1>9. Truthful(w)
  BY <1>4, <1>6, <1>7, <1>8 DEF Truthful
<1>10. Line(f) = IF c THEN s ELSE 0
  BY DEF Line, c, s
<1>11. Given(w, "cmdline", Line(f))
  BY <1>4, <1>5, <1>8, <1>10 DEF Given
<1>12. QED
  BY <1>4, <1>9, <1>11 DEF w

\* The Multiboot 2 loaders: the tag before the command line tells its length.
LEMMA TagTruth ==
  ASSUME NEW w, NEW i \in 1..Len(w), NEW j \in 1..Len(w),
         w[i].what = "tag", w[j].what = "cmdline",
         w[j].size # 0 => w[i].size # 0 /\ w[i].at + 8 = w[j].at /\ w[i].value = 8 + w[j].size,
         \A k \in (1..Len(w)) \ {j} : w[k].what \notin {"cmdline", "initrd"} \cup DOMAIN Length
  PROVE  Truthful(w)
<1>1. w[j].size # 0 => Tells(w[i], w[j]) /\ Lasts(w, i)
  BY Tellings DEF Lasts
<1>2. w[j].what \notin DOMAIN Length
  BY Tellings
<1>3. QED
  BY <1>1, <1>2 DEF Truthful

\* The seven writes of boot_multiboot2_kernel, and the ten of multiboot2_load_kernel.
LEMMA Multiboot2Truth ==
  ASSUME NEW f, f.cmdline \in Nat
  PROVE  /\ Len(boot_multiboot2_kernel(f)) = 7 /\ Truthful(boot_multiboot2_kernel(f))
         /\ Given(boot_multiboot2_kernel(f), "cmdline", Line(f))
         /\ Len(multiboot2_load_kernel(f)) = 10 /\ Truthful(multiboot2_load_kernel(f))
         /\ Given(multiboot2_load_kernel(f), "cmdline", Line(f))
<1> DEFINE c == HasCmdline(f)
           size == CmdlineTagSize(f)
<1>1. size = (IF c THEN 9 + f.cmdline ELSE 0) /\ c \in BOOLEAN
  BY DEF CmdlineTagSize, HasCmdline
<1>2. /\ Len(boot_multiboot2_kernel(f)) = 7 /\ Truthful(boot_multiboot2_kernel(f))
      /\ Given(boot_multiboot2_kernel(f), "cmdline", Line(f))
  <2> DEFINE w == boot_multiboot2_kernel(f)
             end == 4096 + 24 + size
             M == MiB
  <2>1. /\ Len(w) = 7
        /\ w[1] = Object("info", 4096, 8) /\ w[2] = Tag(4104, 16)
        /\ w[3] = When(c, Field("tag", 4120, 8, size))
        /\ w[4] = When(c, Object("cmdline", 4128, f.cmdline + 1))
        /\ w[5] = Object("end", end, 8)
        /\ w[6] = Field("total_size", 4096, 4, end + 8 - 4096)
        /\ w[7] = Object("kernel", M, f.kernel)
    BY Multiboot2Items, SMT
  <2> HIDE DEF w, c, size, end, M
  <2>2. /\ w[1].what = "info" /\ w[2].what = "tag" /\ w[3].what = "tag" /\ w[5].what = "end"
        /\ w[6].what = "total_size" /\ w[7].what = "kernel"
    BY <2>1, SMT DEF Object, Field, Tag, When
  <2>3. \A k \in (1..7) \ {4} : w[k].what \notin {"cmdline", "initrd"} \cup DOMAIN Length
    <3>1. ASSUME NEW k \in (1..7) \ {4}
          PROVE  w[k].what \notin {"cmdline", "initrd", "cmdline_size", "initrd_size", "kernel_size"}
      BY <2>2, SMT
    <3>2. QED
      BY <3>1, Tellings
  <2> DEFINE at == 4120
             l == f.cmdline
  <2>4. at + 8 = 4128 /\ 7 \in 1..10 /\ 3 \in 1..7 /\ 4 \in 1..7 /\ at \in Nat /\ l \in Nat
    BY SMT
  <2>5. /\ w[4].what = "cmdline"
        /\ w[4].size # 0 => w[3].size # 0 /\ w[3].at + 8 = w[4].at /\ w[3].value = 8 + w[4].size
    BY <1>1, <2>1, <2>4, SMT DEF Object, Field, When
  <2>6. Truthful(w)
    <3>1. Len(w) = 7 /\ 3 \in 1..7 /\ 4 \in 1..7 /\ w[3].what = "tag"
      BY <2>1, <2>2, <2>4
    <3> HIDE DEF at, l
    <3>2. QED
      BY <2>3, <2>5, <3>1, TagTruth
  <2>7. Given(w, "cmdline", Line(f))
    <3>1. w[4].what = "cmdline" /\ w[4].size = Line(f) /\ 4 \in 1..7 /\ Len(w) = 7
      BY <2>1, <2>4, <2>5, SMT DEF Object, When, Line, c
    <3> HIDE DEF at, l
    <3>2. QED
      BY <3>1 DEF Given
  <2>8. QED
    BY <2>1, <2>6, <2>7 DEF w
<1>3. /\ Len(multiboot2_load_kernel(f)) = 10 /\ Truthful(multiboot2_load_kernel(f))
      /\ Given(multiboot2_load_kernel(f), "cmdline", Line(f))
  <2> DEFINE w == multiboot2_load_kernel(f)
             m == 589832 + RoundUp(size)
             at == 589832
             info == 589824
             total == m + 104 + 8 - 589824
  <2>1. /\ Len(w) = 10
        /\ w[1].what = "kernel" /\ w[2].what = "bss" /\ w[3] = Object("info", info, 8)
        /\ w[4] = When(c, Field("tag", at, 8, size))
        /\ w[5] = When(c, Object("cmdline", at + 8, f.cmdline + 1))
        /\ w[6] = Tag(m, 16) /\ w[7] = Tag(m + 16, 20) /\ w[8] = Tag(m + 40, 64)
        /\ w[9] = Object("end", m + 104, 8) /\ w[10] = Field("total_size", info, 4, total)
    BY TagItems, SMT
  <2>2. at \in Nat
    BY SMT
  <2> HIDE DEF w, c, size, m, at, info, total
  <2>3. /\ w[3].what = "info" /\ w[4].what = "tag" /\ w[6].what = "tag" /\ w[7].what = "tag"
        /\ w[8].what = "tag" /\ w[9].what = "end" /\ w[10].what = "total_size"
    BY <2>1, SMT DEF Object, Field, Tag, When
  <2>4. \A k \in (1..10) \ {5} : w[k].what \notin {"cmdline", "initrd"} \cup DOMAIN Length
    <3>1. ASSUME NEW k \in (1..10) \ {5}
          PROVE  w[k].what \notin {"cmdline", "initrd", "cmdline_size", "initrd_size", "kernel_size"}
      BY <2>1, <2>3, SMT
    <3>2. QED
      BY <3>1, Tellings
  <2> DEFINE l == f.cmdline
  <2>5. 10 \in 1..10 /\ 4 \in 1..10 /\ 5 \in 1..10 /\ l \in Nat
    OBVIOUS
  <2>6. /\ w[5].what = "cmdline"
        /\ w[5].size # 0 => w[4].size # 0 /\ w[4].at + 8 = w[5].at /\ w[4].value = 8 + w[5].size
    BY <1>1, <2>1, <2>2, <2>5, SMT DEF Object, Field, When
  <2>7. Truthful(w)
    BY <2>1, <2>3, <2>4, <2>5, <2>6, TagTruth
  <2>8. Given(w, "cmdline", Line(f))
    <3>1. w[5].what = "cmdline" /\ w[5].size = Line(f) /\ 5 \in 1..10 /\ Len(w) = 10
      BY <2>1, <2>5, <2>6, SMT DEF Object, When, Line, c
    <3> HIDE DEF l
    <3>2. QED
      BY <3>1 DEF Given
  <2>9. QED
    BY <2>1, <2>7, <2>8 DEF w
<1>4. QED
  BY <1>2, <1>3

\* The loaders for machines with a device tree, whose fields follow each other.
LEMMA DeviceTreeTruth ==
  ASSUME NEW m, NEW f, NEW initrd, NEW cmdline, m.ram + m.params \in Int,
         f.cmdline \in Nat, f.kernel \in Nat, InitrdSize(f) \in Nat
  PROVE  /\ Len(DeviceTreeWrites(m, f, initrd, cmdline)) = 11
         /\ Truthful(DeviceTreeWrites(m, f, initrd, cmdline))
         /\ Given(DeviceTreeWrites(m, f, initrd, cmdline), "cmdline", Line(f))
         /\ Given(DeviceTreeWrites(m, f, initrd, cmdline), "initrd", InitrdSize(f))
<1> DEFINE w == DeviceTreeWrites(m, f, initrd, cmdline)
           c == HasCmdline(f)
           s == f.cmdline + 1
           l == InitrdSize(f)
           P == m.ram + m.params
           dtb == m.ram + m.dtb
           at == m.ram + m.kernel
           cleared == m.size
           kernel == f.kernel
<1>1. w = << Object("initrd", initrd, l), When(c, Object("cmdline", cmdline, s)),
             Object("kernel", at, kernel) >>
          \o (<< Object("params", P, cleared) >>
                \o << Field("dtb_addr", P, 8, dtb), Field("initrd_addr", P + 8, 8, initrd),
                      Field("initrd_size", P + 16, 8, l),
                      Field("cmdline_addr", P + 24, 8, IF c THEN cmdline ELSE 0),
                      Field("cmdline_size", P + 32, 8, IF c THEN s ELSE 0),
                      Field("kernel_addr", P + 40, 8, at), Field("kernel_size", P + 48, 8, kernel) >>)
  BY Zenon DEF DeviceTreeWrites, Params, ParamFields
<1>2. P \in Int /\ s \in Nat /\ s # 0 /\ l \in Nat /\ kernel \in Nat
  OBVIOUS
<1> HIDE DEF w, c, s, l, P, dtb, at, cleared, kernel
<1>3. /\ Len(w) = 11
      /\ w[1] = Object("initrd", initrd, l)
      /\ w[2] = When(c, Object("cmdline", cmdline, s))
      /\ w[3] = Object("kernel", at, kernel)
      /\ w[4] = Object("params", P, cleared)
      /\ w[5] = Field("dtb_addr", P, 8, dtb)
      /\ w[6] = Field("initrd_addr", P + 8, 8, initrd)
      /\ w[7] = Field("initrd_size", P + 16, 8, l)
      /\ w[8] = Field("cmdline_addr", P + 24, 8, IF c THEN cmdline ELSE 0)
      /\ w[9] = Field("cmdline_size", P + 32, 8, IF c THEN s ELSE 0)
      /\ w[10] = Field("kernel_addr", P + 40, 8, at)
      /\ w[11] = Field("kernel_size", P + 48, 8, kernel)
  <2> DEFINE b1 == Object("initrd", initrd, l)
             b2 == When(c, Object("cmdline", cmdline, s))
             b3 == Object("kernel", at, kernel)
             b4 == Object("params", P, cleared)
             b5 == Field("dtb_addr", P, 8, dtb)
             b6 == Field("initrd_addr", P + 8, 8, initrd)
             b7 == Field("initrd_size", P + 16, 8, l)
             b8 == Field("cmdline_addr", P + 24, 8, IF c THEN cmdline ELSE 0)
             b9 == Field("cmdline_size", P + 32, 8, IF c THEN s ELSE 0)
             b10 == Field("kernel_addr", P + 40, 8, at)
             b11 == Field("kernel_size", P + 48, 8, kernel)
  <2>1. w = << b1, b2, b3 >> \o (<< b4 >> \o << b5, b6, b7, b8, b9, b10, b11 >>)
    BY <1>1
  <2> HIDE DEF b1, b2, b3, b4, b5, b6, b7, b8, b9, b10, b11
  <2>2. /\ Len(w) = 11 /\ w[1] = b1 /\ w[2] = b2 /\ w[3] = b3 /\ w[4] = b4 /\ w[5] = b5
        /\ w[6] = b6 /\ w[7] = b7 /\ w[8] = b8 /\ w[9] = b9 /\ w[10] = b10 /\ w[11] = b11
    BY <2>1, SMT
  <2>3. QED
    BY <2>2 DEF b1, b2, b3, b4, b5, b6, b7, b8, b9, b10, b11
<1>4. /\ w[1].what = "initrd" /\ w[1].at = initrd /\ w[1].size = l
      /\ w[2].what = "cmdline" /\ w[2].at = cmdline /\ w[2].size = IF c THEN s ELSE 0
      /\ w[3].what = "kernel" /\ w[3].size = kernel
      /\ w[4].what = "params" /\ w[5].what = "dtb_addr"
      /\ w[6].what = "initrd_addr" /\ w[6].at = P + 8 /\ w[6].size = 8 /\ w[6].value = initrd
      /\ w[7].what = "initrd_size" /\ w[7].at = P + 16 /\ w[7].size = 8 /\ w[7].value = l
      /\ w[8].what = "cmdline_addr" /\ w[8].at = P + 24 /\ w[8].size = 8
      /\ w[8].value = IF c THEN cmdline ELSE 0
      /\ w[9].what = "cmdline_size" /\ w[9].at = P + 32 /\ w[9].size = 8
      /\ w[9].value = IF c THEN s ELSE 0
      /\ w[10].what = "kernel_addr" /\ w[10].at = P + 40 /\ w[10].size = 8
      /\ w[11].what = "kernel_size" /\ w[11].at = P + 48 /\ w[11].size = 8 /\ w[11].value = kernel
  BY <1>3, SMT DEF Object, Field, When
<1>5. ASSUME NEW i \in {6, 8} PROVE Lasts(w, i)
  <2>1. ASSUME NEW k \in (i + 1)..11 PROVE ~Overlap(w[i], w[k])
    <3>1. k \in {7, 8, 9, 10, 11} /\ (i = 6 \/ k \in {9, 10, 11})
      BY SMT
    <3>2. QED
      BY <1>2, <1>4, <3>1, SMT DEF Overlap
  <2>2. w[i].size # 0
    BY <1>4, SMT
  <2>3. QED
    BY <1>3, <2>1, <2>2, Zenon DEF Lasts
<1>6. ASSUME NEW j \in 1..11
      PROVE  /\ w[j].what \in {"cmdline", "initrd"} => j = 1 \/ j = 2
             /\ w[j].what \in DOMAIN Length => j = 7 \/ j = 9 \/ j = 11
  BY <1>4, Tellings, SMT
<1>7. w[1].size # 0 => Tells(w[6], w[1]) /\ Lasts(w, 6)
  BY <1>4, <1>5, Tellings
<1>8. w[2].size # 0 => Tells(w[8], w[2]) /\ Lasts(w, 8)
  <2>1. w[2].size # 0 => w[8].value = w[2].at
    BY <1>4, SMT
  <2>2. QED
    BY <1>4, <1>5, <2>1, Tellings
<1>9. ASSUME NEW i \in {1, 2, 3}, w[i].size # 0 PROVE Lasts(w, i)
  <2>1. w[i].what \in {"kernel", "initrd", "cmdline"}
    BY <1>4
  <2>2. QED
    BY <1>9, <2>1, Tellings DEF Lasts
<1>10. w[7].value > 0 => w[1].what = Length[w[7].what] /\ w[1].size = w[7].value /\ Lasts(w, 1)
  <2>1. w[7].value > 0 => w[1].size = w[7].value /\ w[1].size # 0
    BY <1>2, <1>4, SMT
  <2>2. QED
    BY <1>4, <1>9, <2>1, Tellings
<1>11. w[9].value > 0 => w[2].what = Length[w[9].what] /\ w[2].size = w[9].value /\ Lasts(w, 2)
  <2>1. w[9].value > 0 => w[2].size = w[9].value /\ w[2].size # 0
    BY <1>2, <1>4, SMT
  <2>2. QED
    BY <1>4, <1>9, <2>1, Tellings
<1>12. w[11].value > 0 => w[3].what = Length[w[11].what] /\ w[3].size = w[11].value /\ Lasts(w, 3)
  <2>1. w[11].value > 0 => w[3].size = w[11].value /\ w[3].size # 0
    BY <1>2, <1>4, SMT
  <2>2. QED
    BY <1>4, <1>9, <2>1, Tellings
<1>13. \A i \in {1, 2, 3, 6, 8} : i \in 1..11
  OBVIOUS
<1>14. Truthful(w)
  <2> SUFFICES ASSUME NEW j \in 1..11
               PROVE  /\ w[j].what \in {"cmdline", "initrd"} /\ w[j].size # 0 =>
                           \E i \in 1..11 : Tells(w[i], w[j]) /\ Lasts(w, i)
                      /\ w[j].what \in DOMAIN Length /\ w[j].value > 0 /\ w[j].size # 0 =>
                           \E i \in 1..11 : /\ w[i].what = Length[w[j].what] /\ w[i].size = w[j].value
                                            /\ Lasts(w, i)
    BY <1>3 DEF Truthful
  <2>1. w[j].what \in {"cmdline", "initrd"} /\ w[j].size # 0 =>
          \E i \in 1..11 : Tells(w[i], w[j]) /\ Lasts(w, i)
    BY <1>6, <1>7, <1>8, <1>13
  <2>2. w[j].what \in DOMAIN Length /\ w[j].value > 0 =>
          \E i \in 1..11 : w[i].what = Length[w[j].what] /\ w[i].size = w[j].value /\ Lasts(w, i)
    BY <1>6, <1>10, <1>11, <1>12, <1>13
  <2>3. QED
    BY <2>1, <2>2
<1>15. Line(f) = (IF c THEN s ELSE 0) /\ InitrdSize(f) = l
  BY DEF Line, c, s, l
<1>16. Given(w, "cmdline", Line(f)) /\ Given(w, "initrd", l)
  BY <1>3, <1>4, <1>13, <1>15 DEF Given
<1>17. QED
  BY <1>3, <1>14, <1>15, <1>16 DEF w

\* The length of two sequences, one behind the other.
LEMMA JoinedLength ==
  ASSUME NEW S, NEW T, Len(S) \in Nat, Len(T) \in Nat
  PROVE  Len(S \o T) = Len(S) + Len(T)
  OBVIOUS

\* The Limine loaders: the one gives the kernel no command line, the other writes its
\* address first and the string last.
LEMMA LimineTruth ==
  ASSUME NEW f, f.cmdline \in Nat,
         f.elf.segments \in Seq([vaddr : Nat, filesz : Nat, memsz : Nat])
  PROVE  /\ Len(limine_load_kernel(f)) \in Nat /\ Truthful(limine_load_kernel(f))
         /\ Len(boot_limine_kernel(f)) \in Nat /\ Truthful(boot_limine_kernel(f))
         /\ Given(boot_limine_kernel(f), "cmdline", Line(f))
<1> DEFINE n == Len(f.elf.segments)
<1>1. ASSUME NEW l
      PROVE  LET S == SegmentWrites(l, f)
             IN  /\ n \in Nat /\ Len(S) = 2 * n /\ DOMAIN S = 1..(2 * n)
                 /\ \A j \in 1..(2 * n) : S[j].what \in {"kernel", "bss"}
  <2> DEFINE S == SegmentWrites(l, f)
  <2>1. /\ n \in Nat /\ Len(S) = 2 * n /\ DOMAIN S = 1..(2 * n)
        /\ \A i \in 1..n :
             /\ S[2 * i].what = "bss"
             /\ S[2 * i - 1] = Field("kernel", SegmentAddr(l, f, f.elf.segments[i]),
                                     f.elf.segments[i].filesz, f.elf.segments[i].vaddr)
    BY SegmentItems
  <2> HIDE DEF S, n
  <2>2. ASSUME NEW i \in 1..n PROVE S[2 * i].what = "bss" /\ S[2 * i - 1].what = "kernel"
    <3> DEFINE at == SegmentAddr(l, f, f.elf.segments[i])
               size == f.elf.segments[i].filesz
               value == f.elf.segments[i].vaddr
    <3>1. S[2 * i].what = "bss" /\ S[2 * i - 1] = Field("kernel", at, size, value)
      BY <2>1, Zenon
    <3> HIDE DEF at, size, value
    <3>2. QED
      BY <3>1 DEF Field
  <2>3. ASSUME NEW j \in 1..(2 * n) PROVE S[j].what \in {"kernel", "bss"}
    <3>1. j = 2 * (j \div 2) + (j % 2) /\ j \div 2 \in Nat /\ j % 2 \in 0..1
      BY <2>1
    <3>2. CASE j % 2 = 0
      <4>1. j \div 2 \in 1..n /\ j = 2 * (j \div 2)
        BY <2>1, <3>1, <3>2
      <4>2. QED
        BY <2>2, <4>1
    <3>3. CASE j % 2 = 1
      <4>1. j \div 2 + 1 \in 1..n /\ j = 2 * (j \div 2 + 1) - 1
        BY <2>1, <3>1, <3>3
      <4>2. QED
        BY <2>2, <4>1
    <3>4. QED
      BY <3>1, <3>2, <3>3
  <2>4. QED
    BY <2>1, <2>3 DEF S
<1>2. Len(limine_load_kernel(f)) \in Nat /\ Truthful(limine_load_kernel(f))
  <2> DEFINE S == SegmentWrites("limine_load_kernel", f)
  <2>1. n \in Nat /\ Len(S) = 2 * n /\ \A j \in 1..(2 * n) : S[j].what \in {"kernel", "bss"}
    BY <1>1
  <2> HIDE DEF S, n
  <2>2. \A j \in 1..Len(S) : S[j].what \notin {"cmdline", "initrd"} \cup DOMAIN Length
    BY <2>1, Tellings
  <2>3. Truthful(S)
    BY <2>2 DEF Truthful
  <2>4. QED
    BY <2>1, <2>3 DEF limine_load_kernel, S
<1>3. /\ Len(boot_limine_kernel(f)) \in Nat /\ Truthful(boot_limine_kernel(f))
      /\ Given(boot_limine_kernel(f), "cmdline", Line(f))
  <2> DEFINE S == SegmentWrites("boot_limine_kernel", f)
             w == boot_limine_kernel(f)
             record == 4 * KiB + 256
             string == 4 * KiB + 768
             c == HasCmdline(f)
             s == f.cmdline + 1
             N == 2 * n
             b1 == Object("params", 4 * KiB, 16)
             b2 == Object("params", record, 24)
             b3 == Object("path", record + 24, 8)
             b4 == Field("cmdline_addr", record + 32, 8, string)
             b5 == When(c, Object("cmdline", string, s))
  <2>1. /\ N \in Nat /\ Len(S) = N /\ DOMAIN S = 1..N
        /\ \A j \in 1..N : S[j].what \in {"kernel", "bss"}
    <3>1. /\ n \in Nat /\ Len(S) = 2 * n /\ DOMAIN S = 1..(2 * n)
          /\ \A j \in 1..(2 * n) : S[j].what \in {"kernel", "bss"}
      BY <1>1
    <3> HIDE DEF S, n
    <3>2. QED
      BY <3>1
  <2>2. w = S \o << b1, b2, b3, b4, b5 >>
    BY Zenon DEF boot_limine_kernel
  <2>3. record = 4352 /\ string = 4864 /\ s \in Nat
    BY DEF KiB
  <2> HIDE DEF w, S, N, record, string, c, s
  <2>4. /\ b1.what = "params" /\ b2.what = "params" /\ b3.what = "path"
        /\ b4.what = "cmdline_addr" /\ b4.at = 4384 /\ b4.size = 8 /\ b4.value = 4864
        /\ b5.what = "cmdline" /\ b5.at = 4864 /\ b5.size = IF c THEN s ELSE 0
    BY <2>3 DEF Object, Field, When
  <2> HIDE DEF b1, b2, b3, b4, b5
  <2>5. /\ Len(w) = N + 5 /\ \A j \in 1..N : w[j] = S[j]
        /\ w[N + 1] = b1 /\ w[N + 2] = b2 /\ w[N + 3] = b3 /\ w[N + 4] = b4 /\ w[N + 5] = b5
    <3> DEFINE T == << b1, b2, b3, b4, b5 >>
    <3>1. Len(T) = 5 /\ T[1] = b1 /\ T[2] = b2 /\ T[3] = b3 /\ T[4] = b4 /\ T[5] = b5
      OBVIOUS
    <3>2. w = S \o T
      BY <2>2
    <3> HIDE DEF T
    <3>3. /\ Len(w) = N + 5 /\ \A j \in 1..N : w[j] = S[j]
          /\ \A j \in (N + 1)..(N + 5) : w[j] = T[j - N]
      <4>1. N \in Nat /\ Len(S) = N /\ Len(S) \in Nat /\ Len(T) \in Nat
        BY <2>1, <3>1
      <4> HIDE DEF n
      <4>2. Len(S \o T) = Len(S) + Len(T)
        BY <4>1, JoinedLength, Zenon
      <4>3. \A j \in 1..N : w[j] = S[j]
        BY <3>2, <4>1
      <4>4. \A j \in (N + 1)..(N + Len(T)) : w[j] = T[j - N]
        BY <3>2, <4>1
      <4>5. QED
        BY <3>1, <3>2, <4>1, <4>2, <4>3, <4>4
    <3>4. ASSUME NEW k \in 1..5 PROVE w[N + k] = T[k]
      <4>1. N + k \in (N + 1)..(N + 5) /\ (N + k) - N = k
        BY <2>1
      <4>2. QED
        BY <3>3, <4>1, Zenon
    <3>5. QED
      BY <3>1, <3>3, <3>4
  <2>6. ASSUME NEW j \in 1..(N + 5), w[j].what \in {"cmdline", "initrd"} \cup DOMAIN Length
        PROVE  j = N + 5
    <3>1. j \in 1..N \/ j = N + 1 \/ j = N + 2 \/ j = N + 3 \/ j = N + 4 \/ j = N + 5
      BY <2>1
    <3>2. w[j].what \in {"cmdline", "initrd", "cmdline_size", "initrd_size", "kernel_size"}
      BY <2>6, Tellings
    <3>3. j \notin 1..N
      BY <2>1, <2>5, <3>2
    <3>4. QED
      BY <2>4, <2>5, <3>1, <3>2, <3>3
  <2>7. Tells(w[N + 4], w[N + 5]) /\ Lasts(w, N + 4)
    <3>1. ASSUME NEW k \in ((N + 4) + 1)..Len(w) PROVE ~Overlap(w[N + 4], w[k])
      <4>1. k = N + 5
        BY <2>1, <2>5
      <4>2. ~Overlap(b4, b5)
        BY <2>4 DEF Overlap
      <4>3. QED
        BY <2>5, <4>1, <4>2
    <3>2. Lasts(w, N + 4)
      BY <2>4, <2>5, <3>1 DEF Lasts
    <3>3. QED
      BY <2>4, <2>5, <3>2, Tellings
  <2>8. w[N + 5].what \notin DOMAIN Length
    BY <2>4, <2>5, Tellings
  <2>9. N + 4 \in 1..(N + 5)
    BY <2>1
  <2>10. Truthful(w)
    BY <2>5, <2>6, <2>7, <2>8, <2>9 DEF Truthful
  <2>11. Given(w, "cmdline", Line(f))
    <3>1. Line(f) = IF c THEN s ELSE 0
      BY DEF Line, c, s
    <3>2. w[N + 5].what = "cmdline" /\ w[N + 5].size = Line(f)
      BY <2>4, <2>5, <3>1
    <3>3. N + 5 \in 1..Len(w)
      BY <2>1, <2>5
    <3> HIDE DEF N
    <3>4. QED
      BY <3>2, <3>3 DEF Given
  <2>12. QED
    BY <2>1, <2>5, <2>10, <2>11 DEF w
<1>4. QED
  BY <1>2, <1>3

\* Boot sectors are given nothing.
LEMMA ChainTruth ==
  ASSUME NEW f
  PROVE  /\ Len(chainload_mbr(f)) = 1 /\ Truthful(chainload_mbr(f))
         /\ Len(chainload_gpt(f)) = 1 /\ Truthful(chainload_gpt(f))
         /\ Len(chainload_iso(f)) = 1 /\ Truthful(chainload_iso(f))
         /\ Len(chainload_file(f)) = 2 /\ Truthful(chainload_file(f))
         /\ Len(boot_chainload_kernel(f)) = 1 /\ Truthful(boot_chainload_kernel(f))
<1>1. ASSUME NEW w, Len(w) \in 1..2, w[1].what = "boot_sector", Len(w) = 2 => w[2].what = "rest"
      PROVE  Truthful(w)
  <2>1. \A j \in 1..Len(w) : w[j].what \in {"boot_sector", "rest"}
    BY <1>1
  <2>2. \A j \in 1..Len(w) : w[j].what \notin {"cmdline", "initrd"} \cup DOMAIN Length
    BY <2>1, Tellings
  <2>3. QED
    BY <2>2 DEF Truthful
<1>2. ASSUME NEW at, NEW size
      PROVE  /\ Len(<< Object("boot_sector", at, size) >>) = 1
             /\ Truthful(<< Object("boot_sector", at, size) >>)
  <2> DEFINE w == << Object("boot_sector", at, size) >>
  <2>1. Len(w) = 1 /\ w[1].what = "boot_sector"
    BY DEF Object
  <2> HIDE DEF w
  <2>2. Truthful(w)
    BY <1>1, <2>1
  <2>3. QED
    BY <2>1, <2>2 DEF w
<1>3. Len(chainload_file(f)) = 2 /\ Truthful(chainload_file(f))
  <2> DEFINE w == chainload_file(f)
  <2>1. Len(w) = 2 /\ w[1].what = "boot_sector" /\ w[2].what = "rest"
    BY SMT DEF chainload_file, Object
  <2> HIDE DEF w
  <2>2. Truthful(w)
    BY <1>1, <2>1
  <2>3. QED
    BY <2>1, <2>2 DEF w
<1>4. QED
  <2>1. /\ chainload_mbr(f) = << Object("boot_sector", BootSector, 512) >>
        /\ chainload_gpt(f) = << Object("boot_sector", BootSector, 512) >>
        /\ chainload_iso(f) = << Object("boot_sector", BootSector, 2048) >>
        /\ boot_chainload_kernel(f) = << Object("boot_sector", BootSector, f.kernel) >>
    BY DEF chainload_mbr, chainload_gpt, chainload_iso, boot_chainload_kernel
  <2>2. QED
    BY <1>2, <1>3, <2>1

\* Each loader but x86_64_boot_multiboot1, with the files it is given.
LEMMA LoaderTruth ==
  ASSUME FilesOK, loader # "x86_64_boot_multiboot1"
  PROVE  /\ Len(W) \in Nat /\ Truthful(W)
         /\ loader # "limine_load_kernel" => Given(W, "cmdline", Line(files))
         /\ Given(W, "initrd", InitrdSize(files))
<1>a. loader \notin LinuxLoaders \cup DeviceTreeLoaders => Given(W, "initrd", InitrdSize(files))
  BY DEF FilesOK, InitrdSize, HasInitrd, Given
<1>b. LinuxLoaders \cap DeviceTreeLoaders = {}
  BY DEF LinuxLoaders, DeviceTreeLoaders
<1>1. /\ loader \in AllLoaders
      /\ files.cmdline \in Nat /\ files.kernel \in Nat /\ InitrdSize(files) \in Nat
      /\ files.elf.segments \in Seq([vaddr : Nat, filesz : Nat, memsz : Nat])
  BY DEF FilesOK, InitrdSize, HasInitrd
<1>2. CASE loader \in LinuxLoaders
  <2>1. HasInitrd(files) \in BOOLEAN /\ (InitrdSize(files) > 0) \in BOOLEAN
    BY DEF HasInitrd
  <2>0. /\ InitrdSize(files) # 0 => HasInitrd(files)
        /\ InitrdSize(files) # 0 => InitrdSize(files) > 0
    BY <1>1 DEF InitrdSize
  <2>2. PICK initrd \in BOOLEAN :
          W = LinuxWrites(files, initrd) /\ (InitrdSize(files) # 0 => initrd)
    BY <1>2, <2>0, <2>1, WritesOf DEF W, LinuxLoaders, linux_load_kernel, boot_linux_kernel,
                               ia32_boot_linux, x86_64_boot_linux
  <2>3. QED
    BY <1>1, <2>2, LinuxTruth
<1>3. CASE loader \in {"boot_multiboot1_kernel", "ia32_boot_multiboot1"}
  <2>1. W = Multiboot1Boot(files, 4)
    BY <1>3, WritesOf DEF W, boot_multiboot1_kernel, ia32_boot_multiboot1
  <2>2. loader \notin LinuxLoaders \cup DeviceTreeLoaders
    BY <1>3 DEF LinuxLoaders, DeviceTreeLoaders
  <2>3. QED
    BY <1>1, <1>a, <2>1, <2>2, Multiboot1Truth
<1>4. CASE loader = "multiboot1_load_kernel"
  <2>1. loader \notin LinuxLoaders \cup DeviceTreeLoaders
    BY <1>4 DEF LinuxLoaders, DeviceTreeLoaders
  <2>2. QED
    BY <1>1, <1>4, <1>a, <2>1, WritesOf, InfoTruth DEF W
<1>5. CASE loader \in Multiboot2Boots \cup {"multiboot2_load_kernel"}
  <2>1. W = boot_multiboot2_kernel(files) \/ W = multiboot2_load_kernel(files)
    BY <1>5, WritesOf DEF W, Multiboot2Boots, ia32_boot_multiboot2, x86_64_boot_multiboot2
  <2>2. loader \notin LinuxLoaders \cup DeviceTreeLoaders
    BY <1>5 DEF LinuxLoaders, DeviceTreeLoaders, Multiboot2Boots
  <2>3. QED
    BY <1>1, <1>a, <2>1, <2>2, Multiboot2Truth
<1>6. CASE loader \in DeviceTreeLoaders \cup FirmwareLoaders
  <2> DEFINE Known(m) == m.ram + m.params \in Int
  <2>1. Known(aarch64(files)) /\ Known(riscv64) /\ Known(loongarch64)
    <3>1. /\ RamStart["aarch64"] \in Nat /\ RamStart["riscv64"] \in Nat
          /\ RamStart["loongarch64"] \in Nat
      BY HandoffAssumption DEF HandoffAssumption
    <3>2. QED
      BY <3>1, SMT DEF aarch64, riscv64, loongarch64, MiB
  <2>2. \E m, initrd, cmdline : Known(m) /\ W = DeviceTreeWrites(m, files, initrd, cmdline)
    <3>1. W \in {aarch64_boot_linux(files), riscv64_boot_linux(files), loongarch64_boot_linux(files),
                 aarch64_boot_uefi(files), riscv64_boot_opensbi(files), loongarch64_boot_uefi(files)}
      BY <1>6, WritesOf DEF W, DeviceTreeLoaders, FirmwareLoaders
    <3>2. \A m : /\ WithInitrd(m, files) = DeviceTreeWrites(m, files, InitrdAddr(m, files),
                                                            CmdlineAddr(m, files))
                 /\ WithoutInitrd(m, files) = DeviceTreeWrites(m, files, 0, Behind(m))
      BY Zenon DEF WithInitrd, WithoutInitrd
    <3>3. \E m : Known(m) /\ (W = WithInitrd(m, files) \/ W = WithoutInitrd(m, files))
      <4> HIDE DEF Known
      <4> QED
        BY <2>1, <3>1 DEF aarch64_boot_linux, riscv64_boot_linux, loongarch64_boot_linux,
                          aarch64_boot_uefi, riscv64_boot_opensbi, loongarch64_boot_uefi
    <3> HIDE DEF Known
    <3>4. QED
      BY <3>2, <3>3, Zenon
  <2>3. PICK m, initrd, cmdline : Known(m) /\ W = DeviceTreeWrites(m, files, initrd, cmdline)
    BY <2>2
  <2>4. QED
    BY <1>1, <2>3, DeviceTreeTruth
<1>7. CASE loader \in LimineLoaders
  <2>1. loader \notin LinuxLoaders \cup DeviceTreeLoaders
    BY <1>7 DEF LinuxLoaders, DeviceTreeLoaders, LimineLoaders
  <2>2. QED
    BY <1>1, <1>7, <1>a, <2>1, WritesOf, LimineTruth DEF W, LimineLoaders
<1>8. CASE loader \in ChainLoaders
  <2>1. loader \notin LinuxLoaders \cup DeviceTreeLoaders
    BY <1>8 DEF LinuxLoaders, DeviceTreeLoaders, ChainLoaders
  <2>2. Given(W, "cmdline", Line(files))
    BY <1>8 DEF FilesOK, Line, HasCmdline, Given
  <2>3. Len(W) \in Nat /\ Truthful(W)
    BY <1>8, WritesOf, ChainTruth DEF W, ChainLoaders
  <2>4. QED
    BY <1>a, <2>1, <2>2, <2>3
<1>9. loader \in LinuxLoaders \cup {"boot_multiboot1_kernel", "ia32_boot_multiboot1"}
        \cup {"multiboot1_load_kernel"} \cup (Multiboot2Boots \cup {"multiboot2_load_kernel"})
        \cup (DeviceTreeLoaders \cup FirmwareLoaders) \cup LimineLoaders \cup ChainLoaders
  BY <1>1 DEF AllLoaders, Multiboot1Boots
<1>10. QED
  BY <1>2, <1>3, <1>4, <1>5, <1>6, <1>7, <1>8, <1>9

\* When nothing is lost a kernel that was given a command line or an initrd finds it
\* whole where the parameters tell, for every length of them and every file, however
\* many modules were loaded before: with each of the loaders but the two that the
\* property names, limine_load_kernel for the command line and x86_64_boot_multiboot1.
THEOREM NetParametersSafe == NetSpec => []ParametersTellTheTruth
<1>1. LoaderInv => ParametersTellTheTruth
  <2> SUFFICES ASSUME LoaderInv, pc = "kernel", lost = {}, loader # "x86_64_boot_multiboot1"
               PROVE  /\ HasCmdline(files) /\ loader # "limine_load_kernel" =>
                           Told("cmdline", files.cmdline + 1)
                      /\ InitrdSize(files) > 0 => Told("initrd", files.initrd)
                      /\ \A p \in placed : p.what \in DOMAIN Length /\ p.value > 0 =>
                           \E o \in placed : o.what = Length[p.what] /\ o.size = p.value
                      /\ loader \in Multiboot1Boots =>
                           \A p \in placed : p.what = "cmdline_addr" => p.at = 4 * KiB + 16
    BY DEF ParametersTellTheTruth
  <2>1. FilesOK
    BY DEF LoaderInv
  <2>2. /\ Len(W) \in Nat /\ Truthful(W)
        /\ loader # "limine_load_kernel" => Given(W, "cmdline", Line(files))
        /\ Given(W, "initrd", InitrdSize(files))
    BY <2>1, LoaderTruth
  <2>3. ASSUME loader \in Multiboot1Boots, NEW p \in placed, p.what = "cmdline_addr"
        PROVE  p.at = 4 * KiB + 16
    <3>1. W = Multiboot1Boot(files, 4)
      BY <2>3, WritesOf DEF W, Multiboot1Boots, boot_multiboot1_kernel, ia32_boot_multiboot1
    <3>2. /\ Len(W) = 5
          /\ \A j \in 1..5 : W[j].what = "cmdline_addr" => W[j].at = 4 * KiB + 16
      <4>1. files.cmdline \in Nat
        BY <2>1 DEF FilesOK
      <4>2. QED
        BY <3>1, <4>1, Multiboot1Truth
    <3>3. PICK j \in 1..5 : p = W[j]
      BY <2>2, <2>3, <3>2, AtAnyJump
    <3>4. QED
      BY <2>3, <3>2, <3>3
  <2>4. /\ \A what \in {"cmdline", "initrd"} : \A size :
             Given(W, what, size) /\ size # 0 => Told(what, size)
        /\ \A p \in placed : p.what \in DOMAIN Length /\ p.value > 0 =>
             \E o \in placed : o.what = Length[p.what] /\ o.size = p.value
    BY <2>2, TruthAtTheJump
  <2>5. /\ HasCmdline(files) => Line(files) = files.cmdline + 1 /\ Line(files) # 0
        /\ InitrdSize(files) > 0 => InitrdSize(files) = files.initrd /\ InitrdSize(files) # 0
    BY <2>1 DEF FilesOK, Line, InitrdSize
  <2>6. HasCmdline(files) /\ loader # "limine_load_kernel" => Told("cmdline", files.cmdline + 1)
    BY <2>2, <2>4, <2>5
  <2>7. InitrdSize(files) > 0 => Told("initrd", files.initrd)
    BY <2>2, <2>4, <2>5
  <2>8. QED
    BY <2>3, <2>4, <2>6, <2>7
<1>2. QED
  BY <1>1, LoaderInvariance, PTL
=============================================================================
