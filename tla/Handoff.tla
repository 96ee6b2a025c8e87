------------------------------ MODULE Handoff ------------------------------
(***************************************************************************)
(* The kernel loaders of boot/Arch32: linux.c, multiboot1.c, multiboot2.c, *)
(* limine.c, chainload.c and the loaders of ia32.c, x86_64.c, aarch64.c,   *)
(* riscv64.c and loongarch64.c.  Each copies a kernel and what belongs to  *)
(* it to addresses of its own choice, or of the file's, in an order of its *)
(* own, and jumps.  A loader is the sequence of its writes; "placed" is    *)
(* what is in memory still whole.  The buffers load_file reads into lie    *)
(* elsewhere, and the files have any size.  Offsets of fields are those of *)
(* the 64-bit build.                                                       *)
(***************************************************************************)
EXTENDS Integers, Sequences, FiniteSets

CONSTANTS
  Loaders,         \* the loaders considered
  KernelSizes, InitrdSizes,
  CmdlineLengths,  \* of a command line, 0 for none
  SetupSects,      \* header->setup_sects
  Headers,         \* [load_addr, load_end_addr, bss_end_addr] of a Multiboot header
  Elfs,            \* [class, type, entry, segments] of an ELF file, a segment of
                   \* type PT_LOAD being [vaddr, filesz, memsz]
  HighHalf,        \* 0xffffffff80000000, where the addresses of most kernels begin
  ModuleSizes,
  MaxModules,      \* bounds the calls of multiboot1_load_module
  RamStart,        \* where the memory of each machine begins
  NoFile           \* no initrd was named, or it could not be loaded

LinuxLoaders ==
  {"linux_load_kernel", "boot_linux_kernel", "ia32_boot_linux", "x86_64_boot_linux"}
Multiboot1Boots ==
  {"boot_multiboot1_kernel", "ia32_boot_multiboot1", "x86_64_boot_multiboot1"}
Multiboot2Boots ==
  {"boot_multiboot2_kernel", "ia32_boot_multiboot2", "x86_64_boot_multiboot2"}
ChainLoaders ==
  {"chainload_mbr", "chainload_gpt", "chainload_iso", "chainload_file", "boot_chainload_kernel"}
DeviceTreeLoaders ==
  {"aarch64_boot_linux", "riscv64_boot_linux", "loongarch64_boot_linux"}
FirmwareLoaders ==
  {"aarch64_boot_uefi", "riscv64_boot_opensbi", "loongarch64_boot_uefi"}
LimineLoaders == {"limine_load_kernel", "boot_limine_kernel"}
AllLoaders ==
  LinuxLoaders \cup Multiboot1Boots \cup Multiboot2Boots \cup ChainLoaders
    \cup DeviceTreeLoaders \cup FirmwareLoaders
    \cup LimineLoaders \cup {"multiboot1_load_kernel", "multiboot2_load_kernel"}

KiB == 1024
MiB == 1048576

ASSUME HandoffAssumption ==
  /\ Loaders \subseteq AllLoaders
  /\ KernelSizes \subseteq Nat /\ InitrdSizes \subseteq Nat /\ CmdlineLengths \subseteq Nat
  /\ SetupSects \subseteq 0..255
  /\ Headers \subseteq [load_addr : Nat, load_end_addr : Nat, bss_end_addr : Nat]
  /\ Elfs \subseteq [class : {32, 64}, type : Nat, entry : Nat,
                     segments : Seq([vaddr : Nat, filesz : Nat, memsz : Nat])]
  /\ HighHalf \in Nat
  /\ ModuleSizes \subseteq Nat /\ MaxModules \in Nat
  /\ RamStart \in [{"aarch64", "riscv64", "loongarch64"} -> Nat]
  /\ NoFile \notin Nat

VARIABLES
  loader,   \* the loader that runs
  files,    \* what it is given
  modules,  \* module_count of multiboot1.c
  next,     \* its next write
  placed,   \* the objects that are in memory as they were written
  lost,     \* the payload that was overwritten
  pc

vars == <<loader, files, modules, next, placed, lost, pc>>

-----------------------------------------------------------------------------
(* Memory *)

\* size bytes at an address; value is what a field of the parameters says.
Object(what, at, size) == [what |-> what, at |-> at, size |-> size, value |-> 0]
Field(what, at, size, value) == [what |-> what, at |-> at, size |-> size, value |-> value]

\* A write that the code makes only sometimes.
When(condition, w) ==
  [what |-> w.what, at |-> w.at, size |-> IF condition THEN w.size ELSE 0, value |-> w.value]

Overlap(a, b) ==
  /\ a.size > 0 /\ b.size > 0
  /\ a.at < b.at + b.size
  /\ b.at < a.at + a.size

\* What the kernel needs whole, as opposed to memory that is cleared or filled
\* in for the fields written into it.
Payload == {"kernel", "bss", "initrd", "cmdline", "mmap", "module", "string", "record",
            "tag", "end", "boot_sector", "rest"}

Write(w) ==
  LET hit == {o \in placed : Overlap(o, w)}
  IN  /\ placed' = (placed \ hit) \cup (IF w.size # 0 THEN {w} ELSE {})
      /\ lost' = lost \cup {o \in hit : o.what \in Payload}

HasInitrd(f) == f.initrd # NoFile
HasCmdline(f) == f.cmdline > 0
InitrdSize(f) == IF HasInitrd(f) THEN f.initrd ELSE 0

-----------------------------------------------------------------------------
(* Linux: linux.c, and the same code in ia32.c and x86_64.c *)

setup_size(f) == (f.setup_sects + 1) * 512

\* kernel_size - setup_size wraps around, and memcpy runs through all of memory;
\* or a header of 32 bits is read as one of 64.
Overruns(l, f) ==
  \/ l \in LinuxLoaders /\ f.kernel < setup_size(f)
  \/ l = "boot_limine_kernel" /\ f.elf.class = 32

\* Bytes behind the buffer of the file are copied, which may end the run.
Overreads(f) == \E i \in DOMAIN f.elf.segments : f.elf.segments[i].filesz > f.kernel

\* Mutant: the boot sector counted once more, as if it were not in setup_size.
InitrdOneSectorEarly(f) == MiB + f.kernel - setup_size(f) - 512

InitrdBehindKernel(f) == MiB + f.kernel - setup_size(f)

\* The offsets are those of struct linux_boot_params; initrd says whether one is
\* placed.
LinuxWrites(f, initrd) ==
  LET params == 576 * KiB  \* 0x90000
  IN  << Object("kernel", MiB, f.kernel - setup_size(f)),
         When(initrd, Object("initrd", InitrdBehindKernel(f), InitrdSize(f))),
         Object("params", params, 136),
         Object("setup", params, setup_size(f)),
         When(HasCmdline(f), Object("cmdline", params + 32, f.cmdline + 1)),
         When(HasCmdline(f), Field("cmdline_addr", params + 60, 4, params + 32)),
         When(initrd, Field("initrd_addr", params + 44, 4, InitrdBehindKernel(f))),
         When(initrd, Field("initrd_size", params + 48, 4, InitrdSize(f))),
         Field("mem_upper", params + 128, 4, 0),
         Field("ext_mem_k", params + 132, 4, 0) >>

linux_load_kernel(f) == LinuxWrites(f, HasInitrd(f))
ia32_boot_linux(f) == LinuxWrites(f, HasInitrd(f))
x86_64_boot_linux(f) == LinuxWrites(f, HasInitrd(f))

\* This one tests for an initrd of no bytes, the others place it.
boot_linux_kernel(f) == LinuxWrites(f, InitrdSize(f) > 0)

-----------------------------------------------------------------------------
(* Multiboot 1: multiboot1.c, and boot_multiboot1_kernel's twins *)

LoadAddr(f) == IF f.header.load_addr = 0 THEN MiB ELSE f.header.load_addr

\* load_end_addr - load_addr, unsigned, and never more than the file.
LoadSize(f) ==
  LET size == f.header.load_end_addr - LoadAddr(f)
  IN  IF size \in 0..f.kernel THEN size ELSE f.kernel

\* The end of the kernel is the header's, or 0 if the header gives none.
LoadWrites(f) ==
  LET bss == f.header.bss_end_addr - f.header.load_end_addr
  IN  << Object("kernel", LoadAddr(f), LoadSize(f)),
         When(bss > 0, Object("bss", f.header.load_end_addr, bss)) >>

\* The information at 0x90000, the command line within it, the memory map behind.
multiboot1_load_kernel(f) ==
  LET info == 576 * KiB
  IN  LoadWrites(f) \o
      << Object("params", info, 88),
         Object("mem", info, 12),
         When(HasCmdline(f), Object("cmdline", info + 32, f.cmdline + 1)),
         When(HasCmdline(f), Field("cmdline_addr", info + 16, 4, info + 32)),
         Object("boot_device", info + 12, 4),
         Object("mmap", info + 256, 64),
         Object("mmap_length", info + 44, 4),
         Field("mmap_addr", info + 48, 4, info + 256) >>

\* The information, in words of some size, the command line and the kernel apart.
Multiboot1Boot(f, word) ==
  LET info == 4 * KiB
  IN  << Object("params", info, 20 * word + 8),
         Object("mem", info, 3 * word),
         When(HasCmdline(f), Object("cmdline", 8 * KiB, f.cmdline + 1)),
         When(HasCmdline(f), Field("cmdline_addr", info + 4 * word, word, 8 * KiB)),
         Object("kernel", MiB, f.kernel) >>

boot_multiboot1_kernel(f) == Multiboot1Boot(f, 4)
ia32_boot_multiboot1(f) == Multiboot1Boot(f, 4)
x86_64_boot_multiboot1(f) == Multiboot1Boot(f, 8)

\* Every module goes to the same place, its record and
\* its string to places of their own.
ModuleWrites(n, size, cmdline) ==
  LET record == 576 * KiB + 512 + 16 * n
      string == 576 * KiB + 768 + 64 * n
  IN  << Object("module", 2 * MiB, size),
         Field("record", record, 12, string),
         When(cmdline > 0, Object("string", string, cmdline + 1)) >>

-----------------------------------------------------------------------------
(* Multiboot 2: multiboot2.c, and boot_multiboot2_kernel's twins *)

Tag(at, size) == Field("tag", at, size, size)

\* Mutant: a tag whose size is a multiple of 8 gets 8 bytes more.
RoundUpAlways(size) == size + 8 - (size % 8)

RoundUp(size) == IF size % 8 # 0 THEN size + 8 - (size % 8) ELSE size

\* The size in the command line's tag is that of its 8-byte head and the string.
CmdlineTagSize(f) == IF HasCmdline(f) THEN 8 + f.cmdline + 1 ELSE 0

\* Head and string of the command line's tag: the size is the whole tag's.
CmdlineTag(at, f) ==
  << When(HasCmdline(f), Field("tag", at, 8, CmdlineTagSize(f))),
     When(HasCmdline(f), Object("cmdline", at + 8, f.cmdline + 1)) >>

multiboot2_load_kernel(f) ==
  LET info == 576 * KiB
      meminfo == info + 8 + RoundUp(CmdlineTagSize(f))
      bootdev == meminfo + RoundUp(16)
      mmap == bootdev + RoundUp(20)
      end == mmap + RoundUp(64)
  IN  LoadWrites(f) \o << Object("info", info, 8) >> \o CmdlineTag(info + 8, f) \o
      << Tag(meminfo, 16), Tag(bootdev, 20), Tag(mmap, 64),
         Object("end", end, 8),
         Field("total_size", info, 4, end + 8 - info) >>

boot_multiboot2_kernel(f) ==
  LET info == 4 * KiB
      cmdline == info + 8 + 16
      end == cmdline + CmdlineTagSize(f)
  IN  << Object("info", info, 8), Tag(info + 8, 16) >> \o CmdlineTag(cmdline, f) \o
      << Object("end", end, 8),
         Field("total_size", info, 4, end + 8 - info),
         Object("kernel", MiB, f.kernel) >>

ia32_boot_multiboot2(f) == boot_multiboot2_kernel(f)
x86_64_boot_multiboot2(f) == boot_multiboot2_kernel(f)

-----------------------------------------------------------------------------
(* Limine: limine.c *)

\* Mutant: the kernel's entry does not move its segments.
AlwaysTwoMiB(l, f) == IF l = "limine_load_kernel" THEN 2 * MiB ELSE HighHalf

\* Where the byte linked at HighHalf goes: limine_load_kernel takes the entry of a
\* kernel of the upper half, boot_limine_kernel leaves every address as it is.
LoadBase(l, f) ==
  IF l = "boot_limine_kernel" THEN HighHalf
  ELSE IF f.elf.entry >= HighHalf THEN f.elf.entry ELSE 2 * MiB

SegmentAddr(l, f, seg) ==
  IF seg.vaddr >= HighHalf THEN seg.vaddr - HighHalf + LoadBase(l, f) ELSE seg.vaddr

\* The file's bytes of a segment, and zeros up to its size in memory.
SegmentWrites(l, f) ==
  [i \in 1..(2 * Len(f.elf.segments)) |->
     LET seg == f.elf.segments[(i + 1) \div 2]
         at == SegmentAddr(l, f, seg)
     IN  IF i % 2 = 1 THEN Field("kernel", at, seg.filesz, seg.vaddr)
         ELSE When(seg.memsz > seg.filesz,
                   Object("bss", at + seg.filesz, seg.memsz - seg.filesz))]

\* The responses it allocates are linked to no request, and the command line it is
\* given goes nowhere.
limine_load_kernel(f) == SegmentWrites("limine_load_kernel", f)

\* The response at 0x1000, the file's record at 0x1100, the command line at 0x1300.
boot_limine_kernel(f) ==
  LET record == 4 * KiB + 256
      cmdline == 4 * KiB + 768
  IN  SegmentWrites("boot_limine_kernel", f) \o
      << Object("params", 4 * KiB, 16),
         Object("params", record, 24),
         Object("path", record + 24, 8),
         Field("cmdline_addr", record + 32, 8, cmdline),
         When(HasCmdline(f), Object("cmdline", cmdline, f.cmdline + 1)) >>

-----------------------------------------------------------------------------
(* The loaders of machines that describe themselves by a device tree *)

\* Distances from the start of memory: of the kernel, of the device tree (which
\* nobody writes), of what follows it, and of the parameters with their size.
\* aarch64.c subtracts 0x1000 from a pointer to its parameters, of 72 bytes.
aarch64(f) ==
  [ram |-> RamStart["aarch64"], kernel |-> 0, dtb |-> f.kernel, gap |-> 64 * KiB,
   params |-> -72 * 4096, size |-> 72]
riscv64 ==
  [ram |-> RamStart["riscv64"], kernel |-> 2 * MiB, dtb |-> 32 * MiB, gap |-> MiB,
   params |-> 0, size |-> 88]
loongarch64 ==
  [ram |-> RamStart["loongarch64"], kernel |-> 2 * MiB, dtb |-> 3 * MiB, gap |-> MiB,
   params |-> MiB, size |-> 88]

\* Where the initrd goes, or the command line that a firmware loader is given.
Behind(m) == m.ram + m.dtb + m.gap

\* Without an initrd its address is 0, and the command line's is 0x1000.
InitrdAddr(m, f) == IF HasInitrd(f) THEN Behind(m) ELSE 0
CmdlineAddr(m, f) == InitrdAddr(m, f) + InitrdSize(f) + 4096

ParamFields(m, f, initrd, cmdline) ==
  LET params == m.ram + m.params
  IN  << Field("dtb_addr", params, 8, m.ram + m.dtb),
         Field("initrd_addr", params + 8, 8, initrd),
         Field("initrd_size", params + 16, 8, InitrdSize(f)),
         Field("cmdline_addr", params + 24, 8, IF HasCmdline(f) THEN cmdline ELSE 0),
         Field("cmdline_size", params + 32, 8, IF HasCmdline(f) THEN f.cmdline + 1 ELSE 0),
         Field("kernel_addr", params + 40, 8, m.ram + m.kernel),
         Field("kernel_size", params + 48, 8, f.kernel) >>

\* Mutant: the parameters are cleared once they are filled in.
ParamsClearedLast(m, f, initrd, cmdline) ==
  ParamFields(m, f, initrd, cmdline) \o << Object("params", m.ram + m.params, m.size) >>

Params(m, f, initrd, cmdline) ==
  << Object("params", m.ram + m.params, m.size) >> \o ParamFields(m, f, initrd, cmdline)

\* The kernel is copied after what lies above it.
DeviceTreeWrites(m, f, initrd, cmdline) ==
  << Object("initrd", initrd, InitrdSize(f)),
     When(HasCmdline(f), Object("cmdline", cmdline, f.cmdline + 1)),
     Object("kernel", m.ram + m.kernel, f.kernel) >>
  \o Params(m, f, initrd, cmdline)

WithInitrd(m, f) == DeviceTreeWrites(m, f, InitrdAddr(m, f), CmdlineAddr(m, f))
aarch64_boot_linux(f) == WithInitrd(aarch64(f), f)
riscv64_boot_linux(f) == WithInitrd(riscv64, f)
loongarch64_boot_linux(f) == WithInitrd(loongarch64, f)

\* For these the initrd's fields stay as they were cleared.
WithoutInitrd(m, f) == DeviceTreeWrites(m, f, 0, Behind(m))
aarch64_boot_uefi(f) == WithoutInitrd(aarch64(f), f)
riscv64_boot_opensbi(f) == WithoutInitrd(riscv64, f)
loongarch64_boot_uefi(f) == WithoutInitrd(loongarch64, f)

-----------------------------------------------------------------------------
(* Other boot loaders: chainload.c *)

BootSector == 31 * KiB  \* 0x7C00

chainload_mbr(f) == << Object("boot_sector", BootSector, 512) >>
chainload_gpt(f) == << Object("boot_sector", BootSector, 512) >>
chainload_iso(f) == << Object("boot_sector", BootSector, 2048) >>
chainload_file(f) ==
  << Object("boot_sector", BootSector, 512), Object("rest", 4 * KiB, f.kernel - 512) >>
boot_chainload_kernel(f) == << Object("boot_sector", BootSector, f.kernel) >>

-----------------------------------------------------------------------------
(* The behaviour of a loader *)

Writes(l, f) ==
  CASE l = "linux_load_kernel" -> linux_load_kernel(f)
    [] l = "boot_linux_kernel" -> boot_linux_kernel(f)
    [] l = "ia32_boot_linux" -> ia32_boot_linux(f)
    [] l = "x86_64_boot_linux" -> x86_64_boot_linux(f)
    [] l = "multiboot1_load_kernel" -> multiboot1_load_kernel(f)
    [] l = "boot_multiboot1_kernel" -> boot_multiboot1_kernel(f)
    [] l = "ia32_boot_multiboot1" -> ia32_boot_multiboot1(f)
    [] l = "x86_64_boot_multiboot1" -> x86_64_boot_multiboot1(f)
    [] l = "multiboot2_load_kernel" -> multiboot2_load_kernel(f)
    [] l = "boot_multiboot2_kernel" -> boot_multiboot2_kernel(f)
    [] l = "ia32_boot_multiboot2" -> ia32_boot_multiboot2(f)
    [] l = "x86_64_boot_multiboot2" -> x86_64_boot_multiboot2(f)
    [] l = "limine_load_kernel" -> limine_load_kernel(f)
    [] l = "boot_limine_kernel" -> boot_limine_kernel(f)
    [] l = "aarch64_boot_linux" -> aarch64_boot_linux(f)
    [] l = "riscv64_boot_linux" -> riscv64_boot_linux(f)
    [] l = "loongarch64_boot_linux" -> loongarch64_boot_linux(f)
    [] l = "aarch64_boot_uefi" -> aarch64_boot_uefi(f)
    [] l = "riscv64_boot_opensbi" -> riscv64_boot_opensbi(f)
    [] l = "loongarch64_boot_uefi" -> loongarch64_boot_uefi(f)
    [] l = "chainload_mbr" -> chainload_mbr(f)
    [] l = "chainload_gpt" -> chainload_gpt(f)
    [] l = "chainload_iso" -> chainload_iso(f)
    [] l = "chainload_file" -> chainload_file(f)
    [] l = "boot_chainload_kernel" -> boot_chainload_kernel(f)

\* ia32.c, x86_64.c and pxe.c look for "HdrS" in the first word of the file, so
\* that its first byte, setup_sects, is an "H".
Accepts(l, f) ==
  /\ l \in LinuxLoaders \ {"linux_load_kernel"} => f.setup_sects = 72
  /\ l = "chainload_file" => f.kernel >= 512
  /\ l = "chainload_iso" => f.kernel >= 32 * KiB
  \* boot_limine_kernel reads a 32-bit file as if it were of 64 bits
  /\ l = "limine_load_kernel" => f.elf.class = 64
  /\ l = "boot_limine_kernel" => f.elf.type = 2

NoElf == [class |-> 64, type |-> 2, entry |-> 0, segments |-> << >>]
NoHeader == [load_addr |-> 0, load_end_addr |-> 0, bss_end_addr |-> 0]

\* What each loader is given, or reads from the file it is given.
Files(l) ==
  [kernel : KernelSizes,
   initrd : {NoFile} \cup (IF l \in LinuxLoaders \cup DeviceTreeLoaders THEN InitrdSizes ELSE {}),
   cmdline : IF l \in ChainLoaders THEN {0} ELSE CmdlineLengths,
   setup_sects : IF l \in LinuxLoaders THEN SetupSects ELSE {0},
   header : IF l \in {"multiboot1_load_kernel", "multiboot2_load_kernel"}
              THEN Headers \cup {NoHeader} ELSE {NoHeader},
   elf : IF l \in LimineLoaders THEN Elfs ELSE {NoElf}]

Init ==
  /\ loader \in Loaders
  /\ files \in Files(loader)
  /\ modules = 0
  /\ next = 1
  /\ placed = {}
  /\ lost = {}
  /\ pc = "called"

\* The calls of multiboot1_load_module come first: the loader does not return.
\* A module that cannot be loaded changes nothing.
multiboot1_load_module ==
  /\ pc = "called"
  /\ loader = "multiboot1_load_kernel"
  /\ modules < MaxModules
  /\ \E size \in ModuleSizes, cmdline \in CmdlineLengths :
       LET w == ModuleWrites(modules, size, cmdline)
           hit == {o \in placed : \E i \in DOMAIN w : Overlap(o, w[i])}
       IN  /\ placed' = (placed \ hit) \cup {w[i] : i \in {j \in DOMAIN w : w[j].size > 0}}
           /\ lost' = lost \cup {o \in hit : o.what \in Payload}
  /\ modules' = modules + 1
  /\ UNCHANGED <<loader, files, next, pc>>

\* The file cannot be read or is not of the loader's kind.
Refuse ==
  /\ pc = "called"
  /\ pc' = "refused"
  /\ UNCHANGED <<loader, files, modules, next, placed, lost>>

Accept ==
  /\ pc = "called"
  /\ Accepts(loader, files)
  /\ \/ (Overruns(loader, files) \/ Overreads(files)) /\ pc' = "crashed"
     \/ ~Overruns(loader, files) /\ pc' = "writing"
  /\ UNCHANGED <<loader, files, modules, next, placed, lost>>

WriteNext ==
  /\ pc = "writing"
  /\ next <= Len(Writes(loader, files))
  /\ Write(Writes(loader, files)[next])
  /\ next' = next + 1
  /\ UNCHANGED <<loader, files, modules, pc>>

Jump ==
  /\ pc = "writing"
  /\ next > Len(Writes(loader, files))
  /\ pc' = "kernel"
  /\ UNCHANGED <<loader, files, modules, next, placed, lost>>

Next == multiboot1_load_module \/ Refuse \/ Accept \/ WriteNext \/ Jump

Spec == Init /\ [][Next]_vars

-----------------------------------------------------------------------------
(* Properties *)

\* The distance from the kernel to the first thing placed above it, if any, in the
\* loaders that copy the kernel last.
Above(l, f) ==
  LET behind(m) == m.dtb + m.gap - m.kernel
      distance == behind(CASE l \in {"aarch64_boot_linux", "aarch64_boot_uefi"} -> aarch64(f)
                           [] l \in {"riscv64_boot_linux", "riscv64_boot_opensbi"} -> riscv64
                           [] OTHER -> loongarch64)
  IN  CASE InitrdSize(f) > 0 -> {distance}
        [] HasCmdline(f) /\ l \in FirmwareLoaders -> {distance}
        [] HasCmdline(f) /\ f.initrd = 0 -> {distance + 4096}
        [] OTHER -> {}

\* No segment of a Limine kernel, with its zeros, reaches into another, nor into
\* what boot_limine_kernel writes at 0x1000, 0x1100 and 0x1300.
SegmentsApart(l, f) ==
  LET segments == f.elf.segments
      Image(i) == Object("kernel", SegmentAddr(l, f, segments[i]),
                         IF segments[i].memsz > segments[i].filesz
                           THEN segments[i].memsz ELSE segments[i].filesz)
      responses == {Object("params", 4096, 16), Object("params", 4352, 40),
                    Object("cmdline", 4864, IF HasCmdline(f) THEN f.cmdline + 1 ELSE 0)}
  IN  \A i \in DOMAIN segments :
        /\ \A j \in 1..(i - 1) : ~Overlap(Image(i), Image(j))
        /\ l = "boot_limine_kernel" => \A r \in responses : ~Overlap(Image(i), r)

\* What a loader has room for before it overwrites what it has placed itself.
Room(l, f) ==
  \* the fields of the parameters that are written over the command line
  /\ l \in LinuxLoaders =>
       \/ f.cmdline < 12
       \/ f.cmdline < 28 /\ ~HasInitrd(f)
       \/ f.cmdline < 28 /\ l = "boot_linux_kernel" /\ f.initrd = 0
  /\ l = "multiboot1_load_kernel" => f.cmdline < 12
  \* memory cleared from address 0 on
  /\ f.header.load_end_addr = 0 => f.header.bss_end_addr = 0
  /\ l \in DeviceTreeLoaders \cup FirmwareLoaders =>
       \A distance \in Above(l, f) : f.kernel <= distance
  /\ l \in LimineLoaders => SegmentsApart(l, f)
  \* the rest of the file from 0x1000 up to the boot sector
  /\ l = "chainload_file" => f.kernel <= 512 + BootSector - 4 * KiB

\* One module at 2 MiB, and a kernel that ends below it.
ModulesFit ==
  LET end == IF files.header.bss_end_addr > files.header.load_end_addr
               THEN files.header.bss_end_addr
               ELSE LoadAddr(files) + LoadSize(files)
  IN  modules = 0 \/ (modules = 1 /\ end <= 2 * MiB)

\* At the jump the kernel, its initrd, command line, modules, memory map and tags
\* are in memory as they were written, exactly when the files leave room for all
\* of them: the limits the addresses of a loader and the order of its writes set.
LosesOnlyWithoutRoom ==
  pc = "kernel" => (lost = {} <=> Room(loader, files) /\ ModulesFit)

\* The fields that tell the kernel where something is, or how long it is.
Target == [cmdline_addr |-> "cmdline", initrd_addr |-> "initrd", kernel_addr |-> "kernel",
           mmap_addr |-> "mmap"]
Length == [cmdline_size |-> "cmdline", initrd_size |-> "initrd", kernel_size |-> "kernel"]

Tells(p, o) ==
  \/ p.what \in DOMAIN Target /\ Target[p.what] = o.what /\ p.value = o.at
  \/ p.what = "tag" /\ o.what = "cmdline" /\ p.at + 8 = o.at /\ p.value = 8 + o.size

\* A command line or an initrd of that size is in memory, and a field that lasted
\* says where.
Told(what, size) == \E o, p \in placed : o.what = what /\ o.size = size /\ Tells(p, o)

\* When nothing is lost a kernel that was given a command line or an initrd finds it,
\* whole and through the parameters, which survive being written one after another
\* into memory that was cleared, or filled with the setup code; no length is wrong,
\* and the 32-bit Multiboot loaders fill in the field of struct multiboot_info
\* (multiboot1.h:36-45).  The two exceptions are wrong in the code:
\* limine_load_kernel places no command line (LimineKernelIsTold shows it), and
\* x86_64.c has its fields in words of 8 bytes (Multiboot1FieldsAreWords).
ParametersTellTheTruth ==
  (pc = "kernel" /\ lost = {} /\ loader # "x86_64_boot_multiboot1") =>
    /\ HasCmdline(files) /\ loader # "limine_load_kernel" => Told("cmdline", files.cmdline + 1)
    /\ InitrdSize(files) > 0 => Told("initrd", files.initrd)
    /\ \A p \in placed :
         p.what \in DOMAIN Length /\ p.value > 0 =>
           \E o \in placed : o.what = Length[p.what] /\ o.size = p.value
    /\ loader \in Multiboot1Boots =>
         \A p \in placed : p.what = "cmdline_addr" => p.at = 4 * KiB + 16

\* A Limine kernel finds the command line it was given (limine.h:177, 360).
LimineKernelIsTold ==
  (pc = "kernel" /\ lost = {} /\ loader \in LimineLoaders /\ HasCmdline(files)) =>
    Told("cmdline", files.cmdline + 1)

\* The address of the command line is where struct multiboot_info of multiboot1.h
\* has it, behind four words of 32 bits.
Multiboot1FieldsAreWords ==
  (pc = "kernel" /\ loader \in Multiboot1Boots) =>
    \A p \in placed : p.what = "cmdline_addr" => p.at = 4 * KiB + 16

\* A kernel that walks the tags of multiboot2_load_kernel, each at the next multiple
\* of 8, gets from the first to the end tag, where the total size ends too.
TagsLeadToTheEnd ==
  (pc = "kernel" /\ loader = "multiboot2_load_kernel") =>
    LET info == 576 * KiB
        tags == {o \in placed : o.what \in {"tag", "end"}}
        After(t) == ((t.at + t.value + 7) \div 8) * 8
    IN  /\ \E t \in tags : t.at = info + 8
        /\ \A t \in tags : t.what = "tag" => \E u \in tags : u.at = After(t)
        /\ \E t \in tags, s \in placed :
             t.what = "end" /\ s.what = "total_size" /\ info + s.value = t.at + t.size

\* A Limine kernel whose file holds its segments, and that is in memory whole, is
\* entered at the byte its file has at the entry's address exactly when its file has
\* one there and the segment lies where it is linked.  For limine_load_kernel that
\* leaves the kernels of the lower half and those whose entry is the very start of
\* the upper: any other kernel of the upper half lies as much too high as its entry
\* is above the start (limine.c:143-146, 152-156).
EntryIsTheKernels ==
  (pc = "kernel" /\ loader \in LimineLoaders /\ lost = {} /\ ~Overreads(files)) =>
    LET entry == files.elf.entry
        Holds(at, size) == at <= entry /\ entry < at + size
        segments == files.elf.segments
    IN  (\E o \in placed : o.what = "kernel" /\ o.value = o.at /\ Holds(o.at, o.size))
          <=> \E i \in DOMAIN segments :
                /\ Holds(segments[i].vaddr, segments[i].filesz)
                /\ segments[i].vaddr < HighHalf \/ entry = HighHalf
                     \/ loader = "boot_limine_kernel"

\* The command line of the menu's Linux entries reaches the kernel whole.
CommandLineReachesKernel ==
  (pc = "kernel" /\ HasCmdline(files)) => \E o \in placed : o.what = "cmdline"

=============================================================================
