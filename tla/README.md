# BloodHorn: specifications and proofs

TLA+ specifications of the BloodHorn bootloader, the TLC configurations that
check them on small instances, and proofs of their main invariants that TLAPS
checks for every value of the constants. Paths are relative to the repository;
`PROJECT.json` maps every definition to the lines it translates.

Contents: 1. the system, 2. the modules and the code, 3. the runs, 4. bounds,
5. fairness, 6. proofs, 7. where code and documents disagree, 8. what is not
modelled, 9. the plan.

## 1. The system

BloodHorn runs on one processor without preemption. What makes it hard is not
threads but everything that happens between two of its steps: firmware calls
that fail, a user who acts between drawing and reading a key, files and network
answers of any content, and memory that several loaders write by fixed address.

| component | state | operations | who calls it | what makes it correct |
|---|---|---|---|---|
| boot menu (`boot/menu.c`) | table of entries, hotkeys, selection, scroll offset, status | `AddBootEntry`, `ShowBootMenu` | `UefiMain`; it calls the entry's wrapper | the selection is an entry, hotkeys are unambiguous, arrows keep it in view, Enter boots what is shown |
| entry point (`main.c`, `uefi/uefi.c`, `boot/secure.c`) | open handles and buffers, secure boot and whether it could be read, the image | `UefiMain`, `ReadFile`, `LoadAndVerifyKernel`, `ExecuteKernel` | the firmware | nothing leaks, nothing unverified starts while secure boot is read as on, every menu result is acted on |
| BloodChain library (`boot/Arch32/BloodChain/bloodchain.c`) | a header, a table and strings in one block of memory | `bcbp_init`, `bcbp_add_module`, `bcbp_set_*`, `bcbp_find_module`, `bcbp_validate` | the wrapper, and the kernel that is booted | entries and strings never damage the table, look-ups find modules, validation accepts what was built |
| BloodChain wrapper (`main.c`) | sizes of kernel and initrd, boot services | `boot_bloodchain_wrapper` | the menu | the table handed over names the loaded files, which do not overlap |
| filesystem layers (`fs/fs_mount.c`, `fs/fs_common.c`) | registered types, mount points, driver handles | register, mount, unmount, look-up, file operations | loaders, the shell | a path reaches the deepest mount, handles are given back once |
| filesystem drivers (`fs/fat32.c`, `ext2.c`, `iso9660.c`) | per-mount private data, the buffers of a call | detect, mount, unmount, read, list, get_info | a filesystem layer | look-ups end and find the entry, reads return the window of the file, memory comes back on every path |
| network (`net/`) | initialised flag, the card, ARP cache | `pxe_boot_kernel`, `pxe_cleanup_network`, `arp_resolve`, DHCP and TFTP packets | the menu | initialise before use, the flag tells the state of the card after any failure, the kernel started is the one served, answers match requests |
| plugins (`plugins/`) | two tables, callbacks | register, load, unload, find | scripts, the shell | the table is whole when a callback runs |
| scripting (`scripting/`) | stack, functions, environment | run a script, call a function, get and set | plugins | callbacks do not lose the script's place |
| kernel loaders (`boot/Arch32/*.c`) | none but memory | load, verify, boot | the menu, PXE | kernel, initrd, command line and parameters do not overwrite one another |
| configuration (`config/`, `main.c:50-202`) | a list of keys and values | parse, get | `UefiMain` | precedence of the sources |
| recovery shell (`recovery/`) | command buffer, history | read, parse, execute | the menu | ends of input |
| BIOS stages (`bios/`) | retry counter | read sectors, switch modes | the BIOS | retries end |
| security, graphics, theme, localization | keys, pixels, strings | pure functions and drawing | all | see section 8 |

The hazards of each component, at their lines, are under `hazards` in
`PROJECT.json`, with the properties that look for them.

## 2. Modules and code

### The menu and the load path

* `BootMenu.tla` - `boot/menu.c`. One turn of the loop of `ShowBootMenu` is
  three steps, because the user acts between them: `Draw` records what the
  screen highlights, `MouseOver`/`MouseElsewhere` poll the pointer, and one of
  the key actions handles a key. `Status` is kept as the code keeps it: it
  begins as the result of `InitializeGraphics` and is overwritten by
  `WaitForEvent` and `ReadKeyStroke`. Where `GraphicsOutput` is NULL and is
  read anyway, `NullGraphics` lets the machine stop or go on.
* `UefiBoot.tla` - `UefiMain` of `main.c`, `ReadFile` of `uefi/uefi.c`,
  `LoadAndVerifyKernel` and `ExecuteKernel` of `boot/secure.c`. It extends
  `BootMenu`; each firmware call is a step that may fail, and `held` is what is
  open or allocated. The volume root that `GetRootFileSystem` opens is closed
  nowhere: it stays in `held`, and no property asks for it back. `InfoSize` is
  uninitialised (`uefi/uefi.c:82`), so the first `GetInfo` may also succeed, in
  which case `ReadFile` returns success without a buffer. Every `GetVariable` may
  fail; `unread` is a history variable: the SecureBoot of 1 that could not be read,
  which `IsSecureBootEnabled` answers with FALSE (`boot/secure.c:40-41`). What the
  menu starts is an opaque function; only `kernel.efi`, which `UefiMain` loads
  after it, is ever verified.
* `UefiBootProofs.tla` - the proofs about both, section 6.

### The BloodChain protocol

* `BloodChain.tla` - the library. `hdr` is the header and `mem` the bytes behind
  it: entries are little-endian words at `hdr.modules + i * EntrySize`, strings
  are NUL-terminated, and where a new string goes is recomputed by strlen as in
  the code. A number is one of 64 bits, in eight bytes. `added` is a history variable:
  what the callers passed. The read-only functions `bcbp_find_module` and
  `bcbp_validate` are operators.
* `BloodChainBoot.tla` - `boot_bloodchain_wrapper`, which extends `BloodChain` and calls
  its operations; the two fields of the header it writes itself (`main.c:396-405`) are left
  out, so nothing is claimed of its keeping to the library. `LoadFileToMemory` and
  `FileExists` are declared nowhere in the repository: they succeed with any
  size, at the address they are asked for, or fail. `ALIGN_UP` is not
  defined either and is taken for the usual macro.
* `BloodChainProofs.tla` - the proofs about the library and the wrapper, section 6.

### The filesystem layers

The repository holds two, with the same purpose and different data structures.

* `MountTable.tla` - the abstract specification, a set of mounts and what a file
  operation on a path must do: reach a deepest mount the path lies under, with
  what is left of the path, or reach no driver.
* `FsPath.tla` - how both layers match a path against a mount's and what they
  pass to the driver.
* `FsMount.tla` - `fs/fs_mount.c`: an array of types, a list of mounts that grows
  at its tail, `fs_init`. `strdup` may return NULL, which the code does not test
  (`fs_mount.c:67`); walking over such a mount point may stop the machine, and where
  it does not, no `fs_unmount` ever takes it: its handle is kept for good.
* `FsCommon.tla` - `fs/fs_common.c`: one list for types and mounts, growing at its
  head, in which a registered type is a dummy mount at `/`.

`FsMount` and `FsCommon` each state the refinement as `ServesDeepest`, with
`mounted` mapped to the mount points that have a path; `FsMountProofs.tla` and
`FsCommonProofs.tla` prove it, and the rest of what their runs check.

### The filesystem drivers

* `DiskDriver.tla` - what the three drivers share: a volume on the disk, which they
  only read, the private data of one mount, and one call at a time. `pc` is the loop
  the driver is in and `at` its locals, so that a step is one turn of a loop; `held`
  counts the blocks of memory the driver has. A block that is allocated and given
  back within one turn is not counted, but its allocation may fail. A byte of a file
  is named by the block it lies in and its place there, a path is the sequence of its
  parts. `pc = "undefined"` stands for undefined behaviour: a division by zero, a
  write behind an array.
* `Fat32.tla`, `Ext2.tla`, `Iso9660.tla` - one action for each loop and operation, with
  the names of the C functions, on any contents of a disk: `FatVolume`, `Ext2Volume` and
  `IsoVolume` only say that what is read as a number or an entry is one.
  `fat32_get_cluster` past the end of the table reads what lies there, and answers an
  end mark with an end mark. The recursion of `iso9660_find_entry`, of which every
  level holds a buffer, is kept as a depth.
* `Volumes.tla` - the three on the volumes they are mounted on, and the reference the
  answers are compared with, in functions of the disk alone. `PathEntry` is what a path
  stands for on any filesystem: from the root, part by part, each looked up in the
  directory the parts before it led to. It repeats nothing a driver does wrong. `Followed`
  are the paths on which a driver is right, and `FindsTheEntry` and `ReadsTheWindow` speak
  of those, the latter of reads that do not wrap and, for ext2, lie in the first block;
  `EveryPathIsFollowed` and `EveryReadIsItsWindow` are the claims without the one
  condition and the other, and fail. `TheEntry` is where the look-up of each driver ends, for the
  properties about memory, listings and termination.
* `VolumesProofs.tla` - the proofs that look-ups, reads and listings answer as the
  reference says, and that calls give back their memory, section 6.

### Services

* `Plugins.tla` - `plugins/plugin.c`. A plugin's `init` and `cleanup` may call the table's
  interface again; `frames` is the stack of calls that wait for one. Unmapped code that
  returns, a handle closed twice and a look-up past the table set `strayed`, after which
  nothing happens.
* `Lua.tla` - `scripting/lua.c` and `script_loader.c`. `place` is the one place `strtok`
  keeps, and `words` what is left of the text of each script, which `strtok` cuts.
* `NameTables.tla` - `script_env.c`, `script_api.c`, `plugin_registry.c`, `config_env.c`:
  tables that only grow, and their look-ups as operators.
* `Arp.tla` - `net/arp.c`. Frames of all hosts wait in any order, may be lost by never
  being polled, and may be older than the request.
* `Services.tla` - the four, each run alone: they share nothing. `ServicesProofs.tla` has
  the proofs about them.

### The kernel loaders

* `Handoff.tla` - `linux.c`, `multiboot1.c`, `multiboot2.c`, `limine.c`, `chainload.c`, `ia32.c`,
  `x86_64.c`, `aarch64.c`, `riscv64.c`, `loongarch64.c` under `boot/Arch32`. An
  operator with the name of each C function is the sequence of its writes, an object
  being a range of addresses with, for a field, its value. `WriteNext` makes them one
  by one: `placed` is what is still as it was written, `lost` the payload that was
  not. Functions that share their body share an operator (`LinuxWrites`,
  `Multiboot1Boot`, `DeviceTreeWrites`). Where the setup sectors are more than the
  file, `kernel_size - setup_size` wraps and the machine is taken to crash
  (`Overruns`). Where a segment says it has more bytes than the file, the loader copies what
  lies behind the buffer, which may stop it (`Overreads`). A Multiboot header is the three
  addresses found in it. `multiboot1_load_module` may be called any number of times before its kernel.
  An ELF file is its entry and its segments. `Room` is the result of this module: what
  each loader has room for.
* `NetBoot.tla` - `net/pxe.c` above the card, composed with `Handoff`: `pxe_boot_kernel`
  brings up the card, fetches the files and calls a loader, which then runs as in
  `Handoff`; where it fails, the menu may call it again. `net = "direct"` stands for a
  loader called from elsewhere. `NetBootProofs.tla` has the proofs about both.

### Shared lemmas

* `Loops.tla` - lemmas of the proof modules about what the C code writes as loops: the
  least and greatest of a set of numbers, induction over an interval, functions defined
  by recursion over one, a walk over a list that keeps the longest match, a path
  matched character by character, an element taken out of an array, the elements of a
  sequence that a test picks, in order.

### Modules for TLC

`MCUefiBoot`, `MCBloodChainBoot`, `MCFsMount`, `MCFsCommon`, `MCVolumes`, `MCHandoff` and
`MCNetBoot` give values to constants that a `.cfg` cannot write; the volumes of the drivers
are in `MCVolumes`. `MCBoot`, `MCServices` and `MCFilesystems` put parts that share nothing
beside one another, for one run: a scene or layer is chosen in the initial state, only it
moves, and of what it does not use one initial state is taken. Each part is explored as it
would be alone.

Operators named as mutants in the modules are wrong on purpose: each is the form
a plausible bug would give the definition after it, and `PROJECT.json` says which
property notices. No specification uses them.

## 3. Runs

| run | configuration | what it shows |
|---|---|---|
| `boot` | `Boot.cfg` | the menu and the load path through every key, pointer move and failure: `WindowOK`, `HotkeysReachTheirEntry`, `ArrowsKeepSelectionVisible`, `ReadFileGivesBack`, `OnlyVerifiedImageRuns`, `MenuResultIsActedOn` (liveness); the BloodChain library on bytes: `TableIntact`, `NewestReadable`, `StringsEndByNewest`, `WritesFresh`; the wrapper: `OwnTableAccepted`, `HandoffTable` |
| `menu_highlight` | `BootMenuHighlight.cfg` | expected violation: Enter can boot an entry the screen does not highlight |
| `secure_boot` | `SecureBoot.cfg` | expected violation: an unverified kernel starts with secure boot on, because its variable could not be read |
| `bloodchain_names` | `BloodChainNames.cfg` | expected violation: the kernel does not find itself by name once an initrd was added |
| `filesystems` | `Filesystems.cfg` | the drivers on sound and damaged volumes, with every allocation and read failing or not: `FindsTheEntry`, `ReadsTheWindow` and `ListsTheDirectory` compare answers with the disk, `MemoryGivenBack` looks for leaks, `CallsReturn` (liveness) says which calls may not return; `FsCommon` implements `MountTable`, with its handles, dummies and unmounting |
| `fat_paths` | `FatPaths.cfg` | expected violation: FAT32 answers `b/a` with the `a` of the root |
| `ext2_offset` | `Ext2Offset.cfg` | expected violation: ext2 reads from 0 whatever the offset |
| `fs_mount_root` | `FsMountRoot.cfg` | expected violation: a mount at `/` does not serve `/boot` |
| `services` | `Services.cfg` | `TableWhole`, `ScriptRest`, `FirstIsFound`, `ArpTellsTheTruth`, one for each of the four services; `FsMount` implements `MountTable`, with its handles, names and unmounting; loaders called directly or over the network: `LosesOnlyWithoutRoom`, a loader destroys what it hands over exactly when `Room` or `ModulesFit` fails, `ParametersTellTheTruth`, `TagsLeadToTheEnd`, `EntryIsTheKernels`, and `FlagTellsCard` and `NetKernelIsServed` over any number of failed boots |
| `handoff_cmdline` | `HandoffCmdline.cfg` | expected violation: the menu's Linux entries damage their own command line |
| `handoff_limine` | `HandoffLimine.cfg` | expected violation: `limine_load_kernel` drops the command line |
| `handoff_multiboot1` | `HandoffMultiboot1Words.cfg` | expected violation: `x86_64_boot_multiboot1` writes its parameters in words of 8 bytes |

Deadlock is switched off: in each passing run there is a part that really stops, because
the machine is reset, runs a kernel, or faults.

## 4. Bounds

* Menu: a window of 3 rows instead of 10, a table of 5 entries instead of 128;
  lists are empty, shorter than the window, longer than it, and longer than the
  table. Scrolling, wrapping and the full table all happen; a longer list adds
  rows that behave like those in the middle. The proofs of section 6 remove these bounds.
* BloodChain: 8-byte fields, 40-byte entries and the 144-byte header are the
  code's own, and so are `NameMax`, `CmdlineMax` and `ModuleMax`. `Limit` bounds the
  memory behind the header (200 bytes) and `FitsIn` is the guard that applies it: three
  modules fit, which is what it takes for a third entry to overwrite strings of both the
  first and the second. `Fill` makes the memory zeros or 0xFF bytes, so that a
  string without its NUL is either hidden or found. TLC's numbers have 31 bits, so the upper
  half of a field is 0 in the run; the proofs are about all 64.
* Filesystems: `Handles` bounds the live mounts to two, enough for two mounts at
  one path and for one inside the other; `MaxRegistered` is 3 instead of 8, so
  that a type is dropped. Paths are short sequences that contain every relation
  the matching tells apart: equal, below with a separator, a longer name
  (`/ab` and `/a`), and the root. The handles are symmetric in `services`.
* Loaders: addresses and sizes are the code's, in bytes. The sizes of kernels,
  initrds and command lines are those on either side of each distance between two
  objects, `MaxModules` is 2, one more than fits. Memory starts at 1 GiB for
  aarch64, as in the code; the other two machines begin beyond TLC's integers and
  are given the same start, which only has to be far above 0x1000 (`RamStart`).
* Upper-half Limine kernels: `HighHalf`, 0xffffffff80000000 in the code, is an address
  TLC can count to, above everything else that is loaded.
* Network: files of no bytes, of the size that stands for an unknown one (65535), one
  byte more, and 3 MiB.
* Drivers: volumes of a few clusters or blocks of one to four places, integers modulo
  16 (`Wrap`) so that sums wrap, names of two characters and an extension of one,
  paths of up to three parts. The volumes are sound ones and one for each damage a
  driver can meet: a chain that leads back to itself or out of the data area, entries
  deleted, unused or of length 0, a directory over several clusters, a directory whose
  offset wraps, a file with more bytes than 32 bits count, a geometry of zeros. Any number of calls
  follow one another, on one mount at a time; `MaxHeld` stops mounting once the leak of
  `ext2_mount` has happened twice. The room given to a listing is far below `Wrap`.
  `fat_paths` and `ext2_offset` need one sound volume.
* Services: a table of 2 plugins instead of 32 and 3 callbacks within one another, so
  that it is full, emptied from the middle, and changed under a waiting call; a stack
  of 2 integers instead of 256 and scripts 3 deep; tables of 3 names instead of 16;
  3 requests with 2 polls instead of 10000 each, and 2 frames on their way.

## 5. Fairness

Two specifications have any. `Volumes!Spec` has `WF(Step)`: a driver call runs on the
only processor, without preemption, and each turn of its loops is a step. The caller,
who chooses when to call, gets none. `UefiSpec` has two: `WF(MenuReturned)` and
`WF(LoadPath)`. `MCFilesystems` and `MCBoot` repeat them. Between the menu's
return and the message or the start of the image `UefiMain` runs sequential code
on the only processor and makes firmware calls that return, so an enabled step is
taken. The menu's keys and the wait for a key in `Reboot` depend on a user and get
no fairness. `MenuResultIsActedOn` rests on this and would not hold if an error
path led back into the load path, as its mutant shows.

## 6. Proofs

TLAPS proves the following for every value of the constants that the named assumptions
allow: for tables, stacks and lists of any length, files, strings and paths of any size,
and any contents of a disk or of memory. Each row is `Spec => []P` for an invariant P,
`Spec => P` for an action property or a refinement.

| module | theorem | property | run that checks it |
|---|---|---|---|
| `UefiBootProofs` | `UefiTypeCorrect`, `WindowSafe`, `HotkeysSafe` | `UefiTypeOK`, `WindowOK`, `HotkeysReachTheirEntry` | `boot` |
| | `ArrowsSafe` | `ArrowsKeepSelectionVisible` (action) | |
| | `SecureBootSafe`, `ReadFileSafe` | `OnlyVerifiedImageRuns`, `ReadFileGivesBack` | |
| `BloodChainProofs` | `TypeCorrect`, `TableStaysIntact` | `TypeOK`, `TableIntact` | `boot` |
| | `StringsSafe`, `NewestSafe` | `StringsEndByNewest`, `NewestReadable` | |
| | `WritesFreshSafe` | `WritesFresh` (action) | |
| | `OwnTableSafe`, `HandoffSafe` | `OwnTableAccepted`, `HandoffTable` | |
| `FsMountProofs` | `MountTypeCorrect`, `MountHandlesSafe` | `TypeOK`, `HandlesAreMounted` | `services` |
| | `MountUnmountsServing`, `MountNamesStable` | `UnmountTakesServing`, `NamesAreStable` (action) | |
| | `MountServesDeepest` | `ServesDeepest` (refinement of `MountTable`) | |
| `FsCommonProofs` | `CommonTypeCorrect`, `CommonHandlesSafe`, `CommonDummiesSafe` | `TypeOK`, `HandlesAreMounted`, `OneDummyPerType` | `filesystems` |
| | `CommonUnmountsServing` | `UnmountTakesServing` (action) | |
| | `CommonServesDeepest` | `ServesDeepest` (refinement of `MountTable`) | |
| `VolumesProofs` | `MemorySafe` | `MemoryGivenBack` | `filesystems` |
| | `FindsEntry`, `ReadsWindow` | `FindsTheEntry`, `ReadsTheWindow` | |
| | `ListsDirectory` | `ListsTheDirectory` | |
| `ServicesProofs` | `PluginsSafe`, `ScriptsSafe`, `TablesSafe`, `ArpSafe` | `TableWhole`, `ScriptRest`, `FirstIsFound`, `ArpTellsTheTruth` | `services` |
| `NetBootProofs` | `NetCardSafe`, `NetKernelSafe` | `FlagTellsCard`, `NetKernelIsServed` | `services` |
| | `NetTagsSafe`, `NetEntrySafe`, `NetParametersSafe` | `TagsLeadToTheEnd`, `EntryIsTheKernels`, `ParametersTellTheTruth` | |

### The arguments

**Menu and load path** (`BootMenuAssumption`: sizes are positive and the null values are
none of the real ones). `WindowOK` is not inductive, because `EnterMenu` can establish it
only when the table and the offsets are still as `MenuInit` left them; the invariant adds
that before `EnterMenu` the selection and the offset are 0, and that the fallback entry
always finds room. `OnlyVerifiedImageRuns` and `ReadFileGivesBack` become inductive with
the statement, for each `pc`, of what is held there and whether a verification, or a
SecureBoot that could not be read, lies behind.

**BloodChain library** (`BloodChainAssumption`: entries are longer than four fields, fields
have eight bytes, numbers are those of 64 bits). `str_ptr` is at least the end of the
table with one more entry, so a string is written behind every entry; an entry is written
at `ModAddr(module_count)`, behind the earlier ones; and reading back a little-endian word
gives what was stored, one byte after the other (`Upper`, `Highest`). The lemmas on
`Little`, `Field`, `Word` and `Put` carry the byte arithmetic.
`TableInv` adds to `TableIntact` that the table lies within `mem`. `StringsInv` adds the
strings of the newest module and the place of its last NUL (`LastNul`), behind which no
reachable string begins. Then strlen from any pointer ends at or before that NUL whatever an
entry has overwritten, the next module goes behind it, and its own strings end in the new
last NUL.

**BloodChain wrapper** (`WrapperAssumption`: what the wrapper passes are arguments the
library's specification admits, so numbers of 64 bits; `StringsAssumption`: its literals fit
in one entry, and in the library's limits even after the entry of the initrd has been written over them).
`BootInv` says for each `pc` which modules were added and, with `BootPointers`, where
their strings lie. `OwnTableAccepted` needs it, for the kernel's name and command line have
become bytes of the initrd's entry: they end at the NUL of the initrd's name at the latest,
so within the limits `bcbp_validate` sets.

**Filesystem layers** (`FsMountAssumption`, `FsCommonAssumption`: paths are not empty, the
root is among them). The inductive invariants are the types together with
`HandlesAreMounted` and, for `fs_common.c`, `OneDummyPerType`; removing an entry from a list
keeps them only because no two entries have the same handle, or are dummies of one type. For
`fs_mount.c` they need one more conjunct: before `fs_init` no type is registered. The
look-ups are walks over the list that keep the longest match. `WalkFindsLongest` of `Loops`
says that such a walk returns the first entry of greatest length among those that match,
`PrefixByCharacter` and `RestBehindSeparator` what matching character by character means;
the refinement of `MountTable` goes by one step for each call.

**Drivers** (`DiskAssumption`: every volume has one of the three drivers). `MemInv` says of
every turn of every loop that what is held is what the mount owns, what was lost
before the call, and the buffers of the loop (`Buffers`): one for a search or a listing,
and one for each open call of `iso9660_find_entry`, whose depth stays among the locals of
its loop (`LocalsInv`).

The answers rest on more assumptions, still without one about what a disk means
(`Fat32Assumption`, `Ext2Assumption`, `Iso9660Assumption`: fields are numbers, entries are
entries). `Typed` relates the private data to the volume and each loop to its call.
`Finds` states `LookupEnds`, that a look-up ends at `TheEntry`, with what a search has
behind it (`OnTheWay`): for FAT32 the clusters of the root's chain up to the one at hand,
none with the name and none with an end mark, and the parts of the path already left; for
ext2 the places of the entries passed, none with the name; for ISO 9660 the directory the
path has led to (`Way`), the blocks of it passed, and the records passed in this one. A
search that stops has then seen all the directory, and one that hits has hit the least place
of the name. `EndsThere` closes the gap to `FindsTheEntry`: on a path that is `Followed`,
`TheEntry` is `PathEntry`, one lemma for each driver. That chains, directories and ways are
recursive functions of the disk is met by induction over the number of clusters, entries
or parts behind. `Reads` states `ReadEnds`, the same for the bytes, with what a read has
done (`Reading`): FAT32 has skipped so many links of the file's chain (`FatSkipping`), then
written the window as far as the cluster at hand (`FatCopying`); ext2 has written the first
block at each multiple of the block's size (`Ext2Copying`). ISO 9660 reads in one step, and
what there is to show is that its block numbers, computed modulo `Wrap`, are those of the
window wherever the piece fits in memory (`IsoAnswers`). `ReadsWindow` follows from it and
`EndsThere`. `Listings` adds to
`ListsTheDirectory` what a listing has put down (`Listing`): for ISO 9660 the names of the
blocks behind, cut to the room (`IsoListing`); for ext2 those of the blocks and of the
entries of this block behind (`Ext2ListingIn`), an entry of length 0 being the last of its
block; for FAT32 those in the clusters behind, none of them an end mark, with the
characters they take (`FatListing`). The test for room is `U(used + Printed(name) + 2)`,
and does not wrap because `Fat32Assumption` keeps a room with the longest name below
`Wrap`. A FAT chain that goes round is listed again and again, until the room ends. A chain
leads through fewer than `Eoc` clusters in a row without a name or an end mark to one
that has either (`SilentShort`), so that a listing that answers has at most `Eoc`
clusters behind it for each name put down, and `Eoc` more: the bound of `FatLists`.

**Plugins** (`PluginsAssumption`). While no callback has changed the table under a call that
waits for it, a library is open as often as slots and waiting registrations name it
(`Open`). A registration that waits has only calls of `init` above it, and its slot is the
one after the last counted; unloads that wait inside one another are of slots further and
further on, so that the shifts of the inner ones leave the outer ones in place. With this
the code of every waiting call is still loaded.

**Scripts, tables, addresses** (`LuaAssumption`, `NameTablesAssumption`, `ArpAssumption`). Of
the executions open, the innermost has left what `strtok` has left, and the others are
settled: cut off with words left, or not cut off. A table entry is the name put, cut to what
the table keeps, and the value. Frames on their way, the cache and the answer hold what
their host has, unless it has moved.

**Network and loaders** (`HandoffAssumption`, `NetBootAssumption`: sizes and addresses are
numbers). `NetInv` says for each place of `pxe_boot_kernel` what the card is, which files
were fetched and with what sizes the loader was called. `LoaderInv` relates memory to the
sequence of writes: what is placed is what a write made and no later one overlaps, what
is lost is what one does (`PlacedInv`). A statement about the jump is thereby one about
the finite sequence of writes of each loader, whose lengths and addresses are
arithmetic in the sizes of the files.

The library's induction theorems take a predicate, which no installed prover can
instantiate. `Loops` states induction with a set instead, from the least element of a
set of numbers, and derives from it that a recursive function satisfies its defining
equation; that is how what the recursive functions of the models compute could be proved.

### Only model-checked

* `MenuResultIsActedOn` and `CallsReturn`: liveness under fairness, which the prover
  does not reach.
* `LosesOnlyWithoutRoom`: `Room` states the limits that matter for files of a plausible
  size. It is exact for those of the run, not for all: a command line of a megabyte, which
  `Room` does not mention, runs into the kernel. Which of two of its sides fails first for
  each loader and size would be the table of its addresses once more.

## 7. Where code and documents disagree

* `EnterBootsHighlighted` - `USAGE.md:25` says Enter boots the selected entry.
  The pointer is polled after the screen was drawn and moves the selection
  without a redraw (`boot/menu.c:219`), and a hotkey can select an entry outside
  the window.
* `KernelFindsItself` - the example kernel of `USAGE.md:103` looks itself up by the
  name `kernel`. The initrd's table entry is written over that name
  (`bloodchain.c:57`), although `bloodchain.h:69` says the name is copied.
* `RootServesAll` - `fs_init` mounts "root filesystem" at `/` (`fs_mount.c:250-259`),
  but `path[1]` of `/boot` is no separator (`fs_mount.c:36`), so nothing below the
  root is served.
* `CommandLineReachesKernel` - `CONFIG.md:88` and `linux.c:100` set a kernel command
  line. It is copied into the parameters, whose fields for the initrd are assigned
  afterwards (`linux.c:108-109`): of `root=/dev/sda1 ro` the kernel sees
  `root=/dev/sd` and then an address. `multiboot1.c:136` writes the length of the
  memory map to the same place.
* `SecureBootVerifies` - `SECURITY.md:183` says "BloodHorn automatically verifies all
  kernel images before loading". `IsSecureBootEnabled` answers FALSE when `GetVariable`
  fails (`boot/secure.c:41`), and then nothing verifies the kernel.
* `EveryPathIsFollowed` - "Otherwise, continue with next component" (`fat32.c:295`): the
  next line continues in the root directory instead of the one just found.
* `EveryReadIsItsWindow` - `read_file` of `fs_common.h:39-40` has an offset.
  `ext2_fs_read_file` does not use it, and reads the first block for each piece of a read.
* `LimineKernelIsTold` - `USAGE.md:226` gives a Limine entry a command line, and
  `limine_load_kernel` a parameter for it (`limine.h:360`) that it never reads.
* `Multiboot1FieldsAreWords` - `struct multiboot_info` (`multiboot1.h:36-45`) has words of 4
  bytes; `x86_64_boot_multiboot1` fills in words of 8 (`x86_64.c:15-20`), so that a kernel
  finds at most the flags.

Two more that no run shows, because there is no code to run: `ESC` is to "exit to
firmware" (`USAGE.md:26`, `:179`) and a kernel that fails to load to end in the recovery shell
(`USAGE.md:582`). `UefiMain` answers both with "Press any key to reboot" and a cold reset,
and `MenuResultIsActedOn` takes that for the answer. And of what the menu's wrappers load
themselves nothing is verified, whatever `SECURITY.md:183` says.

`Handoff` shows more limits, of which no document says anything: an initrd for
LoongArch survives only behind a kernel of at most 2 MiB, for RISC-V of at most
31 MiB; a chainloaded file of more than 27.5 KiB overwrites its own boot sector; of
several Multiboot modules only the last is left; a Multiboot header with an end of
the BSS and no end of the load clears memory from 0 on. `ParametersTellTheTruth` leaves
out what the two last runs show; the tags of `boot_multiboot2_kernel` and
its twins are not padded as those of `multiboot2_load_kernel` are, so that
`TagsLeadToTheEnd` speaks of the latter only. No loader writes the device tree it
passes the address of.

A Limine kernel of the upper half lies as much too high as its entry is above the start
of the upper half (`limine.c:144`), so that only one whose entry is that start is
entered where it was linked. The responses `limine_load_kernel` fills in are linked to
no request; the record of `boot_limine_kernel` gives the
kernel's address as 0x100000 whatever its segments say. Over the network no Limine kernel
ever starts: `pxe.c:160` and `limine.c:231` look for different words in the same four bytes.
A kernel started from the network leaves the card leased, for nobody calls
`pxe_cleanup_network` before the jump, and the buffers of a failed boot are lost.

The drivers, as the properties of `Volumes` state them:

* FAT32: beside what `EveryPathIsFollowed` shows, a volume label is found like a file
  (`fat32.c:280`), and whether an entry is a directory is read from a bit of its cluster's
  number (`fat32.c:153`), so that `FindsTheEntry` says nothing of that answer. A chain that
  leads back to itself keeps a look-up turning, unless what it looks for lies on it. A read
  whose end wraps is not cut to the file (`fat32.c:24`).
* ext2: a path is one name in the root, without a leading separator unless it is `/`
  (`ext2.c:213`), and only the first block of the root is searched. Beside what
  `EveryReadIsItsWindow` shows, whole blocks are written (`ext2.c:191`): a read is right for
  what fits into the first block from offset 0, in a buffer of whole blocks. A mount whose
  descriptors cannot be read leaves their block of memory (`ext2.c:118`), and an unused entry
  of length 0 stops a listing (`ext2.c:275`).
* ISO 9660 looks for its descriptors 16 sectors behind where detection found them
  (`iso9660.c:123`, `54`, `97`), keeps one byte of the root's address (`iso9660.c:237`), and has
  information only of an entry whose record happens to be the first of the block
  computed from its address (`iso9660.c:378`): the kind it tells is that of a record with the
  entry's place and size. An empty part of a path, a leading
  separator too, is looked up as a name. A read of nothing at
  offset 0 and one whose end wraps (`iso9660.c:248`) copy from outside their buffer.

The services: a plugin whose callback changes the table under a call that waits for it
can leave a handle closed twice or an entry twice (`plugin.c:28-31`, `48-51`); the rest of a script
is dropped once one of its functions has run another (`lua.c:71`); a variable set twice
keeps its first value, and one whose name begins with the name of an earlier one is
answered with that one's (`script_env.c:17`); `arp.c` builds its request without an
Ethernet header and reads replies with one, takes any frame of the host asked for,
reply or not, and never forgets an address.

## 8. What is not modelled

* Ciphers, hashes and entropy (`security/`): numeric code for test vectors. The
  result of a verification is a choice.
* Drawing, fonts, themes and languages (`uefi/graphics.c`, `boot/theme.c`,
  `boot/localization.c`): no state another part depends on.
* Assembly that switches processor modes (`bios/stage2_loader.asm`,
  `BloodChain/*.asm`, `net/pxe_rm.asm`).
* `main.c:396-405`, two informational fields of the header that the wrapper writes itself
  and no code in the repository reads.
* `net/dhcp.c`, `net/tftp.c`, `net/net_utils.c`: each builds or reads one packet and keeps
  nothing; their failures are choices in `NetBoot`. `pxe_rm.asm` only moves registers.
* The bytes of a volume below what the drivers' properties tell apart: sectors within a
  cluster, the fields of descriptors that are only copied, extended attributes of ISO
  9660 records, the time stamps and owners `ext2_get_info` passes on.
* `lua_init` and `lua_add_function`, taken as done before the first script; what the 64 bytes
  of a script variable cut off its value; `plugin_list`, which prints.
* The recovery shell: commands that print. Its history stops growing when full.
* What is still to come is in the next section.

## 9. Plan

In order of weight, with the module, what it states, and what is worth proving:

1. done: `BootMenu`, `UefiBoot`, `BloodChain`, `BloodChainBoot`, `FsPath`,
   `MountTable`, `FsMount`, `FsCommon`, `Handoff`, and the proofs of section 6.
2. done: `DiskDriver`, `Fat32`, `Ext2`, `Iso9660` and `Volumes`; `NetBoot` over `Handoff`, with
   `limine.c`; `Plugins`, `Lua`, `NameTables`, `Arp` and `Services`. They have no recursive
   operators, so that they can be proved about.
3. done: proofs about the menu, the library and its wrapper, both filesystem layers with
   their refinement of `MountTable`, the four services, the network boot, the loaders'
   parameters, tags and entries, and the memory, look-ups, reads and listings of the drivers.
4. `LosesOnlyWithoutRoom` in one direction, by a lemma for each loader that within `Room`,
   and for sizes below the distance between its lowest addresses, its writes do not overlap.
5. Configuration precedence (`main.c:30-202`), path helpers of the filesystem layers, the
   boot sector's retries.
