------------------------------ MODULE Volumes ------------------------------
(***************************************************************************)
(* The three drivers on the volumes they are mounted on: one volume, the   *)
(* driver it was formatted for, and any number of calls in any order, with *)
(* any allocation and any disk read failing.  The properties compare what  *)
(* a call answers with what is on the disk.                                *)
(***************************************************************************)
EXTENDS Fat32, Ext2, Iso9660, FiniteSets, SequencesExt

Step == fat32_step \/ ext2_step \/ iso9660_step

Next == Call \/ Step \/ Take

\* A call runs until it returns: the loader has one processor and no preemption.
Spec == Init /\ [][Next]_vars /\ WF_vars(Step)

-----------------------------------------------------------------------------
(* What is on the disk *)

NotThere == [extent |-> -1]
Least(S) == CHOOSE n \in S : \A m \in S : n <= m
LeastOr(S, n) == IF S = {} THEN n ELSE Least(S)
Smaller(m, n) == IF m < n THEN m ELSE n

\* FAT32: the clusters from c on, as the table links them, and the entries in
\* the first n of them.
Links(c) ==
  LET link[n \in Nat] == IF n = 0 THEN c ELSE fat32_get_cluster(link[n - 1])
  IN  link
Contents(link, n) == FlattenSeq([i \in 1..n |-> vol.dir[link[i - 1]]])

\* How many of them can be read; a chain goes round after Eoc at most.
Loaded(link) == LeastOr({n \in 0..Eoc : ~Loads(link[n])}, Eoc)
GoesRound(c) == \A n \in 0..Eoc : Loads(Links(c)[n])

UpToEnd(all) == SubSeq(all, 1, LeastOr({i \in DOMAIN all : all[i].kind = "end"}, Len(all) + 1) - 1)
Directory(c) == UpToEnd(Contents(Links(c), Loaded(Links(c))))

Hits(entries, part) ==
  {i \in DOMAIN entries : Live(entries[i]) /\ entries[i].name = fatname(part)}

\* Where fat32_find_file ends: it looks every part of a path up in the root; the
\* last one is the answer, the root itself after a trailing slash.
EntryIn(root, path) ==
  LET part == path[Len(path)]
      e == root[Least(Hits(root, part))]
  IN  IF \E i \in DOMAIN path : path[i] # << >> /\ (Hits(root, path[i]) = {} \/ Len(path[i]) > MaxPart)
      THEN NotThere
      ELSE IF part = << >> THEN [cluster |-> mounted.root_dir_first_cluster, size |-> 0]
      ELSE [cluster |-> e.first, size |-> e.size]
FatEntry(path) == EntryIn(Directory(mounted.root_dir_first_cluster), path)

\* ext2: where the entries of a directory block are, each as many bytes behind
\* the one before as that one says, and the entries in that order.
Further(b, places) ==
  LET next == Last(places) + Entry(b, Last(places)).rec_len
  IN  IF Last(places) < next /\ next < mounted.block_size THEN Append(places, next) ELSE places
Places(b) ==
  LET places[n \in 0..mounted.block_size] ==
        IF n = 0 THEN << 0 >> ELSE Further(b, places[n - 1])
  IN  places[mounted.block_size]
Ext2Directory(b) == [i \in DOMAIN Places(b) |-> Entry(b, Places(b)[i])]

FirstNamed(entries, hits) ==
  IF hits = {} THEN NotThere ELSE [inode |-> entries[Least(hits)].inode]
InBlock(b, path) ==
  FirstNamed(Ext2Directory(b), {i \in DOMAIN Ext2Directory(b) : Named(Ext2Directory(b)[i], path)})

\* Where ext2_find_file ends: it looks at the first block of the root only.
Ext2Entry(path) ==
  IF call.op # "read" /\ path = RootPath THEN [inode |-> RootInode]
  ELSE IF ~Exists(RootInode) THEN NotThere
  ELSE InBlock(Inode(RootInode).block[1], path)

\* The blocks of an ext2 directory up to the first that is 0, and their entries.
DirectoryBlocks(blocks) == 1..(LeastOr({i \in 1..Direct : blocks[i] = 0}, Direct + 1) - 1)
Ext2Listing(blocks) == FlattenSeq([i \in DirectoryBlocks(blocks) |-> Ext2Directory(blocks[i])])

\* ISO 9660: the blocks of so many bytes, the records of a directory, and the
\* way a path leads part by part, over the first directory of its name at each.
BlocksOf(size) ==
  IF mounted.block_size = 0 THEN 0
  ELSE (size + mounted.block_size - 1) \div mounted.block_size
DirectoryRecords(extent, size) ==
  FlattenSeq([n \in 1..BlocksOf(size) |-> Records(U(extent + n - 1))])

PlaceIn(records, hits) ==
  IF hits = {} THEN NotThere
  ELSE [extent |-> records[Least(hits)].extent, size |-> records[Least(hits)].size]
Within(records, part, last) ==
  PlaceIn(records, {i \in DOMAIN records : Same(records[i], part) /\ (last \/ records[i].dir)})

Way(path) ==
  LET to[n \in 0..Len(path)] ==
        IF n = 0 THEN [extent |-> mounted.root, size |-> mounted.root_size]
        ELSE IF to[n - 1] = NotThere THEN NotThere
        ELSE Within(DirectoryRecords(to[n - 1].extent, to[n - 1].size), path[n], n = Len(path))
  IN  to
IsoEntry(path) == Way(path)[Len(path)]

\* The entry at which the look-up of the driver ends.
TheEntry ==
  CASE vol.driver = "fat32" -> FatEntry(call.path)
    [] vol.driver = "ext2" -> Ext2Entry(call.path)
    [] vol.driver = "iso9660" -> IsoEntry(call.path)

-----------------------------------------------------------------------------
(* What a path stands for, whatever the drivers look at *)

TheRoot ==
  CASE vol.driver = "fat32" -> [cluster |-> mounted.root_dir_first_cluster, size |-> 0]
    [] vol.driver = "ext2" -> [inode |-> RootInode]
    [] vol.driver = "iso9660" -> [extent |-> mounted.root, size |-> mounted.root_size]

\* The entry a part names in a directory: a directory, if the path goes on.
FatDeeper(place, part, last) ==
  LET all == Directory(place.cluster)
      hits == {i \in Hits(all, part) : all[i].kind = "dir" \/ (last /\ all[i].kind = "file")}
      e == all[Least(hits)]
  IN  IF hits = {} \/ Len(part) > MaxPart THEN NotThere
      ELSE [cluster |-> e.first, size |-> e.size]

Ext2Deeper(place, part) ==
  LET blocks == Inode(place.inode).block
      having == {i \in DirectoryBlocks(blocks) : InBlock(blocks[i], <<part>>) # NotThere}
  IN  IF ~Exists(place.inode) \/ Inode(place.inode).mode # "dir" \/ having = {} THEN NotThere
      ELSE InBlock(blocks[Least(having)], <<part>>)

Deeper(place, part, last) ==
  CASE vol.driver = "fat32" -> FatDeeper(place, part, last)
    [] vol.driver = "ext2" -> Ext2Deeper(place, part)
    [] vol.driver = "iso9660" ->
         Within(DirectoryRecords(place.extent, place.size), part, last)

\* Part by part from the root; an empty part stays where it is.
PathWay(path) ==
  LET to[n \in 0..Len(path)] ==
        IF n = 0 THEN TheRoot
        ELSE IF to[n - 1] = NotThere \/ path[n] = << >> THEN to[n - 1]
        ELSE Deeper(to[n - 1], path[n], n = Len(path))
  IN  to
PathEntry == PathWay(call.path)[Len(call.path)]

\* The name is in the first block of the root, or there is no other.
InFirstBlock(path) ==
  LET blocks == Inode(RootInode).block
  IN  /\ Inode(RootInode).mode = "dir" /\ blocks[1] # 0
      /\ InBlock(blocks[1], path) # NotThere \/ DirectoryBlocks(blocks) = {1}

\* The paths the drivers can follow.  FAT32: one name in the root, no volume
\* label (fat32.c:280, 297).  ext2: "/" when not read, one name in the first
\* block of the root (ext2.c:213).  ISO 9660: no empty part.
Followed ==
  CASE vol.driver = "fat32" ->
         LET root == Directory(mounted.root_dir_first_cluster)
         IN  /\ \A i \in 1..(Len(call.path) - 1) : call.path[i] = << >>
             /\ \A i \in Hits(root, Last(call.path)) : root[i].kind # "label"
    [] vol.driver = "ext2" ->
         \/ call.op # "read" /\ call.path = RootPath
         \/ /\ Len(call.path) = 1 /\ call.path[1] # << >>
            /\ Exists(RootInode) => InFirstBlock(call.path)
    [] vol.driver = "iso9660" -> \A i \in DOMAIN call.path : call.path[i] # << >>

Answered(op) == pc = "done" /\ call.op = op /\ ret.ok
Refuses(op) == pc = "done" /\ call.op = op /\ ~ret.ok /\ ~refused

-----------------------------------------------------------------------------
(* Properties *)

\* What get_info is to tell of entry e, and when a call may refuse it: the
\* kind of an ISO 9660 entry is that of a record with its extent and size.
TellsOf(e) ==
  CASE vol.driver = "fat32" -> ret.value.size = e.size
    [] vol.driver = "ext2" ->
         ret.value = [size |-> Inode(e.inode).size, is_dir |-> Inode(e.inode).mode = "dir"]
    [] vol.driver = "iso9660" ->
         /\ ret.value.size = e.size
         /\ \E b \in DOMAIN vol.blocks : \E r \in Range(vol.blocks[b]) :
              r.extent = e.extent /\ r.size = e.size /\ ret.value.is_dir = r.dir

MayRefuse(e) ==
  \/ e = NotThere
  \/ vol.driver = "ext2" /\ e.inode > mounted.group_count * mounted.inodes_per_group

\* On a path the driver can follow a look-up ends at the entry the path
\* stands for, and says that there is none only when there is none:
\* fat32_find_file, ext2_find_file, iso9660_find_entry over the turns of their
\* loops.  get_info tells the size and the kind of that entry, FAT32 the size
\* only: its kind is a bit of the cluster's number (fat32.c:153).
FindsTheEntry ==
  /\ pc = "found" /\ Followed => at = PathEntry
  /\ Refuses(IF vol.driver = "iso9660" THEN "list" ELSE "info") /\ Followed => MayRefuse(PathEntry)
  /\ Answered("info") /\ Followed => TellsOf(PathEntry)

\* Every path is followed part by part: "Otherwise, continue with next
\* component" (fat32.c:295).  FAT32 takes up the next one in the root again.
EveryPathIsFollowed ==
  /\ pc = "found" => at = PathEntry
  /\ Refuses("info") => MayRefuse(PathEntry)

\* The bytes a read has to give, and whether their end wraps.
Asked(size) == IF call.offset >= size THEN 0 ELSE Smaller(call.size, size - call.offset)
Wraps == call.offset + call.size >= Wrap

\* What is read: all that is asked for where the end wraps.
Most(size) == IF call.offset < size /\ Wraps THEN call.size ELSE Asked(size)

\* The n bytes from the offset on, where Block(i) is the i-th block of the file.
Window(n, Block(_), size) ==
  [k \in 0..(n - 1) |-> <<Block((call.offset + k) \div size), (call.offset + k) % size>>]

\* What is asked for and a cluster more do not fit into 32 bits.
Overflows(e) == Most(e.size) + mounted.bytes_per_cluster > Wrap

\* A chain shorter than its file ends the read.
FatReads(e) ==
  LET Block(i) == Links(e.cluster)[i]
      bytes == mounted.bytes_per_cluster
      behind == {k \in 0..(Asked(e.size) - 1) : Block((call.offset + k) \div bytes) >= Eoc}
  IN  ret.value = LeastOr(behind, Asked(e.size)) /\ out = Window(ret.value, Block, bytes)

Ext2Reads(file) ==
  LET Block(i) == file.block[i + 1]
  IN  /\ ret.value = Asked(file.size)
      /\ \A k \in 0..(ret.value - 1) : out[k] = Window(ret.value, Block, mounted.block_size)[k]

IsoReads(e) ==
  LET Block(i) == U(e.extent + i)
  IN  ret.value = Asked(e.size) /\ out = Window(ret.value, Block, mounted.block_size)

\* The read starts at 0 and asks for no more than the file has in its first block.
InTheFirstBlock(file) ==
  /\ call.offset = 0 /\ file.block[1] # 0
  /\ call.size <= Smaller(mounted.block_size, file.size)

GivesTheBytes(e) ==
  CASE vol.driver = "fat32" -> ~Wraps /\ ~Overflows(e) => FatReads(e)
    [] vol.driver = "ext2" -> InTheFirstBlock(Inode(e.inode)) => Ext2Reads(Inode(e.inode))
    [] vol.driver = "iso9660" -> ~Wraps => IsoReads(e)

\* A read of n bytes gives the n bytes of the file at the offset, as many as
\* were asked for and the file has: fat32_read, ext2_fs_read_file,
\* iso9660_read_file.  A FAT32 chain shorter than its file ends it.  Nothing is
\* said where the code is wrong: where offset + size wraps (fat32.c:24,
\* iso9660.c:248) or the count of bytes does (fat32.c:54), and of an ext2 read
\* that needs more than the first block from its start (ext2.c:357), which
\* EveryReadIsItsWindow shows.  ext2 writes that block whole.
ReadsTheWindow == Answered("read") /\ Followed => GivesTheBytes(PathEntry)

\* An ext2 read takes its offset into account: read_file of fs_common.h:40 has
\* one.  ext2_fs_read_file reads the first block for every piece.
EveryReadIsItsWindow ==
  Answered("read") /\ Followed => Ext2Reads(Inode(PathEntry.inode))

\* The first of these names that have room with two characters more, and no more.
Fits(names) ==
  LET ends[n \in 0..Len(names)] == IF n = 0 THEN 0 ELSE ends[n - 1] + Printed(names[n]) + 1
  IN  \E n \in 0..Len(names) :
        /\ \A i \in 1..n : ends[i] + 1 <= call.size
        /\ n < Len(names) => ends[n + 1] + 1 > call.size
        /\ ret.value = ends[n] /\ out = SubSeq(names, 1, n)

\* The names in the first n clusters, where the directory ends or the room.
\* A chain that goes round is listed again and again.
FatLists(link) ==
  \E n \in 0..(Eoc * (call.size + 1)) :
    LET all == Contents(link, n)
        names == NamesOf(UpToEnd(all), Live)
    IN  /\ \A i \in 0..(n - 1) : Loads(link[i])
        /\ Fits(names)
        /\ \/ Len(out) < Len(names)
           \/ \E i \in DOMAIN all : all[i].kind = "end"
           \/ link[n] >= Eoc

\* As many names as the caller has room for.
ListsNames(names) ==
  out = SubSeq(names, 1, Smaller(Len(names), call.size)) /\ ret.value = Len(out)

Used(e) == e.inode # 0

\* The offset of the next block of a directory of that many bytes may wrap.
OffsetWraps(size) == size + mounted.block_size > Wrap

Lists(e) ==
  CASE vol.driver = "fat32" -> FatLists(Links(e.cluster))
    [] vol.driver = "ext2" -> ListsNames(NamesOf(Ext2Listing(Inode(e.inode).block), Used))
    [] vol.driver = "iso9660" ->
         OffsetWraps(e.size) \/ ListsNames(NamesOf(DirectoryRecords(e.extent, e.size), Shown))

\* A listing gives the names of the directory in order, every one that has
\* room and none twice: fat32_read_dir up to the first that does not fit with
\* two characters more, ext2_list_dir of the blocks up to the first that is 0.
\* Nothing is said of an ISO 9660 directory so long that the offset wraps
\* (iso9660.c:301): its first blocks are listed again.
ListsTheDirectory == Answered("list") => Lists(TheEntry)

\* A call gives back the memory it took, on every path out of it, but for
\* ext2_mount when the group descriptors cannot be read (ext2.c:118).
MemoryGivenBack ==
  pc = "done" =>
    \/ Lost = call.lost
    \/ /\ vol.driver = "ext2" /\ call.op = "mount" /\ ~ret.ok /\ refused
       /\ Lost = [call.lost EXCEPT !["table"] = @ + 1]

\* The calls that may turn for ever: a FAT32 look-up or listing on a chain
\* that leads back to itself (fat32.c:84, 264), a FAT32 read whose count of
\* bytes wraps (fat32.c:54), an ext2 listing with an unused entry of length 0
\* (ext2.c:275), and a call on an ISO 9660 directory so long that the offset
\* of its blocks wraps (iso9660.c:170, 301).
Turns ==
  \/ /\ vol.driver = "fat32" /\ mounted # Nothing
     /\ \/ GoesRound(mounted.root_dir_first_cluster) /\ TheEntry = NotThere
        \/ /\ TheEntry # NotThere
           /\ \/ call.op = "read" /\ Overflows(TheEntry)
              \/ /\ call.op = "list" /\ GoesRound(TheEntry.cluster)
                 /\ NamesOf(Directory(TheEntry.cluster), Live) = << >>
  \/ /\ vol.driver = "ext2" /\ call.op = "list"
     /\ \/ \E b \in DOMAIN vol.dirs : \E o \in DOMAIN vol.dirs[b] :
             vol.dirs[b][o].inode = 0 /\ vol.dirs[b][o].rec_len = 0
        \/ /\ TheEntry # NotThere /\ Exists(TheEntry.inode)
           /\ \E b \in Range(Inode(TheEntry.inode).block) : b \notin DOMAIN vol.dirs \cup {0}
  \/ /\ vol.driver = "iso9660" /\ mounted # Nothing
     /\ \/ OffsetWraps(mounted.root_size)
        \/ \E b \in DOMAIN vol.blocks : \E r \in Range(vol.blocks[b]) : OffsetWraps(r.size)

\* The calls that may divide by zero or leave their buffers: a volume mounted
\* with a geometry of zeros (fat32.c:30, 173, 342, ext2.c:48, 60 and 146,
\* iso9660.c:88, 171, 378), a part of a path too long for iso9660_find_entry
\* (iso9660.c:161) and an ISO 9660 read that asks for nothing at 0 or wraps
\* (iso9660.c:254).
Undefines ==
  CASE vol.driver = "fat32" ->
         (call.op = "mount" /\ vol.sectors_per_cluster = 0) \/ vol.bytes_per_sector = 0
    [] vol.driver = "ext2" ->
         vol.blocks_per_group = 0 \/ vol.inodes_per_group = 0 \/ vol.block_size = 0
    [] vol.driver = "iso9660" ->
         \/ vol.block_size = 0
         \/ call.op = "info" /\ vol.block_size < SlotSize
         \/ \E i \in DOMAIN call.path : Len(call.path[i]) > MaxPart
         \/ call.op = "read" /\ (Wraps \/ (call.size = 0 /\ call.offset = 0))

\* Every other call returns, whatever the disk and the allocator refuse.
CallsReturn ==
  pc # "idle" /\ ~Turns ~> pc = "done" \/ (pc = "undefined" /\ Undefines)
=============================================================================
