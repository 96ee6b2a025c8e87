------------------------------- MODULE Fat32 -------------------------------
(***************************************************************************)
(* The FAT32 driver of fs/fat32.c.  A volume of it is a record: the boot   *)
(* sector's fields, fat[c], the entry of cluster c in the allocation       *)
(* table or what lies there past its end, and dir[c], what cluster c holds *)
(* read as directory entries.  read_sector returns nothing, so a read      *)
(* never fails here; a sector of the table is taken to fit its buffer.     *)
(***************************************************************************)
EXTENDS DiskDriver

CONSTANTS
  Eoc,         \* clusters from here end a chain (0x0FFFFFF8 in the code)
  Stem, Ext,   \* characters of an 8.3 name before and after the dot (8 and 3)
  DirBit,      \* ATTR_DIRECTORY (0x10)
  SectorSizes, ClusterSizes   \* the powers of two that fat32_detect accepts

FatNames == {n \in [stem : Seq(STRING), ext : Seq(STRING)] : Len(n.stem) <= Stem /\ Len(n.ext) <= Ext}
FatEntries ==
  [kind : {"file", "dir", "label", "deleted", "long", "end"}, name : FatNames,
   first : Nat, size : 0..(Wrap - 1)]

\* Any contents of a disk read as the driver reads them.
FatVolume(v) ==
  /\ v.fat \in [0..(Eoc - 1) -> Nat] /\ v.dir \in [0..(Eoc - 1) -> Seq(FatEntries)]
  /\ v.root_cluster \in Nat /\ v.bytes_per_sector \in Nat /\ v.sectors_per_cluster \in Nat

ASSUME Fat32Assumption ==
  /\ Eoc \in Nat /\ Stem \in Nat /\ Ext \in Nat /\ DirBit \in Nat \ {0}
  /\ \A r \in Rooms : r + Stem + Ext + 3 < Wrap
  /\ \A d \in DOMAIN Disks : Disks[d].driver = "fat32" => FatVolume(Disks[d])

Cut(s, n) == SubSeq(s, 1, IF Len(s) < n THEN Len(s) ELSE n)

\* The 8.3 name of a part: split at the first dot, both pieces cut, in capitals.
fatname(part) ==
  LET dots == {i \in DOMAIN part : part[i] = "."}
      dot == IF dots = {} THEN Len(part) + 1 ELSE CHOOSE i \in dots : \A j \in dots : i <= j
  IN  [stem |-> Capital(Cut(SubSeq(part, 1, dot - 1), Stem)),
       ext |-> Capital(Cut(SubSeq(part, dot + 1, Len(part)), Ext))]

\* The characters read_dir prints of a name.
Printed(name) == Len(name.stem) + (IF name.ext = << >> THEN 0 ELSE 1 + Len(name.ext))

\* What follows cluster c, behind a division by the size of a sector.
fat32_get_cluster(c) == IF c >= Eoc THEN Eoc ELSE vol.fat[c]

\* fat32_read_cluster accepts the clusters of the data area.
Readable(c) == c >= 2 /\ c < U(mounted.total_clusters + 2)

\* A search or listing that comes to cluster c reads it.
Loads(c) == c < Eoc /\ Readable(c)

\* A volume with sectors of no bytes, on which the next cluster is undefined.
Hollow == mounted.bytes_per_cluster = 0

Live(e) == e.kind \in {"file", "dir", "label"}

-----------------------------------------------------------------------------

fat32_detect ==
  /\ pc = "detect"
  /\ Return(Ok(vol.signature /\ vol.fs_type /\ vol.bytes_per_sector \in SectorSizes
               /\ vol.sectors_per_cluster \in ClusterSizes), held)
  /\ UNCHANGED <<mounted, out, refused>>

\* A field of zero means that the 16-bit field has the value.
Either(long, short) == IF long # 0 THEN long ELSE short

fat32_mount ==
  LET meta == vol.reserved_sectors
              + vol.num_fats * Either(vol.sectors_per_fat_32, vol.sectors_per_fat_16)
      sectors == U(Either(vol.total_sectors_32, vol.total_sectors_16) - meta)
  IN  /\ pc = "mount"
      /\ \/ Give(held, TRUE)
         \/ ~vol.signature /\ Give(held, FALSE)
         \/ vol.signature /\ vol.sectors_per_cluster = 0 /\ Undefine
         \/ /\ vol.signature /\ vol.sectors_per_cluster # 0
            /\ mounted' = [table |-> FALSE,
                           bytes_per_cluster |-> vol.bytes_per_sector * vol.sectors_per_cluster,
                           root_dir_first_cluster |-> vol.root_cluster,
                           total_clusters |-> sectors \div vol.sectors_per_cluster]
            /\ Return(Ok(0), Taking("priv"))
            /\ UNCHANGED <<out, refused>>

fat32_unmount ==
  /\ pc = "unmount"
  /\ mounted' = Nothing
  /\ Return(Ok(0), Giving("priv"))
  /\ UNCHANGED <<out, refused>>

-----------------------------------------------------------------------------
(* fat32_find_file *)

\* The parts of a path from its first that is not empty: leading slashes skipped.
SkipSlashes(path) ==
  LET named == {i \in DOMAIN path : path[i] # << >>}
  IN  IF named = {} THEN << >>
      ELSE SubSeq(path, CHOOSE i \in named : \A j \in named : i <= j, Len(path))

\* Where a look-up starts, the first and every part of the path: the root.
Look(path) ==
  LET rest == SkipSlashes(path)
  IN  \/ /\ rest = << >>
         /\ Goto("found", [cluster |-> mounted.root_dir_first_cluster, size |-> 0])
         /\ UNCHANGED <<out, held>>
      \/ rest # << >> /\ Len(rest[1]) > MaxPart /\ Give(held, FALSE)
      \/ rest # << >> /\ Len(rest[1]) <= MaxPart /\ Give(held, TRUE)
      \/ /\ rest # << >> /\ Len(rest[1]) <= MaxPart
         /\ Goto("search", [cluster |-> mounted.root_dir_first_cluster, rest |-> rest])
         /\ held' = Taking("buf")
         /\ UNCHANGED out

fat32_open == pc = "open" /\ Look(call.path)
fat32_next_part == pc = "part" /\ Look(at.rest)

\* Mutant: the search goes past the end of the directory.
FirstLive(entries, name) ==
  {i \in DOMAIN entries : Live(entries[i]) /\ entries[i].name = name
     /\ \A j \in 1..(i - 1) : ~(Live(entries[j]) /\ entries[j].name = name)}

\* The entry of that name before the directory's end in one cluster, if any.
FirstOf(entries, name) ==
  {i \in DOMAIN entries : Live(entries[i]) /\ entries[i].name = name
     /\ \A j \in 1..(i - 1) : entries[j].kind # "end"
                              /\ ~(Live(entries[j]) /\ entries[j].name = name)}

\* One cluster of the directory searched.
fat32_find_file ==
  LET c == at.cluster
      entries == vol.dir[c]
      hit == FirstOf(entries, fatname(at.rest[1]))
  IN  /\ pc = "search"
      /\ \/ ~Loads(c) /\ Give(Giving("buf"), FALSE)
         \/ Loads(c) /\ Hollow /\ Undefine
         \/ /\ Loads(c) /\ ~Hollow /\ hit = {}
            /\ \E i \in DOMAIN entries : entries[i].kind = "end"
            /\ Give(Giving("buf"), FALSE)
         \/ /\ Loads(c) /\ ~Hollow /\ hit = {}
            /\ \A i \in DOMAIN entries : entries[i].kind # "end"
            /\ Goto("search", [at EXCEPT !.cluster = fat32_get_cluster(c)])
            /\ UNCHANGED <<out, held>>
         \/ /\ Loads(c) /\ ~Hollow
            /\ \E i \in hit :
                 IF Len(at.rest) = 1
                 THEN Goto("found", [cluster |-> entries[i].first, size |-> entries[i].size])
                 ELSE Goto("part", [rest |-> Tail(at.rest)])
            /\ held' = Giving("buf")
            /\ UNCHANGED out

-----------------------------------------------------------------------------
(* The operations *)

fat32_get_info ==
  /\ pc = "found" /\ call.op = "info"
  /\ Return(Ok([size |-> at.size, is_dir |-> (at.cluster \div DirBit) % 2 = 1]), held)
  /\ UNCHANGED <<mounted, out, refused>>

fat32_read ==
  /\ pc = "found" /\ call.op = "read"
  /\ \/ /\ call.offset >= at.size
        /\ Return(Ok(0), held) /\ UNCHANGED <<mounted, out, refused>>
     \/ call.offset < at.size /\ Hollow /\ Undefine
     \/ /\ call.offset < at.size /\ ~Hollow
        /\ Goto("skip", [cluster |-> at.cluster,
                         left |-> call.offset \div mounted.bytes_per_cluster,
                         from |-> call.offset % mounted.bytes_per_cluster,
                         size |-> CutSize(call.size, call.offset, at.size), bytes_read |-> 0])
        /\ UNCHANGED <<out, held>>

\* One cluster skipped on the way to the offset.
fat32_skip ==
  /\ pc = "skip"
  /\ \/ at.left = 0 /\ Goto("copy", at) /\ UNCHANGED <<out, held>>
     \/ /\ at.left > 0 /\ fat32_get_cluster(at.cluster) >= Eoc
        /\ Give(held, FALSE)
     \/ /\ at.left > 0 /\ fat32_get_cluster(at.cluster) < Eoc
        /\ Goto("skip", [at EXCEPT !.cluster = fat32_get_cluster(@), !.left = @ - 1])
        /\ UNCHANGED <<out, held>>

\* One cluster copied; its buffer lives within the turn.
fat32_copy ==
  LET room == mounted.bytes_per_cluster - at.from
      n == IF U(at.bytes_read + room) > at.size THEN at.size - at.bytes_read ELSE room
      more == at.bytes_read < at.size /\ at.cluster < Eoc
  IN  /\ pc = "copy"
      /\ \/ ~more /\ Return(Ok(at.bytes_read), held) /\ UNCHANGED <<mounted, out, refused>>
         \/ more /\ Give(held, TRUE)
         \/ more /\ ~Readable(at.cluster) /\ Give(held, FALSE)
         \/ /\ more /\ Readable(at.cluster)
            /\ out' = Written([k \in at.bytes_read..(at.bytes_read + n - 1) |->
                                 <<at.cluster, at.from + k - at.bytes_read>>])
            /\ Goto("copy", [at EXCEPT !.cluster = fat32_get_cluster(@), !.from = 0,
                                       !.bytes_read = U(@ + n)])
            /\ UNCHANGED held

fat32_read_dir ==
  /\ pc = "found" /\ call.op = "list"
  /\ \/ Give(held, TRUE)
     \/ /\ Goto("list", [cluster |-> at.cluster, offset |-> 0])
        /\ held' = Taking("buf")
        /\ UNCHANGED out

\* Mutant: one character is kept, not two.
Over(used, name, size) == U(used + Printed(name) + 1) > size

\* A name that has no room with its newline and one character more.
Full(used, name, size) == U(used + Printed(name) + 2) > size

\* The names of the first i entries of a cluster, and whether the listing ends there.
Listed(entries, used, names, size) ==
  LET step[i \in 0..Len(entries)] ==
        IF i = 0 THEN [names |-> names, offset |-> used, over |-> FALSE]
        ELSE LET was == step[i - 1]
                 e == entries[i]
             IN  IF was.over \/ (e.kind # "end" /\ ~Live(e)) THEN was
                 ELSE IF e.kind = "end" \/ Full(was.offset, e.name, size)
                      THEN [was EXCEPT !.over = TRUE]
                 ELSE [names |-> Append(was.names, e.name),
                       offset |-> was.offset + Printed(e.name) + 1, over |-> FALSE]
  IN  step[Len(entries)]

\* One cluster of the directory listed.
fat32_list ==
  LET c == at.cluster
      now == Listed(vol.dir[c], at.offset, out, call.size)
  IN  /\ pc = "list"
      /\ \/ /\ c >= Eoc
            /\ Return(Ok(at.offset), Giving("buf")) /\ UNCHANGED <<mounted, out, refused>>
         \/ c < Eoc /\ ~Readable(c) /\ Give(Giving("buf"), FALSE)
         \/ Loads(c) /\ Hollow /\ Undefine
         \/ /\ Loads(c) /\ ~Hollow
            /\ out' = now.names
            /\ IF now.over
               THEN Return(Ok(now.offset), Giving("buf")) /\ UNCHANGED <<mounted, refused>>
               ELSE /\ Goto("list", [cluster |-> fat32_get_cluster(c), offset |-> now.offset])
                    /\ UNCHANGED held

fat32_step ==
  /\ vol.driver = "fat32"
  /\ \/ fat32_detect \/ fat32_mount \/ fat32_unmount
     \/ fat32_open \/ fat32_next_part \/ fat32_find_file
     \/ fat32_get_info \/ fat32_read \/ fat32_skip \/ fat32_copy
     \/ fat32_read_dir \/ fat32_list
=============================================================================
