-------------------------------- MODULE Ext2 --------------------------------
(***************************************************************************)
(* The ext2 driver of fs/ext2.c.  A volume of it is a record: fields of    *)
(* the superblock, gd[group], the inode table block in the descriptors as  *)
(* the driver reads them, inodes[b][o + 1], what lies at byte o of block b *)
(* read as an inode, and dirs[b], the directory entry at each offset of    *)
(* block b.  Other blocks read as zeros there.  The bytes of a file are    *)
(* named by their block.                                                   *)
(***************************************************************************)
EXTENDS DiskDriver

CONSTANTS
  Direct,       \* direct blocks of an inode the driver follows (12)
  RootInode,    \* 2
  FirstInode    \* s_first_ino of a revision 0 volume (11)

Ext2Inodes == [mode : {"none", "file", "dir"}, size : 0..(Wrap - 1), block : [1..Direct -> Nat]]
Ext2Entries == [inode : Nat, rec_len : Nat, name : Seq(STRING)]

\* Any contents of a disk read as the driver reads them.
Ext2Volume(v) ==
  /\ v.block_size \in Nat /\ v.blocks_count \in Nat
  /\ v.blocks_per_group \in Nat /\ v.inodes_per_group \in Nat
  /\ \A b \in DOMAIN v.inodes : v.inodes[b] \in Seq(Ext2Inodes)
  /\ \A b \in DOMAIN v.dirs : v.dirs[b] \in [0..(v.block_size - 1) -> Ext2Entries]

ASSUME Ext2Assumption ==
  /\ Direct \in Nat \ {0} /\ RootInode \in Nat \ {0}
  /\ \A d \in DOMAIN Disks : Disks[d].driver = "ext2" => Ext2Volume(Disks[d])

NoInode == [mode |-> "none", size |-> 0, block |-> [i \in 1..Direct |-> 0]]
NoEntry == [inode |-> 0, rec_len |-> 0, name |-> << >>]

ext2_detect ==
  /\ pc = "detect"
  /\ UNCHANGED <<mounted, out>>
  /\ \/ Return(Ok(FALSE), held) /\ refused' = TRUE
     \/ /\ Return(Ok(vol.magic /\ (vol.rev_level = 0 => vol.first_ino = FirstInode)), held)
        /\ UNCHANGED refused

\* ext2_mount and what it reads: the superblock, then the group descriptors.
\* When these cannot be read their block of memory stays.
ext2_mount ==
  /\ pc = "mount"
  /\ \/ Give(held, TRUE)
     \/ ~vol.magic /\ Give(held, FALSE)
     \/ vol.magic /\ (vol.blocks_per_group = 0 \/ vol.block_size = 0) /\ Undefine
     \/ /\ vol.magic /\ vol.blocks_per_group # 0 /\ vol.block_size # 0
        /\ Give(Taking("table"), TRUE)
     \/ /\ vol.magic /\ vol.blocks_per_group # 0 /\ vol.block_size # 0
        /\ mounted' = [table |-> TRUE, block_size |-> vol.block_size,
                       inodes_per_group |-> vol.inodes_per_group,
                       inode_size |-> vol.inode_size,
                       group_count |-> U(vol.blocks_count + vol.blocks_per_group - 1)
                                       \div vol.blocks_per_group]
        /\ Return(Ok(0), [held EXCEPT !["priv"] = @ + 1, !["table"] = @ + 1])
        /\ UNCHANGED <<out, refused>>

ext2_unmount ==
  /\ pc = "unmount"
  /\ mounted' = Nothing
  /\ Return(Ok(0), [held EXCEPT !["priv"] = @ - 1, !["table"] = @ - 1])
  /\ UNCHANGED <<out, refused>>

\* Where ext2_read_inode finds an inode: a block and the byte in it.
InodePlace(n) ==
  LET bytes == ((n - 1) % mounted.inodes_per_group) * mounted.inode_size
  IN  [block |-> vol.gd[(n - 1) \div mounted.inodes_per_group] + bytes \div mounted.block_size,
       slot |-> 1 + (bytes % mounted.block_size)]

InodeAt(b, slot) ==
  IF b \in DOMAIN vol.inodes /\ slot \in DOMAIN vol.inodes[b] THEN vol.inodes[b][slot] ELSE NoInode
Inode(n) == LET p == InodePlace(n) IN InodeAt(p.block, p.slot)

\* ext2_read_inode finds the inode.
Exists(n) ==
  /\ n # 0 /\ mounted.inodes_per_group # 0
  /\ (n - 1) \div mounted.inodes_per_group < mounted.group_count

\* It fails, and so does its caller; its block of memory lives within.
ext2_read_inode(n) ==
  \/ n # 0 /\ mounted.inodes_per_group = 0 /\ Undefine
  \/ ~(n # 0 /\ mounted.inodes_per_group = 0) /\ ~Exists(n) /\ Give(held, FALSE)
  \/ Exists(n) /\ Give(held, TRUE)

-----------------------------------------------------------------------------
(* ext2_find_file: the first block of the root directory, entry by entry *)

EnterRoot(inode) ==
  \/ Give(held, TRUE)
  \/ Goto("entry", [block |-> inode.block[1], offset |-> 0]) /\ UNCHANGED <<out, held>>

\* list_dir and get_info know "/"; read looks it up like any other name.
ext2_open ==
  /\ pc = "open"
  /\ \/ /\ call.op # "read" /\ call.path = RootPath
        /\ Goto("found", [inode |-> RootInode]) /\ UNCHANGED <<out, held>>
     \/ /\ ~(call.op # "read" /\ call.path = RootPath)
        /\ ext2_read_inode(RootInode) \/ (Exists(RootInode) /\ EnterRoot(Inode(RootInode)))

\* The entry of a directory at an offset of its block.
Entry(b, offset) == IF b \in DOMAIN vol.dirs THEN vol.dirs[b][offset] ELSE NoEntry

\* A name has no slash in it: only a path of one part can be equal to it.
Named(e, path) == e.inode # 0 /\ path = <<e.name>>

\* Mutant: an entry of length 0 does not end the search.
NeverLast(e) == FALSE

\* An entry that leads nowhere ends the search.
Terminal(e) == e.rec_len = 0

ext2_find_file ==
  LET e == Entry(at.block, at.offset)
  IN  /\ pc = "entry"
      /\ \/ at.offset >= mounted.block_size /\ Give(held, FALSE)
         \/ /\ at.offset < mounted.block_size /\ Named(e, call.path)
            /\ Goto("found", [inode |-> e.inode]) /\ UNCHANGED <<out, held>>
         \/ /\ at.offset < mounted.block_size /\ ~Named(e, call.path) /\ Terminal(e)
            /\ Give(held, FALSE)
         \/ /\ at.offset < mounted.block_size /\ ~Named(e, call.path) /\ ~Terminal(e)
            /\ Goto("entry", [at EXCEPT !.offset = @ + e.rec_len]) /\ UNCHANGED <<out, held>>

-----------------------------------------------------------------------------
(* The operations *)

Tell(inode) ==
  /\ Return(Ok([size |-> inode.size, is_dir |-> inode.mode = "dir"]), held)
  /\ UNCHANGED <<mounted, out, refused>>

ext2_get_info ==
  /\ pc = "found" /\ call.op = "info"
  /\ ext2_read_inode(at.inode) \/ (Exists(at.inode) /\ Tell(Inode(at.inode)))

ext2_fs_read_file ==
  /\ pc = "found" /\ call.op = "read"
  /\ Goto("chunk", [inode |-> at.inode, pos |-> 0, remaining |-> call.size])
  /\ UNCHANGED <<out, held>>

\* ext2_read_file with room for n bytes, at most a block: whatever n, the
\* file's first block goes whole to the place asked for, if there is one.
Chunk(inode) ==
  LET n == IF at.remaining > mounted.block_size THEN mounted.block_size ELSE at.remaining
      b == inode.block[1]
      some == inode.size > 0 /\ b # 0
      Went == Goto("chunk", [at EXCEPT !.pos = @ + n, !.remaining = @ - n])
  IN  \/ some /\ Give(held, TRUE)
      \/ /\ some /\ Went
         /\ out' = Written([k \in at.pos..(at.pos + mounted.block_size - 1) |-> <<b, k - at.pos>>])
         /\ UNCHANGED held
      \/ ~some /\ Went /\ UNCHANGED <<out, held>>

ext2_read_file ==
  /\ pc = "chunk"
  /\ \/ /\ at.remaining = 0
        /\ Return(Ok(at.pos), held) /\ UNCHANGED <<mounted, out, refused>>
     \/ at.remaining > 0 /\ ext2_read_inode(at.inode)
     \/ at.remaining > 0 /\ Exists(at.inode) /\ Chunk(Inode(at.inode))

EnterDir(inode) ==
  \/ inode.mode # "dir" /\ Give(held, FALSE)
  \/ inode.mode = "dir" /\ Give(held, TRUE)
  \/ /\ inode.mode = "dir"
     /\ Goto("block", [block |-> inode.block, i |-> 1, offset |-> 0])
     /\ held' = Taking("buf")
     /\ UNCHANGED out

ext2_list_dir ==
  /\ pc = "found" /\ call.op = "list"
  /\ ext2_read_inode(at.inode) \/ (Exists(at.inode) /\ EnterDir(Inode(at.inode)))

\* The next direct block of the directory.
ext2_list_block ==
  LET more == at.i <= Direct /\ at.block[at.i] # 0
  IN  /\ pc = "block"
      /\ \/ /\ ~more
            /\ Return(Ok(Len(out)), Giving("buf")) /\ UNCHANGED <<mounted, out, refused>>
         \/ more /\ Give(Giving("buf"), TRUE)
         \/ more /\ Goto("record", [at EXCEPT !.offset = 0]) /\ UNCHANGED <<out, held>>

\* The next entry of the block: an unused one of length 0 keeps its place.
ext2_list_record ==
  LET more == at.offset < mounted.block_size /\ Len(out) < call.size
      e == Entry(at.block[at.i], at.offset)
      Onward == Goto("record", [at EXCEPT !.offset = @ + e.rec_len])
      NextBlock == Goto("block", [at EXCEPT !.i = @ + 1])
  IN  /\ pc = "record"
      /\ UNCHANGED held
      /\ \/ ~more /\ NextBlock /\ UNCHANGED out
         \/ more /\ e.inode = 0 /\ Onward /\ UNCHANGED out
         \/ /\ more /\ e.inode # 0
            /\ out' = Append(out, e.name)
            /\ IF Terminal(e) THEN NextBlock ELSE Onward

ext2_step ==
  /\ vol.driver = "ext2"
  /\ \/ ext2_detect \/ ext2_mount \/ ext2_unmount
     \/ ext2_open \/ ext2_find_file \/ ext2_get_info
     \/ ext2_fs_read_file \/ ext2_read_file
     \/ ext2_list_dir \/ ext2_list_block \/ ext2_list_record
=============================================================================
