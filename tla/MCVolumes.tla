----------------------------- MODULE MCVolumes -----------------------------
(* Volumes of a few clusters and blocks, with what a good formatter and a  *)
(* damaged disk put there.  The volumes of a kind are a function of the    *)
(* sound one, which TLC's coverage then counts once and not once for each. *)
EXTENDS Volumes

MCUpper(c) == CASE c = "a" -> "A" [] c = "b" -> "B" [] OTHER -> c

\* "a", "/a", "b/a", "b/", "", "/", "aab", "a.b" and a part too long
MCPaths ==
  {<< <<"a">> >>, << << >>, <<"a">> >>, << <<"b">>, <<"a">> >>, << <<"b">>, << >> >>,
   << << >> >>, RootPath, << <<"a", "a", "b">> >>, << <<"a", ".", "b">> >>,
   << <<"a", "a", "a", "a">> >>}

\* FAT32: bytes of one, two to a cluster; clusters 2..6.
Name(stem, ext) == [stem |-> stem, ext |-> ext]
FatE(kind, name, first, size) == [kind |-> kind, name |-> name, first |-> first, size |-> size]
Deleted == FatE("deleted", Name(<<"A">>, << >>), 6, 1)
LongName == FatE("long", Name(<<"B">>, << >>), 0, 0)
End == FatE("end", Name(<< >>, << >>), 0, 0)
FileA == FatE("file", Name(<<"A">>, << >>), 4, 3)
FileAA == FatE("file", Name(<<"A", "A">>, << >>), 0, 0)
FileAB == FatE("file", Name(<<"A">>, <<"B">>), 5, 2)
DirB == FatE("dir", Name(<<"B">>, << >>), 6, 0)
FatDirs == (2 :> <<Deleted, FileA>>) @@ (3 :> <<LongName, DirB>>) @@ (6 :> <<FileAA, End>>)
           @@ [c \in 0..11 |-> <<End>>]
FatChains == (2 :> 3) @@ (4 :> 5) @@ [c \in 0..11 |-> 12]
FatV == [driver |-> "fat32", signature |-> TRUE, fs_type |-> TRUE, bytes_per_sector |-> 1,
        sectors_per_cluster |-> 2, reserved_sectors |-> 1, num_fats |-> 2,
        sectors_per_fat_32 |-> 1, sectors_per_fat_16 |-> 2, total_sectors_32 |-> 13,
        total_sectors_16 |-> 0, root_cluster |-> 2, fat |-> FatChains, dir |-> FatDirs]

FatLong ==
  [FatV EXCEPT !.bytes_per_sector = 2, !.sectors_per_cluster = 1, !.total_sectors_32 = 15,
               !.dir[2] = <<FatE("file", Name(<<"A">>, << >>), 3, 15), FatE("dir", Name(<<"B">>, << >>), 12, 0)>>,
               !.dir[3] = <<FatE("file", Name(<<"A">>, <<"B">>), 12, 4), End>>,
               !.fat = (2 :> 12) @@ (11 :> 12) @@ [c \in 0..11 |-> c + 1]]
FatVolumes == [f \in {FatV}, g \in {FatLong} |->
  << f,
    [f EXCEPT !.signature = FALSE],
    [f EXCEPT !.fs_type = FALSE, !.total_sectors_32 = 0, !.total_sectors_16 = 13],
    [f EXCEPT !.sectors_per_cluster = 0],
    [f EXCEPT !.sectors_per_fat_32 = 0],                           \* one cluster fewer
    [f EXCEPT !.total_sectors_32 = 2],                             \* fewer than its tables
    [f EXCEPT !.dir[3] = <<FileAA, FileAB>>],
    [f EXCEPT !.dir[3] = <<End, FileAB>>],
    [f EXCEPT !.fat[3] = 2, !.fat[5] = 4],                         \* root and file go round
    [f EXCEPT !.dir[6] = <<Deleted, LongName>>, !.fat[6] = 6],  \* nothing to list, for ever
    [f EXCEPT !.dir[6] = <<FileA, FileAB>>, !.fat[6] = 6],
    [f EXCEPT !.fat[4] = 12],                                      \* a chain shorter than its file
    [f EXCEPT !.fat[4] = 9, !.fat[9] = 6],                         \* one that leaves the volume
    [f EXCEPT !.fat[2] = 9, !.fat[9] = 3],                         \* and comes back
    [f EXCEPT !.bytes_per_sector = 0],
    g,                                                             \* more bytes than 32 bits count
    [g EXCEPT !.fat[11] = 3],
    [f EXCEPT !.dir[2] = <<FatE("file", Name(<<"A">>, << >>), 1, 3), FatE("label", Name(<<"B">>, << >>), 9, 4)>>] >>][FatV, FatLong]

\* ext2: blocks of two units, a directory entry one or two, an inode one.
ExtE(inode, rec_len, name) == [inode |-> inode, rec_len |-> rec_len, name |-> name]
ExtI(mode, size, block) == [mode |-> mode, size |-> size, block |-> block]
ExtDir(e1, e2) == (0 :> e1) @@ (1 :> e2)
ExtInodes ==
  (1 :> <<ExtI("none", 0, <<0, 0>>), ExtI("dir", 4, <<3, 5>>)>>)
  @@ (2 :> <<ExtI("file", 3, <<6, 7>>), ExtI("dir", 2, <<5, 0>>)>>)
ExtDirs ==
  (3 :> ExtDir(ExtE(3, 1, <<"a">>), ExtE(4, 1, <<"b">>)))
  @@ (5 :> ExtDir(ExtE(0, 1, <<"c">>), ExtE(3, 1, <<"a", ".", "b">>)))
ExtV == [driver |-> "ext2", magic |-> TRUE, rev_level |-> 0, first_ino |-> 11,
        block_size |-> 2, inode_size |-> 1, blocks_count |-> 7, blocks_per_group |-> 4,
        inodes_per_group |-> 2, gd |-> (0 :> 1) @@ (1 :> 2), inodes |-> ExtInodes,
        dirs |-> ExtDirs]

ExtVolumes == [e \in {ExtV} |->
  << e,
    [e EXCEPT !.magic = FALSE],
    [e EXCEPT !.first_ino = 12],
    [e EXCEPT !.rev_level = 1, !.first_ino = 12],
    [e EXCEPT !.blocks_per_group = 0],
    [e EXCEPT !.inodes_per_group = 0],
    [e EXCEPT !.block_size = 0, !.dirs = << >>],
    [e EXCEPT !.blocks_count = 0],                                 \* no group, no root directory
    [e EXCEPT !.inodes[1][2].block = <<3, 6>>],                    \* not a directory's block
    [e EXCEPT !.inodes[2][1].block = <<6, 6>>],                    \* one block twice
    [e EXCEPT !.blocks_count = 4],                                 \* one group: inode 3 is out
    [e EXCEPT !.dirs[3][1] = ExtE(3, 2, <<"a">>)],
    [e EXCEPT !.dirs[3][0] = ExtE(4, 0, <<"b">>)],                 \* the last entry read
    [e EXCEPT !.dirs[5][0] = ExtE(0, 0, <<"c">>)],                 \* never left
    [e EXCEPT !.inodes[2][1] = ExtI("file", 3, <<0, 7>>)],     \* a hole
    [e EXCEPT !.inodes[2][1] = ExtI("file", 0, <<6, 0>>)],
    [e EXCEPT !.inodes[2][1] = ExtI("file", 1, <<6, 0>>)] >>][ExtV]

\* ISO 9660: blocks of two bytes.
IsoR(name, extent, size, dir) ==
  [name |-> name, dot |-> FALSE, extent |-> extent, size |-> size, dir |-> dir]
Dot(extent, size) == [IsoR(<<"0">>, extent, size, TRUE) EXCEPT !.dot = TRUE]
IsoBlocks ==
  (1 :> <<Dot(1, 3), IsoR(<<"A">>, 4, 3, FALSE), IsoR(<<"B">>, 6, 1, FALSE)>>)
  @@ (2 :> <<IsoR(<<"b">>, 3, 2, TRUE), IsoR(<<"A", ".", "B">>, 0, 0, FALSE)>>)
  @@ (3 :> <<Dot(3, 2), IsoR(<<"a">>, 6, 2, FALSE)>>)
IsoV == [driver |-> "iso9660", detected |-> "primary", descriptors |-> <<"other", "primary">>,
        block_size |-> 2, root_extent |-> 1, root_size |-> 3, blocks |-> IsoBlocks]

IsoVolumes == [i \in {IsoV} |->
  << i,
    [i EXCEPT !.detected = "other"],
    [i EXCEPT !.descriptors = <<"terminator", "primary">>],
    [i EXCEPT !.descriptors = <<"other", "other", "other", "primary">>],
    [i EXCEPT !.block_size = 0],
    [i EXCEPT !.block_size = 1],
    [i EXCEPT !.block_size = 4, !.root_extent = 2],
    [i EXCEPT !.root_extent = 9],                                  \* kept in one byte
    [i EXCEPT !.root_size = 15],                                   \* the offset wraps
    [i EXCEPT !.blocks[1][2] = IsoR(<<"A">>, 2, 15, TRUE)],
    [i EXCEPT !.blocks[1][2] = IsoR(<<"A">>, 15, 3, FALSE)],   \* and the number of a block
    [i EXCEPT !.root_size = 2] >>][IsoV]

\* "b/a", which no sound volume here has, and the sound volumes alone.
MCTwoNames == {<< <<"b">>, <<"a">> >>}
MCSoundFat == <<FatV>>
MCSoundExt == <<ExtV>>

MCDisks ==
  LET kinds == <<FatVolumes, ExtVolumes, IsoVolumes>>
  IN  FlattenSeq(kinds)
=============================================================================
