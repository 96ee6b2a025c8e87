------------------------------ MODULE Iso9660 ------------------------------
(***************************************************************************)
(* The ISO 9660 driver of fs/iso9660.c.  A volume of it is a record: what  *)
(* iso9660_detect reads, the descriptors as iso9660_mount reads them       *)
(* sixteen sectors further on, the fields of the primary one, and          *)
(* blocks[b], the directory records of block b up to the length of zero    *)
(* that ends them; other blocks have none.                                 *)
(***************************************************************************)
EXTENDS DiskDriver

CONSTANTS
  MaxDescriptors,   \* descriptors mount reads (32)
  ByteWrap,         \* an uint8_t is taken modulo this (256)
  SlotSize          \* block_size is divided by it in get_info (256)

IsoRecords ==
  [name : Seq(STRING), dot : BOOLEAN, extent : Nat, size : 0..(Wrap - 1), dir : BOOLEAN]

\* Any contents of a disk read as the driver reads them.
IsoVolume(v) ==
  /\ v.block_size \in Nat /\ v.root_extent \in Nat /\ v.root_size \in 0..(Wrap - 1)
  /\ \A b \in DOMAIN v.blocks : v.blocks[b] \in Seq(IsoRecords)

ASSUME Iso9660Assumption ==
  /\ MaxDescriptors \in Nat /\ ByteWrap \in Nat \ {0} /\ SlotSize \in Nat \ {0}
  /\ \A d \in DOMAIN Disks : Disks[d].driver = "iso9660" => IsoVolume(Disks[d])

iso9660_detect ==
  /\ pc = "detect"
  /\ UNCHANGED <<mounted, out>>
  /\ \/ Return(Ok(FALSE), held) /\ refused' = TRUE
     \/ Return(Ok(vol.detected = "primary"), held) /\ UNCHANGED refused

\* Among the first descriptors there is a primary one before the terminator.
HasPrimary(descriptors) ==
  \E i \in DOMAIN descriptors :
    /\ i <= MaxDescriptors /\ descriptors[i] = "primary"
    /\ \A j \in 1..(i - 1) : descriptors[j] # "terminator"

\* iso9660_mount; the path table is given up when it has no memory or cannot
\* be read.
iso9660_mount ==
  LET Mount(table) ==
        /\ mounted' = [block_size |-> vol.block_size, table |-> table,
                       root |-> vol.root_extent % ByteWrap, root_size |-> vol.root_size]
        /\ Return(Ok(0), [held EXCEPT !["priv"] = @ + 1, !["table"] = IF table THEN @ + 1 ELSE @])
        /\ UNCHANGED out
  IN  /\ pc = "mount"
      /\ \/ Give(held, TRUE)
         \/ ~HasPrimary(vol.descriptors) /\ Give(held, FALSE)
         \/ HasPrimary(vol.descriptors) /\ vol.block_size = 0 /\ Undefine
         \/ HasPrimary(vol.descriptors) /\ Mount(FALSE) /\ refused' = TRUE
         \/ /\ HasPrimary(vol.descriptors) /\ vol.block_size # 0
            /\ Mount(TRUE) /\ UNCHANGED refused

\* The blocks of memory of the path table.
TableBlocks == IF mounted.table THEN 1 ELSE 0

iso9660_unmount ==
  /\ pc = "unmount"
  /\ mounted' = Nothing
  /\ Return(Ok(0), [held EXCEPT !["priv"] = @ - 1, !["table"] = @ - TableBlocks])
  /\ UNCHANGED <<out, refused>>

-----------------------------------------------------------------------------
(* iso9660_find_entry.  It calls itself for the rest of the path and every *)
(* call has a block of memory until the innermost has returned.            *)

Records(b) == IF b \in DOMAIN vol.blocks THEN vol.blocks[b] ELSE << >>

\* Mutant: only the innermost call gives its memory back.
UnwoundOne == [held EXCEPT !["buf"] = @ - 1]

\* The memory of the calls open in at given back.
Unwound == [held EXCEPT !["buf"] = @ - at.depth]

\* A call for the directory at extent: too long a part runs over the array for it.
Enter(extent, size, rest, depth) ==
  \/ Len(rest[1]) > MaxPart /\ Undefine
  \/ /\ Len(rest[1]) <= MaxPart
     /\ Give([held EXCEPT !["buf"] = @ - depth], TRUE)
  \/ /\ Len(rest[1]) <= MaxPart
     /\ Goto("block", [extent |-> extent, size |-> size, off |-> 0, i |-> 1, rest |-> rest,
                       depth |-> depth + 1])
     /\ held' = Taking("buf")
     /\ UNCHANGED out

iso9660_open ==
  /\ pc = "open"
  /\ Enter(mounted.root, mounted.root_size, call.path, 0)

iso9660_find_block ==
  LET more == at.off < at.size
  IN  /\ pc = "block"
      /\ \/ ~more /\ Give(Unwound, FALSE)
         \/ more /\ mounted.block_size = 0 /\ Undefine
         \/ more /\ Give(Unwound, TRUE)
         \/ /\ more /\ mounted.block_size # 0
            /\ Goto("record", at) /\ UNCHANGED <<out, held>>

\* iso9660_stricmp on names of equal length; "." and ".." are passed over.
Shown(r) == ~r.dot
Same(r, part) == Shown(r) /\ Capital(r.name) = Capital(part)

iso9660_find_entry ==
  LET records == Records(U(at.extent + at.off \div mounted.block_size))
      r == records[at.i]
      hit == at.i <= Len(records) /\ Same(r, at.rest[1])
      last == Len(at.rest) = 1
      Keep == UNCHANGED <<out, held>>
  IN  /\ pc = "record"
      /\ \/ /\ at.i > Len(records)
            /\ Goto("block", [at EXCEPT !.off = U(@ + mounted.block_size), !.i = 1])
            /\ Keep
         \/ /\ at.i <= Len(records) /\ ~(hit /\ (last \/ r.dir))
            /\ Goto("record", [at EXCEPT !.i = @ + 1]) /\ Keep
         \/ /\ hit /\ last
            /\ Goto("found", [extent |-> r.extent, size |-> r.size])
            /\ held' = Unwound /\ UNCHANGED out
         \/ hit /\ ~last /\ r.dir /\ Enter(r.extent, r.size, Tail(at.rest), at.depth)

-----------------------------------------------------------------------------
(* The operations *)

\* iso9660_read_file: the blocks of the window in one piece.  The piece is
\* allocated by its size in 32 bits; outside it nothing is known.
iso9660_read_file ==
  LET bs == mounted.block_size
      size == CutSize(call.size, call.offset, at.size)
      start == U(at.extent + call.offset \div bs)
      end == U(at.extent + U(call.offset + size - 1) \div bs)
      blocks == U(end - start + 1)
      fits == blocks * bs < Wrap /\ (call.offset % bs) + size <= blocks * bs
  IN  /\ pc = "found" /\ call.op = "read"
      /\ \/ /\ call.offset >= at.size
            /\ Return(Ok(0), held) /\ UNCHANGED <<mounted, out, refused>>
         \/ call.offset < at.size /\ Give(held, TRUE)
         \/ call.offset < at.size /\ ~fits /\ Undefine
         \/ /\ call.offset < at.size /\ fits
            /\ out' = [k \in 0..(size - 1) |->
                         LET byte == (call.offset % bs) + k
                         IN  <<U(start + byte \div bs), byte % bs>>]
            /\ Return(Ok(size), held)
            /\ UNCHANGED <<mounted, refused>>

iso9660_list_dir ==
  /\ pc = "found" /\ call.op = "list"
  /\ \/ Give(held, TRUE)
     \/ /\ Goto("listing", [extent |-> at.extent, size |-> at.size, off |-> 0])
        /\ held' = Taking("buf")
        /\ UNCHANGED out

\* One block of the listing.
iso9660_list_block ==
  LET more == at.off < at.size /\ Len(out) < call.size
      records == Records(U(at.extent + at.off \div mounted.block_size))
      names == out \o NamesOf(records, Shown)
  IN  /\ pc = "listing"
      /\ \/ /\ ~more
            /\ Return(Ok(Len(out)), Giving("buf")) /\ UNCHANGED <<mounted, out, refused>>
         \/ more /\ Give(Giving("buf"), TRUE)
         \/ /\ more
            /\ out' = SubSeq(names, 1, IF Len(names) < call.size THEN Len(names) ELSE call.size)
            /\ Goto("listing", [at EXCEPT !.off = U(@ + mounted.block_size)])
            /\ UNCHANGED held

\* iso9660_get_info looks for the record again, in a block computed from the
\* extent.  Its scan goes on by single bytes and stops at a zero: after the
\* first record, whose second byte is 0 when it has no extended attributes.
iso9660_get_info ==
  LET slots == mounted.block_size \div SlotSize
      records == Records(at.extent \div slots)
      hit == records # << >> /\ records[1].extent = at.extent /\ records[1].size = at.size
  IN  /\ pc = "found" /\ call.op = "info"
      /\ \/ Give(held, TRUE)
         \/ slots = 0 /\ Undefine
         \/ slots # 0 /\ ~hit /\ Give(held, FALSE)
         \/ /\ slots # 0 /\ hit
            /\ Return(Ok([size |-> at.size, is_dir |-> records[1].dir]), held)
            /\ UNCHANGED <<mounted, out, refused>>

iso9660_step ==
  /\ vol.driver = "iso9660"
  /\ \/ iso9660_detect \/ iso9660_mount \/ iso9660_unmount
     \/ iso9660_open \/ iso9660_find_block \/ iso9660_find_entry
     \/ iso9660_read_file \/ iso9660_list_dir \/ iso9660_list_block
     \/ iso9660_get_info
=============================================================================
