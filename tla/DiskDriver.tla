----------------------------- MODULE DiskDriver -----------------------------
(***************************************************************************)
(* What the drivers of fs/fat32.c, fs/ext2.c and fs/iso9660.c have in      *)
(* common: a volume on the disk, the private data a mount keeps, one call  *)
(* at a time with its locals, and memory and a disk that may refuse.  A    *)
(* step of a driver is one turn of one of its loops.                       *)
(*                                                                         *)
(* A path is the sequence of the parts between its slashes, a part the     *)
(* sequence of its characters: "/a" is << <<>>, <<"a">> >>.  A byte of a   *)
(* cluster or block is named by where it lies: <<block, index>>.           *)
(***************************************************************************)
EXTENDS Integers, Sequences, TLC

CONSTANTS
  Disks,                  \* the volumes that may be on the disk, in a sequence
  Paths, Sizes, Offsets,  \* arguments of the calls
  Rooms,                  \* room for listings, far below Wrap
  Upper(_),               \* a character in upper case
  MaxPart,                \* longest part of a path (255 in the code)
  Wrap,                   \* unsigned 32-bit integers are taken modulo this
  MaxHeld                 \* bound: no mount while this many blocks are allocated

ASSUME DiskAssumption ==
  /\ \A d \in DOMAIN Disks : Disks[d].driver \in {"fat32", "ext2", "iso9660"}
  /\ MaxPart \in Nat /\ Wrap \in Nat \ {0} /\ MaxHeld \in Nat
  /\ Sizes \cup Rooms \subseteq 0..(Wrap - 1) /\ Offsets \subseteq 0..(Wrap - 1)
  /\ \A p \in Paths : p \in Seq(Seq(STRING)) /\ p # << >>

VARIABLES
  disk,      \* the number of the volume on the disk; drivers only read
  mounted,   \* the private data of the mount, or Nothing
  call,      \* the call served: its arguments, memory lost before it
  pc,        \* idle, the loop the driver is in, done, or undefined
  at,        \* the locals of that loop
  out,       \* what the call has put in its caller's buffer
  ret,       \* [ok, value]: what the call returned
  held,      \* blocks of memory the driver has: private data, tables, buffers
  refused    \* an allocation or a disk read of this call failed

vars == <<disk, mounted, call, pc, at, out, ret, held, refused>>

\* No locals, no private data.
Nothing == << >>

vol == Disks[disk]
Blocks == {"priv", "table", "buf"}
Fail == [ok |-> FALSE, value |-> 0]
Capital(part) == [i \in DOMAIN part |-> Upper(part[i])]
RootPath == << << >>, << >> >>   \* "/"

\* Unsigned 32-bit arithmetic.
U(n) == n % Wrap

\* The names of the entries of a directory that a listing shows, in order.
NamesOf(entries, Shows(_)) ==
  LET names[i \in 0..Len(entries)] ==
        IF i = 0 THEN << >>
        ELSE IF Shows(entries[i]) THEN Append(names[i - 1], entries[i].name)
        ELSE names[i - 1]
  IN  names[Len(entries)]

Taking(block) == [held EXCEPT ![block] = @ + 1]
Giving(block) == [held EXCEPT ![block] = @ - 1]

\* What the mount accounts for, and the memory nobody will give back.
Owned == [priv |-> IF mounted = Nothing THEN 0 ELSE 1,
          table |-> IF mounted # Nothing /\ mounted.table THEN 1 ELSE 0,
          buf |-> 0]
Lost == [b \in Blocks |-> held[b] - Owned[b]]

-----------------------------------------------------------------------------

Init ==
  /\ disk \in DOMAIN Disks
  /\ mounted = Nothing
  /\ held = [b \in Blocks |-> 0]
  /\ pc = "idle" /\ call = Nothing /\ at = Nothing
  /\ out = << >> /\ ret = Fail /\ refused = FALSE

\* A caller of the layer begins op.
Begin(op, path, size, offset) ==
  /\ pc = "idle"
  /\ call' = [op |-> op, path |-> path, size |-> size, offset |-> offset, lost |-> Lost]
  /\ pc' = IF op \in {"read", "list", "info"} THEN "open" ELSE op
  /\ UNCHANGED <<disk, mounted, at, out, ret, held, refused>>

\* It takes the answer.
Take ==
  /\ pc = "done"
  /\ pc' = "idle" /\ call' = Nothing
  /\ out' = << >> /\ ret' = Fail /\ refused' = FALSE
  /\ UNCHANGED <<disk, mounted, at, held>>

Call ==
  \/ Begin("detect", RootPath, 0, 0)
  \/ /\ mounted = Nothing
     /\ \A b \in Blocks : held[b] < MaxHeld
     /\ Begin("mount", RootPath, 0, 0)
  \/ mounted # Nothing /\ Begin("unmount", RootPath, 0, 0)
  \/ /\ mounted # Nothing
     /\ \E p \in Paths, s \in Sizes, o \in Offsets : Begin("read", p, s, o)
  \/ /\ mounted # Nothing
     /\ \E p \in Paths, s \in Rooms : Begin("list", p, s, 0)
  \/ /\ mounted # Nothing
     /\ \E p \in Paths : Begin("info", p, 0, 0)

\* The call ends with this result and this much memory left.
Return(result, memory) ==
  /\ pc' = "done"
  /\ ret' = result
  /\ held' = memory
  /\ at' = Nothing
  /\ UNCHANGED <<disk, call>>

Ok(value) == [ok |-> TRUE, value |-> value]

\* It ends with -1; an allocation or a read failed when tells is TRUE.
Give(memory, tells) ==
  /\ Return(Fail, memory)
  /\ refused' = (refused \/ tells)
  /\ UNCHANGED <<mounted, out>>

\* Mutant: the size is not cut to what the file has.
Uncut(size, offset, file_size) == size

\* The caller's buffer with these bytes written into it.
Written(bytes) ==
  [k \in DOMAIN out \cup DOMAIN bytes |-> IF k \in DOMAIN bytes THEN bytes[k] ELSE out[k]]

\* The bytes to read of a file: cut to its end where the sum tells it.
CutSize(size, offset, file_size) ==
  IF U(offset + size) > file_size THEN file_size - offset ELSE size

\* Nothing is known of the machine after an undefined step.
Undefine ==
  /\ pc' = "undefined"
  /\ at' = Nothing
  /\ UNCHANGED <<disk, mounted, call, out, ret, held, refused>>

\* A step to another loop of the same call.
Goto(loop, locals) ==
  /\ pc' = loop
  /\ at' = locals
  /\ UNCHANGED <<disk, mounted, call, ret, refused>>
=============================================================================
