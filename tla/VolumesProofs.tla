--------------------------- MODULE VolumesProofs ---------------------------
(***************************************************************************)
(* For any volume, sound or damaged, any path and any failure: a call of   *)
(* one of the three drivers gives back the memory it took, a look-up ends  *)
(* at the entry the path stands for, a read gives the bytes of its window, *)
(* and a listing the names of its directory.                               *)
(***************************************************************************)
EXTENDS Volumes, Loops

-----------------------------------------------------------------------------
(* Memory *)

\* The calls of iso9660_find_entry and the loops that hold a buffer.
Buffers ==
  CASE vol.driver = "fat32" -> IF pc \in {"search", "list"} THEN 1 ELSE 0
    [] vol.driver = "ext2" -> IF pc \in {"block", "record"} THEN 1 ELSE 0
    [] vol.driver = "iso9660" -> IF pc \in {"block", "record"} THEN at.depth
                                 ELSE IF pc = "listing" THEN 1 ELSE 0

Busy == pc \notin {"idle", "done", "undefined"}

\* What a volume's mount has allocated depends on its driver.
MountInv ==
  mounted # Nothing =>
    /\ mounted.table \in BOOLEAN
    /\ vol.driver = "fat32" => ~mounted.table
    /\ vol.driver = "ext2" => mounted.table

\* What a call under way holds beyond the mount and what was lost before it.
CallInv ==
  /\ Buffers \in Int
  /\ \A b \in Blocks : held[b] = Owned[b] + call.lost[b] + (IF b = "buf" THEN Buffers ELSE 0)

\* How deep iso9660_find_entry is stays among its locals.
LocalsInv ==
  vol.driver = "iso9660" /\ pc \in {"block", "record"} => "depth" \in DOMAIN at

\* The inductive invariant: at every turn of every loop what is held is what the
\* mount owns, what was lost before, and the buffers of the loop.
MemInv ==
  /\ disk \in DOMAIN Disks
  /\ held \in [Blocks -> Int]
  /\ MountInv
  /\ LocalsInv
  /\ pc = "mount" => mounted = Nothing /\ call.op = "mount"
  /\ pc = "unmount" => mounted # Nothing
  /\ Busy \/ pc = "done" => call.lost \in [Blocks -> Int]
  /\ Busy => CallInv
  /\ MemoryGivenBack

\* What a mount owns is a number of each kind of block.
LEMMA OwnedType == MountInv => Owned \in [Blocks -> Int]
  BY DEF MountInv, Owned, Blocks

\* Of each kind of block, what is not the mount's.
LEMMA LostAt ==
  ASSUME NEW b \in Blocks
  PROVE  Lost[b] = held[b] - Owned[b]
  BY DEF Lost

\* A mount and a volume that stay own what they did.
LEMMA OwnedKept ==
  ASSUME UNCHANGED <<disk, mounted>>
  PROVE  (MountInv' <=> MountInv) /\ Owned' = Owned /\ vol' = vol
  BY DEF MountInv, Owned, vol

\* A call that ends with its mount as it was gives back its buffers.
LEMMA ReturnInv ==
  ASSUME MemInv, Busy, UNCHANGED <<disk, mounted, call>>, pc' = "done",
         held' \in [Blocks -> Int],
         \A b \in Blocks : held'[b] = held[b] - (IF b = "buf" THEN Buffers ELSE 0)
  PROVE  MemInv'
<1>1. Owned \in [Blocks -> Int] /\ call.lost \in [Blocks -> Int] /\ CallInv
  BY OwnedType DEF MemInv
<1>2. MountInv' /\ Owned' = Owned
  BY OwnedKept DEF MemInv
<1>3. Lost' = call.lost
  <2>1. \A b \in Blocks : held'[b] - Owned[b] = call.lost[b]
    <3>1. ASSUME NEW b \in Blocks PROVE held'[b] - Owned[b] = call.lost[b]
      <4>1. /\ Owned[b] \in Int /\ call.lost[b] \in Int /\ Buffers \in Int
            /\ held[b] = Owned[b] + call.lost[b] + (IF b = "buf" THEN Buffers ELSE 0)
            /\ held'[b] = held[b] - (IF b = "buf" THEN Buffers ELSE 0)
        BY <1>1 DEF CallInv
      <4>2. QED
        BY <4>1
    <3>2. QED
      BY <3>1
  <2>2. Lost' = [b \in Blocks |-> held'[b] - Owned[b]]
    BY <1>2 DEF Lost
  <2>3. call.lost = [b \in Blocks |-> call.lost[b]]
    BY <1>1
  <2>4. QED
    BY <2>1, <2>2, <2>3
<1>4. MemoryGivenBack'
  BY <1>3 DEF MemoryGivenBack
<1>5. QED
  BY <1>1, <1>2, <1>4 DEF MemInv, Busy, LocalsInv

\* A turn of a loop takes or gives the buffers the next one has.
LEMMA GotoInv ==
  ASSUME MemInv, Busy, UNCHANGED <<disk, mounted, call>>,
         pc' \notin {"idle", "done", "mount", "unmount"},
         held' \in [Blocks -> Int], Buffers' \in Int, LocalsInv',
         \A b \in Blocks : held'[b] = held[b] + (IF b = "buf" THEN Buffers' - Buffers ELSE 0)
  PROVE  MemInv'
<1>1. Owned \in [Blocks -> Int] /\ call.lost \in [Blocks -> Int] /\ CallInv
  BY OwnedType DEF MemInv
<1>2. MountInv' /\ Owned' = Owned
  BY OwnedKept DEF MemInv
<1>3. CallInv'
  <2>1. ASSUME NEW b \in Blocks
        PROVE  held'[b] = Owned[b] + call.lost[b] + (IF b = "buf" THEN Buffers' ELSE 0)
    <3>1. /\ Owned[b] \in Int /\ call.lost[b] \in Int /\ Buffers \in Int /\ Buffers' \in Int
          /\ held[b] = Owned[b] + call.lost[b] + (IF b = "buf" THEN Buffers ELSE 0)
          /\ held'[b] = held[b] + (IF b = "buf" THEN Buffers' - Buffers ELSE 0)
      BY <1>1 DEF CallInv
    <3>2. QED
      BY <3>1
  <2>2. QED
    BY <1>2, <2>1 DEF CallInv
<1>4. MemoryGivenBack'
  BY DEF MemoryGivenBack
<1>5. QED
  BY <1>1, <1>2, <1>3, <1>4 DEF MemInv, Busy

\* Of a machine whose behaviour is undefined nothing is asked.
LEMMA UndefineInv ==
  ASSUME MemInv, Undefine
  PROVE  MemInv'
<1>1. MountInv'
  BY OwnedKept DEF MemInv, Undefine
<1>2. QED
  BY <1>1 DEF MemInv, Undefine, Busy, MemoryGivenBack, LocalsInv

\* One block more or less.
LEMMA TakingGiving ==
  ASSUME held \in [Blocks -> Int]
  PROVE  /\ Taking("buf") \in [Blocks -> Int] /\ Giving("buf") \in [Blocks -> Int]
         /\ \A b \in Blocks : Taking("buf")[b] = held[b] + (IF b = "buf" THEN 1 ELSE 0)
         /\ \A b \in Blocks : Giving("buf")[b] = held[b] - (IF b = "buf" THEN 1 ELSE 0)
  BY DEF Taking, Giving, Blocks

\* Without a table of its own a mount takes and gives the private data only.
LEMMA PrivateOnly ==
  ASSUME held \in [Blocks -> Int]
  PROVE  /\ Taking("priv") \in [Blocks -> Int] /\ Giving("priv") \in [Blocks -> Int]
         /\ Taking("priv") = [held EXCEPT !["priv"] = @ + 1, !["table"] = @]
         /\ Giving("priv") = [held EXCEPT !["priv"] = @ - 1, !["table"] = @]
<1>1. /\ Taking("priv") \in [Blocks -> Int] /\ Giving("priv") \in [Blocks -> Int]
  BY DEF Taking, Giving, Blocks
<1>2. DEFINE took == [held EXCEPT !["priv"] = @ + 1, !["table"] = @]
             gave == [held EXCEPT !["priv"] = @ - 1, !["table"] = @]
<1>3. took \in [Blocks -> Int] /\ gave \in [Blocks -> Int]
  BY DEF Blocks
<1>4. \A b \in Blocks : Taking("priv")[b] = took[b] /\ Giving("priv")[b] = gave[b]
  BY DEF Taking, Giving, Blocks
<1>5. QED
  BY <1>1, <1>3, <1>4

\* The private data of a mount are something.
LEMMA SomePrivateData ==
  ASSUME NEW m, "table" \in DOMAIN m
  PROVE  m # Nothing
  BY DEF Nothing

\* A call that ends outside the loops with a buffer leaves memory alone.
LEMMA ReturnHeld ==
  ASSUME MemInv, Busy, Buffers = 0, NEW result, Return(result, held), UNCHANGED mounted
  PROVE  MemInv'
<1>1. held \in [Blocks -> Int]
  BY DEF MemInv
<1>2. /\ UNCHANGED <<disk, mounted, call>> /\ pc' = "done" /\ held' = held
  BY DEF Return
<1>3. \A b \in Blocks : held'[b] = held[b] - (IF b = "buf" THEN Buffers ELSE 0)
  BY <1>1, <1>2
<1>4. QED
  BY <1>1, <1>2, <1>3, ReturnInv

\* One that ends within such a loop gives the buffer back.
LEMMA ReturnBuffer ==
  ASSUME MemInv, Busy, Buffers = 1, NEW result, Return(result, Giving("buf")),
         UNCHANGED mounted
  PROVE  MemInv'
<1>1. held \in [Blocks -> Int]
  BY DEF MemInv
<1>2. /\ UNCHANGED <<disk, mounted, call>> /\ pc' = "done" /\ held' = Giving("buf")
  BY DEF Return
<1>3. /\ held' \in [Blocks -> Int]
      /\ \A b \in Blocks : held'[b] = held[b] - (IF b = "buf" THEN Buffers ELSE 0)
  BY <1>1, <1>2, TakingGiving
<1>4. QED
  BY <1>2, <1>3, ReturnInv

\* What a failing call gives, it returns with.
LEMMA GiveReturns ==
  ASSUME NEW memory, NEW tells, Give(memory, tells)
  PROVE  Return(Fail, memory) /\ UNCHANGED mounted
  BY DEF Give

\* A loop is left for one that holds as much.
LEMMA GotoSame ==
  ASSUME MemInv, Busy, NEW loop, NEW locals, Goto(loop, locals), UNCHANGED held,
         loop \notin {"idle", "done", "mount", "unmount"}, LocalsInv', Buffers' = Buffers
  PROVE  MemInv'
<1>1. held \in [Blocks -> Int] /\ Buffers \in Int
  BY DEF MemInv, CallInv
<1>2. \A b \in Blocks : held'[b] = held[b] + (IF b = "buf" THEN Buffers' - Buffers ELSE 0)
  BY <1>1
<1>3. QED
  BY <1>1, <1>2, GotoInv DEF Goto

\* For one that holds a buffer more.
LEMMA GotoTaking ==
  ASSUME MemInv, Busy, NEW loop, NEW locals, Goto(loop, locals), held' = Taking("buf"),
         loop \notin {"idle", "done", "mount", "unmount"}, LocalsInv', Buffers' = Buffers + 1
  PROVE  MemInv'
<1>1. held \in [Blocks -> Int] /\ Buffers \in Int
  BY DEF MemInv, CallInv
<1>2. /\ held' \in [Blocks -> Int]
      /\ \A b \in Blocks : held'[b] = held[b] + (IF b = "buf" THEN Buffers' - Buffers ELSE 0)
  BY <1>1, TakingGiving
<1>3. Buffers' \in Int
  BY <1>1
<1>4. QED
  BY <1>2, <1>3, GotoInv DEF Goto

\* For one that holds a buffer less.
LEMMA GotoGiving ==
  ASSUME MemInv, Busy, NEW loop, NEW locals, Goto(loop, locals), held' = Giving("buf"),
         loop \notin {"idle", "done", "mount", "unmount"}, LocalsInv', Buffers' = Buffers - 1
  PROVE  MemInv'
<1>1. held \in [Blocks -> Int] /\ Buffers \in Int
  BY DEF MemInv, CallInv
<1>2. /\ held' \in [Blocks -> Int]
      /\ \A b \in Blocks : held'[b] = held[b] + (IF b = "buf" THEN Buffers' - Buffers ELSE 0)
  BY <1>1, TakingGiving
<1>3. Buffers' \in Int
  BY <1>1
<1>4. QED
  BY <1>2, <1>3, GotoInv DEF Goto

\* A mount that succeeds owns what it took.
LEMMA MountDone ==
  ASSUME MemInv, pc = "mount", Buffers = 0, NEW memory \in [Blocks -> Int], NEW result,
         Return(result, memory), mounted' # Nothing, mounted'.table \in BOOLEAN,
         vol.driver = "fat32" => ~mounted'.table, vol.driver = "ext2" => mounted'.table,
         memory = [held EXCEPT !["priv"] = @ + 1,
                               !["table"] = IF mounted'.table THEN @ + 1 ELSE @]
  PROVE  MemInv'
<1>1. /\ mounted = Nothing /\ held \in [Blocks -> Int] /\ CallInv
      /\ call.lost \in [Blocks -> Int] /\ disk \in DOMAIN Disks
  BY DEF MemInv, Busy
<1>2. disk' = disk /\ call' = call /\ held' = memory /\ pc' = "done"
  BY DEF Return
<1>3. MountInv'
  BY <1>2 DEF MountInv, vol
<1>4. \A b \in Blocks : held[b] = call.lost[b] /\ call.lost[b] \in Int
  BY <1>1 DEF CallInv, Owned, Blocks
<1>5. \A b \in Blocks : Lost'[b] = call.lost[b]
  <2>1. \A b \in Blocks : Lost'[b] = held'[b] - Owned'[b]
    BY DEF Lost
  <2>2. \A b \in Blocks : Owned'[b] = CASE b = "priv" -> 1
                                        [] b = "table" -> IF mounted'.table THEN 1 ELSE 0
                                        [] b = "buf" -> 0
    BY DEF Owned, Blocks
  <2>3. \A b \in Blocks : held'[b] = CASE b = "priv" -> held[b] + 1
                                       [] b = "table" -> IF mounted'.table THEN held[b] + 1
                                                         ELSE held[b]
                                       [] b = "buf" -> held[b]
    BY <1>1, <1>2 DEF Blocks
  <2>4. ASSUME NEW b \in Blocks PROVE held'[b] - Owned'[b] = call.lost[b]
    <3>1. b = "priv" \/ b = "table" \/ b = "buf"
      BY DEF Blocks
    <3>2. held[b] = call.lost[b] /\ call.lost[b] \in Int
      BY <1>4
    <3>3. CASE b = "priv"
      BY <2>2, <2>3, <3>2, <3>3
    <3>4. CASE b = "table"
      BY <2>2, <2>3, <3>2, <3>4
    <3>5. CASE b = "buf"
      BY <2>2, <2>3, <3>2, <3>5
    <3>6. QED
      BY <3>1, <3>3, <3>4, <3>5
  <2>5. QED
    BY <2>1, <2>4
<1>6. Lost' = call.lost
  <2>1. Lost' = [b \in Blocks |-> Lost'[b]]
    BY DEF Lost
  <2>2. call.lost = [b \in Blocks |-> call.lost[b]]
    BY <1>1
  <2>3. QED
    BY <1>5, <2>1, <2>2
<1>7. MemoryGivenBack'
  BY <1>2, <1>6 DEF MemoryGivenBack
<1>8. QED
  BY <1>1, <1>2, <1>3, <1>7 DEF MemInv, Busy, LocalsInv

\* An unmount gives back what the mount owned.
LEMMA UnmountDone ==
  ASSUME MemInv, pc = "unmount", Buffers = 0, NEW memory \in [Blocks -> Int], NEW result,
         Return(result, memory), mounted' = Nothing,
         memory = [held EXCEPT !["priv"] = @ - 1,
                               !["table"] = IF mounted.table THEN @ - 1 ELSE @]
  PROVE  MemInv'
<1>1. /\ mounted # Nothing /\ held \in [Blocks -> Int] /\ CallInv
      /\ call.lost \in [Blocks -> Int] /\ disk \in DOMAIN Disks
  BY DEF MemInv, Busy
<1>2. disk' = disk /\ call' = call /\ held' = memory /\ pc' = "done"
  BY DEF Return
<1>3. MountInv'
  BY DEF MountInv
<1>4. \A b \in Blocks : Lost'[b] = call.lost[b]
  <2>1. \A b \in Blocks : Lost'[b] = held'[b] - Owned'[b]
    BY DEF Lost
  <2>2. \A b \in Blocks : Owned'[b] = 0
    BY DEF Owned, Blocks
  <2>3. \A b \in Blocks : held'[b] = CASE b = "priv" -> held[b] - 1
                                       [] b = "table" -> IF mounted.table THEN held[b] - 1
                                                         ELSE held[b]
                                       [] b = "buf" -> held[b]
    BY <1>1, <1>2 DEF Blocks
  <2>4. \A b \in Blocks : Owned[b] = CASE b = "priv" -> 1
                                       [] b = "table" -> IF mounted.table THEN 1 ELSE 0
                                       [] b = "buf" -> 0
    BY <1>1 DEF Owned, Blocks
  <2>5. ASSUME NEW b \in Blocks PROVE held'[b] - Owned'[b] = call.lost[b]
    <3>1. b = "priv" \/ b = "table" \/ b = "buf"
      BY DEF Blocks
    <3>2. /\ held[b] = Owned[b] + call.lost[b] + (IF b = "buf" THEN Buffers ELSE 0)
          /\ call.lost[b] \in Int /\ held[b] \in Int
      BY <1>1 DEF CallInv
    <3>3. CASE b = "priv"
      BY <2>2, <2>3, <2>4, <3>2, <3>3
    <3>4. CASE b = "table"
      BY <2>2, <2>3, <2>4, <3>2, <3>4
    <3>5. CASE b = "buf"
      BY <2>2, <2>3, <2>4, <3>2, <3>5
    <3>6. QED
      BY <3>1, <3>3, <3>4, <3>5
  <2>6. QED
    BY <2>1, <2>5
<1>5. Lost' = call.lost
  <2>1. Lost' = [b \in Blocks |-> Lost'[b]]
    BY DEF Lost
  <2>2. call.lost = [b \in Blocks |-> call.lost[b]]
    BY <1>1
  <2>3. QED
    BY <1>4, <2>1, <2>2
<1>6. MemoryGivenBack'
  BY <1>2, <1>5 DEF MemoryGivenBack
<1>7. QED
  BY <1>1, <1>2, <1>3, <1>6 DEF MemInv, Busy, LocalsInv

-----------------------------------------------------------------------------
(* The callers *)

\* Before the first call nothing is held.
LEMMA InitInv == Init => MemInv
  BY DEF Init, MemInv, MountInv, LocalsInv, Busy, MemoryGivenBack, Blocks

\* A call begins with what was lost before it, and no buffer.
LEMMA BeginInv ==
  ASSUME MemInv, NEW op \in {"detect", "mount", "unmount", "read", "list", "info"},
         NEW path, NEW size, NEW offset, Begin(op, path, size, offset),
         op = "mount" => mounted = Nothing, op = "unmount" => mounted # Nothing
  PROVE  MemInv'
<1>1. /\ UNCHANGED <<disk, mounted, held, at>> /\ call'.op = op /\ call'.lost = Lost
      /\ pc' = IF op \in {"read", "list", "info"} THEN "open" ELSE op
  BY DEF Begin
<1>2. /\ disk \in DOMAIN Disks /\ held \in [Blocks -> Int] /\ Owned \in [Blocks -> Int]
  BY OwnedType DEF MemInv
<1>3. MountInv' /\ Owned' = Owned /\ vol' = vol
  BY <1>1, OwnedKept DEF MemInv
<1>4. Buffers' = 0
  <2>1. pc' \in {"detect", "mount", "unmount", "open"}
    BY <1>1
  <2>2. vol'.driver \in {"fat32", "ext2", "iso9660"}
    BY <1>2, <1>3, DiskAssumption DEF vol
  <2>3. QED
    BY <2>1, <2>2 DEF Buffers
<1>5. Lost \in [Blocks -> Int]
  <2>1. \A b \in Blocks : held[b] - Owned[b] \in Int
    BY <1>2
  <2>2. QED
    BY <2>1 DEF Lost
<1>6. CallInv'
  <2>1. \A b \in Blocks : held[b] = Owned[b] + Lost[b]
    <3>1. \A b \in Blocks : held[b] = Owned[b] + (held[b] - Owned[b])
      BY <1>2
    <3>2. QED
      BY <3>1, LostAt
  <2>2. \A b \in Blocks : held'[b] = Owned'[b] + call'.lost[b] + (IF b = "buf" THEN Buffers' ELSE 0)
    <3>1. \A b \in Blocks : Owned[b] + Lost[b] + 0 = Owned[b] + Lost[b]
      BY <1>2, <1>5
    <3>2. QED
      BY <1>1, <1>3, <1>4, <2>1, <3>1
  <2>3. QED
    BY <1>4, <2>2 DEF CallInv
<1>7. LocalsInv' /\ MemoryGivenBack' /\ (Busy' => CallInv') /\ pc' # "done"
  BY <1>1, <1>6 DEF LocalsInv, MemoryGivenBack
<1>8. QED
  BY <1>1, <1>2, <1>3, <1>5, <1>7 DEF MemInv

\* Every call of Call, and the answer taken.
LEMMA CallsInv ==
  ASSUME MemInv, Call \/ Take
  PROVE  MemInv'
<1>1. CASE Take
  <2>1. MountInv'
    BY <1>1, OwnedKept DEF MemInv, Take
  <2>2. QED
    BY <1>1, <2>1 DEF Take, MemInv, LocalsInv, MemoryGivenBack, Busy
<1>2. CASE Call
  <2>1. CASE Begin("detect", RootPath, 0, 0)
    BY <2>1, BeginInv
  <2>2. CASE mounted = Nothing /\ Begin("mount", RootPath, 0, 0)
    BY <2>2, BeginInv
  <2>3. CASE mounted # Nothing /\ Begin("unmount", RootPath, 0, 0)
    BY <2>3, BeginInv
  <2>4. CASE \E p \in Paths, s \in Sizes, o \in Offsets : Begin("read", p, s, o)
    BY <2>4, BeginInv
  <2>5. CASE \E p \in Paths, s \in Rooms : Begin("list", p, s, 0)
    BY <2>5, BeginInv
  <2>6. CASE \E p \in Paths : Begin("info", p, 0, 0)
    BY <2>6, BeginInv
  <2>7. QED
    BY <1>2, <2>1, <2>2, <2>3, <2>4, <2>5, <2>6 DEF Call
<1>3. QED
  BY <1>1, <1>2

-----------------------------------------------------------------------------
(* FAT32 *)

\* A turn of the FAT32 driver to another loop holds a buffer where the loop does.
LEMMA Fat32Goto ==
  ASSUME MemInv, Busy, vol.driver = "fat32", NEW loop, NEW locals, Goto(loop, locals),
         loop \notin {"idle", "done", "mount", "unmount"},
         held' = IF pc \in {"search", "list"}
                 THEN IF loop \in {"search", "list"} THEN held ELSE Giving("buf")
                 ELSE IF loop \in {"search", "list"} THEN Taking("buf") ELSE held
  PROVE  MemInv'
<1>1. vol' = vol /\ pc' = loop
  BY OwnedKept DEF Goto
<1>2. /\ Buffers = IF pc \in {"search", "list"} THEN 1 ELSE 0
      /\ Buffers' = IF loop \in {"search", "list"} THEN 1 ELSE 0
      /\ LocalsInv'
  BY <1>1 DEF Buffers, LocalsInv
<1>3. CASE pc \in {"search", "list"} <=> loop \in {"search", "list"}
  <2>1. UNCHANGED held /\ Buffers' = Buffers
    BY <1>2, <1>3
  <2>2. QED
    BY <1>2, <2>1, GotoSame
<1>4. CASE pc \in {"search", "list"} /\ loop \notin {"search", "list"}
  <2>1. held' = Giving("buf") /\ Buffers' = Buffers - 1
    BY <1>2, <1>4
  <2>2. QED
    BY <1>2, <2>1, GotoGiving
<1>5. CASE pc \notin {"search", "list"} /\ loop \in {"search", "list"}
  <2>1. held' = Taking("buf") /\ Buffers' = Buffers + 1
    BY <1>2, <1>5
  <2>2. QED
    BY <1>2, <2>1, GotoTaking
<1>6. QED
  BY <1>3, <1>4, <1>5

\* One that returns gives back the buffer of its loop.
LEMMA Fat32Return ==
  ASSUME MemInv, Busy, vol.driver = "fat32", NEW result, NEW memory,
         Return(result, memory), UNCHANGED mounted,
         memory = IF pc \in {"search", "list"} THEN Giving("buf") ELSE held
  PROVE  MemInv'
<1>1. CASE pc \in {"search", "list"}
  <2>1. Buffers = 1
    BY <1>1 DEF Buffers
  <2>2. QED
    BY <1>1, <2>1, ReturnBuffer
<1>2. CASE pc \notin {"search", "list"}
  <2>1. Buffers = 0
    BY <1>2 DEF Buffers
  <2>2. QED
    BY <1>2, <2>1, ReturnHeld
<1>3. QED
  BY <1>1, <1>2

\* The look-up of a part, from outside the loops.
LEMMA Fat32LookInv ==
  ASSUME MemInv, Busy, vol.driver = "fat32", pc \in {"open", "part"}, NEW path, Look(path)
  PROVE  MemInv'
<1>1. CASE \E locals : Goto("found", locals) /\ UNCHANGED held
  <2>1. PICK locals : Goto("found", locals) /\ UNCHANGED held
    BY <1>1
  <2>2. QED
    BY <2>1, Fat32Goto
<1>2. CASE Give(held, FALSE) \/ Give(held, TRUE)
  BY <1>2, GiveReturns, Fat32Return
<1>3. CASE \E locals : Goto("search", locals) /\ held' = Taking("buf")
  <2>1. PICK locals : Goto("search", locals) /\ held' = Taking("buf")
    BY <1>3
  <2>2. QED
    BY <2>1, Fat32Goto
<1>4. QED
  BY <1>1, <1>2, <1>3 DEF Look

\* Every step of the FAT32 driver.
LEMMA Fat32Steps ==
  ASSUME MemInv, fat32_step
  PROVE  MemInv'
<1>1. vol.driver = "fat32"
  BY DEF fat32_step
<1>2. CASE fat32_detect
  BY <1>1, <1>2, Fat32Return DEF fat32_detect, Busy
<1>3. CASE fat32_mount
  <2>1. pc = "mount" /\ Busy
    BY <1>3 DEF fat32_mount, Busy
  <2>2. CASE Give(held, TRUE) \/ Give(held, FALSE)
    BY <1>1, <2>1, <2>2, GiveReturns, Fat32Return
  <2>3. CASE Undefine
    BY <2>3, UndefineInv
  <2>4. CASE /\ \E size, root, total :
                  mounted' = [table |-> FALSE, bytes_per_cluster |-> size,
                              root_dir_first_cluster |-> root, total_clusters |-> total]
             /\ Return(Ok(0), Taking("priv"))
    <3>. "table" \in DOMAIN mounted' /\ mounted'.table = FALSE
      BY <2>4
    <3>1. Buffers = 0
      BY <1>1, <2>1 DEF Buffers
    <3>2. held \in [Blocks -> Int]
      BY DEF MemInv
    <3>3. /\ Taking("priv") \in [Blocks -> Int]
          /\ Taking("priv") = [held EXCEPT !["priv"] = @ + 1,
                                           !["table"] = IF mounted'.table THEN @ + 1 ELSE @]
      BY <2>4, <3>2, PrivateOnly
    <3>4. QED
      BY <1>1, <2>1, <2>4, <3>1, <3>3, MountDone, SomePrivateData
  <2>5. QED
    BY <1>3, <2>2, <2>3, <2>4 DEF fat32_mount
<1>4. CASE fat32_unmount
  <2>1. pc = "unmount" /\ mounted' = Nothing /\ Return(Ok(0), Giving("priv"))
    BY <1>4 DEF fat32_unmount
  <2>2. Buffers = 0 /\ mounted # Nothing /\ ~mounted.table /\ held \in [Blocks -> Int]
    BY <1>1, <2>1 DEF Buffers, MemInv, MountInv
  <2>3. /\ Giving("priv") \in [Blocks -> Int]
        /\ Giving("priv") = [held EXCEPT !["priv"] = @ - 1,
                                         !["table"] = IF mounted.table THEN @ - 1 ELSE @]
    BY <2>2, PrivateOnly
  <2>4. QED
    BY <2>1, <2>2, <2>3, UnmountDone
<1>5. CASE fat32_open
  BY <1>1, <1>5, Fat32LookInv DEF fat32_open, Busy
<1>6. CASE fat32_next_part
  BY <1>1, <1>6, Fat32LookInv DEF fat32_next_part, Busy
<1>7. CASE fat32_find_file
  <2>1. pc = "search" /\ Busy
    BY <1>7 DEF fat32_find_file, Busy
  <2>2. CASE Give(Giving("buf"), FALSE)
    BY <1>1, <2>1, <2>2, GiveReturns, Fat32Return
  <2>3. CASE \E locals : Goto("search", locals) /\ UNCHANGED held
    <3>1. PICK locals : Goto("search", locals) /\ UNCHANGED held
      BY <2>3
    <3>2. QED
      BY <1>1, <2>1, <3>1, Fat32Goto
  <2>4. CASE \E locals : (Goto("found", locals) \/ Goto("part", locals)) /\ held' = Giving("buf")
    <3>1. PICK locals : (Goto("found", locals) \/ Goto("part", locals)) /\ held' = Giving("buf")
      BY <2>4
    <3>2. CASE Goto("found", locals)
      BY <1>1, <2>1, <3>1, <3>2, Fat32Goto
    <3>3. CASE Goto("part", locals)
      BY <1>1, <2>1, <3>1, <3>3, Fat32Goto
    <3>4. QED
      BY <3>1, <3>2, <3>3
  <2>5. CASE Undefine
    BY <2>5, UndefineInv
  <2>6. QED
    BY <1>7, <2>2, <2>3, <2>4, <2>5 DEF fat32_find_file
<1>8. CASE fat32_get_info
  BY <1>1, <1>8, Fat32Return DEF fat32_get_info, Busy
<1>9. CASE fat32_read
  <2>1. pc = "found" /\ Busy
    BY <1>9 DEF fat32_read, Busy
  <2>2. CASE Return(Ok(0), held) /\ UNCHANGED mounted
    BY <1>1, <2>1, <2>2, Fat32Return
  <2>3. CASE \E locals : Goto("skip", locals) /\ UNCHANGED held
    <3>1. PICK locals : Goto("skip", locals) /\ UNCHANGED held
      BY <2>3
    <3>2. QED
      BY <1>1, <2>1, <3>1, Fat32Goto
  <2>4. CASE Undefine
    BY <2>4, UndefineInv
  <2>5. QED
    BY <1>9, <2>2, <2>3, <2>4 DEF fat32_read
<1>10. CASE fat32_skip
  <2>1. pc = "skip" /\ Busy
    BY <1>10 DEF fat32_skip, Busy
  <2>2. CASE Give(held, FALSE)
    BY <1>1, <2>1, <2>2, GiveReturns, Fat32Return
  <2>3. CASE \E locals : (Goto("copy", locals) \/ Goto("skip", locals)) /\ UNCHANGED held
    <3>1. PICK locals : (Goto("copy", locals) \/ Goto("skip", locals)) /\ UNCHANGED held
      BY <2>3
    <3>2. CASE Goto("copy", locals)
      BY <1>1, <2>1, <3>1, <3>2, Fat32Goto
    <3>3. CASE Goto("skip", locals)
      BY <1>1, <2>1, <3>1, <3>3, Fat32Goto
    <3>4. QED
      BY <3>1, <3>2, <3>3
  <2>4. QED
    BY <1>10, <2>2, <2>3 DEF fat32_skip
<1>11. CASE fat32_copy
  <2>1. pc = "copy" /\ Busy
    BY <1>11 DEF fat32_copy, Busy
  <2>2. CASE Return(Ok(at.bytes_read), held) /\ UNCHANGED mounted
    BY <1>1, <2>1, <2>2, Fat32Return
  <2>3. CASE Give(held, TRUE) \/ Give(held, FALSE)
    BY <1>1, <2>1, <2>3, GiveReturns, Fat32Return
  <2>4. CASE \E locals : Goto("copy", locals) /\ UNCHANGED held
    <3>1. PICK locals : Goto("copy", locals) /\ UNCHANGED held
      BY <2>4
    <3>2. QED
      BY <1>1, <2>1, <3>1, Fat32Goto
  <2>5. QED
    BY <1>11, <2>2, <2>3, <2>4 DEF fat32_copy
<1>12. CASE fat32_read_dir
  <2>1. pc = "found" /\ Busy
    BY <1>12 DEF fat32_read_dir, Busy
  <2>2. CASE Give(held, TRUE)
    BY <1>1, <2>1, <2>2, GiveReturns, Fat32Return
  <2>3. CASE \E locals : Goto("list", locals) /\ held' = Taking("buf")
    <3>1. PICK locals : Goto("list", locals) /\ held' = Taking("buf")
      BY <2>3
    <3>2. QED
      BY <1>1, <2>1, <3>1, Fat32Goto
  <2>4. QED
    BY <1>12, <2>2, <2>3 DEF fat32_read_dir
<1>13. CASE fat32_list
  <2>1. pc = "list" /\ Busy
    BY <1>13 DEF fat32_list, Busy
  <2>2. CASE \E result : Return(result, Giving("buf")) /\ UNCHANGED mounted
    <3>1. PICK result : Return(result, Giving("buf")) /\ UNCHANGED mounted
      BY <2>2
    <3>2. QED
      BY <1>1, <2>1, <3>1, Fat32Return
  <2>3. CASE Give(Giving("buf"), FALSE)
    BY <1>1, <2>1, <2>3, GiveReturns, Fat32Return
  <2>4. CASE \E locals : Goto("list", locals) /\ UNCHANGED held
    <3>1. PICK locals : Goto("list", locals) /\ UNCHANGED held
      BY <2>4
    <3>2. QED
      BY <1>1, <2>1, <3>1, Fat32Goto
  <2>5. CASE Undefine
    BY <2>5, UndefineInv
  <2>6. QED
    BY <1>13, <2>2, <2>3, <2>4, <2>5 DEF fat32_list
<1>14. QED
  BY <1>2, <1>3, <1>4, <1>5, <1>6, <1>7, <1>8, <1>9, <1>10, <1>11, <1>12, <1>13 DEF fat32_step

-----------------------------------------------------------------------------
(* ext2 *)

\* A turn of the ext2 driver to another loop: only a listing has a buffer.
LEMMA Ext2Goto ==
  ASSUME MemInv, Busy, vol.driver = "ext2", NEW loop, NEW locals, Goto(loop, locals),
         loop \notin {"idle", "done", "mount", "unmount"},
         \/ UNCHANGED held /\ (pc \in {"block", "record"} <=> loop \in {"block", "record"})
         \/ held' = Taking("buf") /\ pc \notin {"block", "record"} /\ loop \in {"block", "record"}
  PROVE  MemInv'
<1>1. vol' = vol /\ pc' = loop
  BY OwnedKept DEF Goto
<1>2. /\ Buffers = IF pc \in {"block", "record"} THEN 1 ELSE 0
      /\ Buffers' = IF loop \in {"block", "record"} THEN 1 ELSE 0
      /\ LocalsInv'
  BY <1>1 DEF Buffers, LocalsInv
<1>3. CASE UNCHANGED held /\ (pc \in {"block", "record"} <=> loop \in {"block", "record"})
  <2>1. Buffers' = Buffers
    BY <1>2, <1>3
  <2>2. QED
    BY <1>2, <1>3, <2>1, GotoSame
<1>4. CASE held' = Taking("buf") /\ pc \notin {"block", "record"} /\ loop \in {"block", "record"}
  <2>1. Buffers' = Buffers + 1
    BY <1>2, <1>4
  <2>2. QED
    BY <1>2, <1>4, <2>1, GotoTaking
<1>5. QED
  BY <1>3, <1>4

\* One that returns gives back the buffer of its loop.
LEMMA Ext2Return ==
  ASSUME MemInv, Busy, vol.driver = "ext2", NEW result, NEW memory,
         Return(result, memory), UNCHANGED mounted,
         memory = IF pc \in {"block", "record"} THEN Giving("buf") ELSE held
  PROVE  MemInv'
<1>1. CASE pc \in {"block", "record"}
  <2>1. Buffers = 1
    BY <1>1 DEF Buffers
  <2>2. QED
    BY <1>1, <2>1, ReturnBuffer
<1>2. CASE pc \notin {"block", "record"}
  <2>1. Buffers = 0
    BY <1>2 DEF Buffers
  <2>2. QED
    BY <1>2, <2>1, ReturnHeld
<1>3. QED
  BY <1>1, <1>2

\* An inode that is not found ends a call that holds nothing.
LEMMA Ext2NoInode ==
  ASSUME MemInv, Busy, vol.driver = "ext2", pc \notin {"block", "record"}, NEW n,
         ext2_read_inode(n)
  PROVE  MemInv'
<1>1. CASE Undefine
  BY <1>1, UndefineInv
<1>2. CASE Give(held, FALSE) \/ Give(held, TRUE)
  BY <1>2, GiveReturns, Ext2Return
<1>3. QED
  BY <1>1, <1>2 DEF ext2_read_inode

\* A mount whose group descriptors cannot be read leaves their table behind:
\* the one path of the three drivers that loses memory, and no more than that.
LEMMA Ext2MountFails ==
  ASSUME MemInv, vol.driver = "ext2", pc = "mount", Give(Taking("table"), TRUE)
  PROVE  MemInv'
<1>1. /\ UNCHANGED <<disk, mounted, call>> /\ pc' = "done" /\ held' = Taking("table")
      /\ ret' = Fail /\ refused' = TRUE
  BY DEF Give, Return
<1>2. /\ held \in [Blocks -> Int] /\ call.lost \in [Blocks -> Int] /\ CallInv
      /\ call.op = "mount" /\ Owned \in [Blocks -> Int] /\ Buffers = 0
  BY OwnedType DEF MemInv, Busy, Buffers
<1>3. MountInv' /\ Owned' = Owned /\ vol' = vol
  BY <1>1, OwnedKept DEF MemInv
<1>4. held' \in [Blocks -> Int]
  BY <1>1, <1>2 DEF Taking, Blocks
<1>5. \A b \in Blocks : held'[b] - Owned[b] = [call.lost EXCEPT !["table"] = @ + 1][b]
  <2>1. ASSUME NEW b \in Blocks
        PROVE  held'[b] - Owned[b] = [call.lost EXCEPT !["table"] = @ + 1][b]
    <3>1. /\ Owned[b] \in Int /\ call.lost[b] \in Int
          /\ held[b] = Owned[b] + call.lost[b]
      BY <1>2 DEF CallInv
    <3>2. held'[b] = IF b = "table" THEN held[b] + 1 ELSE held[b]
      BY <1>1, <1>2 DEF Taking
    <3>3. [call.lost EXCEPT !["table"] = @ + 1][b]
          = IF b = "table" THEN call.lost[b] + 1 ELSE call.lost[b]
      BY <1>2
    <3>4. QED
      BY <3>1, <3>2, <3>3
  <2>2. QED
    BY <2>1
<1>6. Lost' = [call.lost EXCEPT !["table"] = @ + 1]
  <2>1. Lost' = [b \in Blocks |-> held'[b] - Owned[b]]
    BY <1>3 DEF Lost
  <2>2. [call.lost EXCEPT !["table"] = @ + 1]
        = [b \in Blocks |-> [call.lost EXCEPT !["table"] = @ + 1][b]]
    BY <1>2
  <2>3. QED
    BY <1>5, <2>1, <2>2
<1>7. MemoryGivenBack'
  BY <1>1, <1>2, <1>3, <1>6 DEF MemoryGivenBack, Fail
<1>8. QED
  BY <1>1, <1>2, <1>3, <1>4, <1>7 DEF MemInv, Busy, LocalsInv

\* Every step of the ext2 driver.
LEMMA Ext2Steps ==
  ASSUME MemInv, ext2_step
  PROVE  MemInv'
<1>1. vol.driver = "ext2"
  BY DEF ext2_step
<1>2. CASE ext2_detect
  BY <1>1, <1>2, Ext2Return DEF ext2_detect, Busy
<1>3. CASE ext2_mount
  <2>1. pc = "mount" /\ Busy
    BY <1>3 DEF ext2_mount, Busy
  <2>2. CASE Give(held, TRUE) \/ Give(held, FALSE)
    BY <1>1, <2>1, <2>2, GiveReturns, Ext2Return
  <2>3. CASE Undefine
    BY <2>3, UndefineInv
  <2>4. CASE Give(Taking("table"), TRUE)
    BY <1>1, <2>1, <2>4, Ext2MountFails
  <2>5. CASE /\ \E size, perGroup, inodeSize, groups :
                  mounted' = [table |-> TRUE, block_size |-> size,
                              inodes_per_group |-> perGroup, inode_size |-> inodeSize,
                              group_count |-> groups]
             /\ Return(Ok(0), [held EXCEPT !["priv"] = @ + 1, !["table"] = @ + 1])
    <3>1. "table" \in DOMAIN mounted' /\ mounted'.table = TRUE
      BY <2>5
    <3>2. Buffers = 0 /\ held \in [Blocks -> Int]
      BY <1>1, <2>1 DEF Buffers, MemInv
    <3>3. [held EXCEPT !["priv"] = @ + 1, !["table"] = @ + 1] \in [Blocks -> Int]
      BY <3>2 DEF Blocks
    <3>4. QED
      BY <1>1, <2>1, <2>5, <3>1, <3>2, <3>3, MountDone, SomePrivateData
  <2>6. QED
    BY <1>3, <2>2, <2>3, <2>4, <2>5 DEF ext2_mount
<1>4. CASE ext2_unmount
  <2>1. /\ pc = "unmount" /\ mounted' = Nothing
        /\ Return(Ok(0), [held EXCEPT !["priv"] = @ - 1, !["table"] = @ - 1])
    BY <1>4 DEF ext2_unmount
  <2>2. Buffers = 0 /\ mounted # Nothing /\ mounted.table = TRUE /\ held \in [Blocks -> Int]
    BY <1>1, <2>1 DEF Buffers, MemInv, MountInv
  <2>3. [held EXCEPT !["priv"] = @ - 1, !["table"] = @ - 1] \in [Blocks -> Int]
    BY <2>2 DEF Blocks
  <2>4. QED
    BY <2>1, <2>2, <2>3, UnmountDone
<1>5. CASE ext2_open
  <2>1. pc = "open" /\ Busy
    BY <1>5 DEF ext2_open, Busy
  <2>2. CASE ext2_read_inode(RootInode)
    BY <1>1, <2>1, <2>2, Ext2NoInode
  <2>3. CASE Give(held, TRUE)
    BY <1>1, <2>1, <2>3, GiveReturns, Ext2Return
  <2>4. CASE \E locals : (Goto("found", locals) \/ Goto("entry", locals)) /\ UNCHANGED held
    <3>1. PICK locals : (Goto("found", locals) \/ Goto("entry", locals)) /\ UNCHANGED held
      BY <2>4
    <3>2. CASE Goto("found", locals)
      BY <1>1, <2>1, <3>1, <3>2, Ext2Goto
    <3>3. CASE Goto("entry", locals)
      BY <1>1, <2>1, <3>1, <3>3, Ext2Goto
    <3>4. QED
      BY <3>1, <3>2, <3>3
  <2>5. QED
    BY <1>5, <2>2, <2>3, <2>4 DEF ext2_open, EnterRoot
<1>6. CASE ext2_find_file
  <2>1. pc = "entry" /\ Busy
    BY <1>6 DEF ext2_find_file, Busy
  <2>2. CASE Give(held, FALSE)
    BY <1>1, <2>1, <2>2, GiveReturns, Ext2Return
  <2>3. CASE \E locals : (Goto("found", locals) \/ Goto("entry", locals)) /\ UNCHANGED held
    <3>1. PICK locals : (Goto("found", locals) \/ Goto("entry", locals)) /\ UNCHANGED held
      BY <2>3
    <3>2. CASE Goto("found", locals)
      BY <1>1, <2>1, <3>1, <3>2, Ext2Goto
    <3>3. CASE Goto("entry", locals)
      BY <1>1, <2>1, <3>1, <3>3, Ext2Goto
    <3>4. QED
      BY <3>1, <3>2, <3>3
  <2>4. QED
    BY <1>6, <2>2, <2>3 DEF ext2_find_file
<1>7. CASE ext2_get_info
  <2>1. pc = "found" /\ Busy
    BY <1>7 DEF ext2_get_info, Busy
  <2>2. CASE ext2_read_inode(at.inode)
    BY <1>1, <2>1, <2>2, Ext2NoInode
  <2>3. CASE Tell(Inode(at.inode))
    BY <1>1, <2>1, <2>3, Ext2Return DEF Tell
  <2>4. QED
    BY <1>7, <2>2, <2>3 DEF ext2_get_info
<1>8. CASE ext2_fs_read_file
  <2>1. pc = "found" /\ Busy
    BY <1>8 DEF ext2_fs_read_file, Busy
  <2>2. PICK locals : Goto("chunk", locals) /\ UNCHANGED held
    BY <1>8 DEF ext2_fs_read_file
  <2>3. QED
    BY <1>1, <2>1, <2>2, Ext2Goto
<1>9. CASE ext2_read_file
  <2>1. pc = "chunk" /\ Busy
    BY <1>9 DEF ext2_read_file, Busy
  <2>2. CASE Return(Ok(at.pos), held) /\ UNCHANGED mounted
    BY <1>1, <2>1, <2>2, Ext2Return
  <2>3. CASE ext2_read_inode(at.inode)
    BY <1>1, <2>1, <2>3, Ext2NoInode
  <2>4. CASE Give(held, TRUE)
    BY <1>1, <2>1, <2>4, GiveReturns, Ext2Return
  <2>5. CASE \E locals : Goto("chunk", locals) /\ UNCHANGED held
    <3>1. PICK locals : Goto("chunk", locals) /\ UNCHANGED held
      BY <2>5
    <3>2. QED
      BY <1>1, <2>1, <3>1, Ext2Goto
  <2>6. QED
    BY <1>9, <2>2, <2>3, <2>4, <2>5 DEF ext2_read_file, Chunk
<1>10. CASE ext2_list_dir
  <2>1. pc = "found" /\ Busy
    BY <1>10 DEF ext2_list_dir, Busy
  <2>2. CASE ext2_read_inode(at.inode)
    BY <1>1, <2>1, <2>2, Ext2NoInode
  <2>3. CASE Give(held, FALSE) \/ Give(held, TRUE)
    BY <1>1, <2>1, <2>3, GiveReturns, Ext2Return
  <2>4. CASE \E locals : Goto("block", locals) /\ held' = Taking("buf")
    <3>1. PICK locals : Goto("block", locals) /\ held' = Taking("buf")
      BY <2>4
    <3>2. QED
      BY <1>1, <2>1, <3>1, Ext2Goto
  <2>5. QED
    BY <1>10, <2>2, <2>3, <2>4 DEF ext2_list_dir, EnterDir
<1>11. CASE ext2_list_block
  <2>1. pc = "block" /\ Busy
    BY <1>11 DEF ext2_list_block, Busy
  <2>2. CASE Return(Ok(Len(out)), Giving("buf")) /\ UNCHANGED mounted
    BY <1>1, <2>1, <2>2, Ext2Return
  <2>3. CASE Give(Giving("buf"), TRUE)
    BY <1>1, <2>1, <2>3, GiveReturns, Ext2Return
  <2>4. CASE \E locals : Goto("record", locals) /\ UNCHANGED held
    <3>1. PICK locals : Goto("record", locals) /\ UNCHANGED held
      BY <2>4
    <3>2. QED
      BY <1>1, <2>1, <3>1, Ext2Goto
  <2>5. QED
    BY <1>11, <2>2, <2>3, <2>4 DEF ext2_list_block
<1>12. CASE ext2_list_record
  <2>1. pc = "record" /\ Busy /\ UNCHANGED held
    BY <1>12 DEF ext2_list_record, Busy
  <2>2. PICK locals : Goto("record", locals) \/ Goto("block", locals)
    BY <1>12 DEF ext2_list_record
  <2>3. CASE Goto("record", locals)
    BY <1>1, <2>1, <2>3, Ext2Goto
  <2>4. CASE Goto("block", locals)
    BY <1>1, <2>1, <2>4, Ext2Goto
  <2>5. QED
    BY <2>2, <2>3, <2>4
<1>13. QED
  BY <1>2, <1>3, <1>4, <1>5, <1>6, <1>7, <1>8, <1>9, <1>10, <1>11, <1>12 DEF ext2_step

-----------------------------------------------------------------------------
(* ISO 9660 *)

\* A call that returns gives back the buffer of every call open in it.
LEMMA IsoReturn ==
  ASSUME MemInv, Busy, NEW result, NEW memory, Return(result, memory), UNCHANGED mounted,
         memory = [held EXCEPT !["buf"] = @ - Buffers]
  PROVE  MemInv'
<1>1. held \in [Blocks -> Int] /\ Buffers \in Int
  BY DEF MemInv, CallInv
<1>2. /\ held' = [held EXCEPT !["buf"] = @ - Buffers]
      /\ pc' = "done" /\ UNCHANGED <<disk, mounted, call>>
  BY DEF Return
<1>3. held' \in [Blocks -> Int]
  BY <1>1, <1>2 DEF Blocks
<1>4. \A b \in Blocks : held'[b] = held[b] - (IF b = "buf" THEN Buffers ELSE 0)
  <2>1. ASSUME NEW b \in Blocks
        PROVE  held'[b] = held[b] - (IF b = "buf" THEN Buffers ELSE 0)
    <3>1. held'[b] = IF b = "buf" THEN held[b] - Buffers ELSE held[b]
      BY <1>1, <1>2 DEF Blocks
    <3>2. held[b] \in Int
      BY <1>1
    <3>3. QED
      BY <1>1, <3>1, <3>2
  <2>2. QED
    BY <2>1
<1>5. QED
  BY <1>2, <1>3, <1>4, ReturnInv

\* One with none open returns with what it has.
LEMMA IsoReturnHeld ==
  ASSUME MemInv, Busy, vol.driver = "iso9660", pc \notin {"block", "record", "listing"},
         NEW result, Return(result, held), UNCHANGED mounted
  PROVE  MemInv'
  BY ReturnHeld DEF Buffers

\* The call for a directory: one buffer more, or all of them given back.
LEMMA IsoEnter ==
  ASSUME MemInv, Busy, vol.driver = "iso9660", NEW depth, depth = Buffers,
         NEW extent, NEW size, NEW rest, Enter(extent, size, rest, depth)
  PROVE  MemInv'
<1>1. CASE Undefine
  BY <1>1, UndefineInv
<1>2. CASE Give([held EXCEPT !["buf"] = @ - depth], TRUE)
  BY <1>2, GiveReturns, IsoReturn
<1>3. CASE /\ Goto("block", [extent |-> extent, size |-> size, off |-> 0, i |-> 1, rest |-> rest,
                              depth |-> depth + 1])
           /\ held' = Taking("buf")
  <2>1. /\ pc' = "block" /\ vol' = vol
        /\ at' = [extent |-> extent, size |-> size, off |-> 0, i |-> 1, rest |-> rest,
                  depth |-> depth + 1]
    BY <1>3, OwnedKept DEF Goto
  <2>2. "depth" \in DOMAIN at' /\ at'.depth = depth + 1
    BY <2>1
  <2>3. LocalsInv' /\ Buffers' = Buffers + 1
    BY <2>1, <2>2 DEF LocalsInv, Buffers
  <2>4. QED
    BY <1>3, <2>3, GotoTaking
<1>4. QED
  BY <1>1, <1>2, <1>3 DEF Enter

\* A turn of the look-up at the same depth.
LEMMA IsoSameDepth ==
  ASSUME MemInv, Busy, vol.driver = "iso9660", pc \in {"block", "record"},
         NEW loop \in {"block", "record"}, NEW locals, Goto(loop, locals), UNCHANGED held,
         "depth" \in DOMAIN locals, locals.depth = at.depth
  PROVE  MemInv'
<1>1. pc' = loop /\ at' = locals /\ vol' = vol
  BY OwnedKept DEF Goto
<1>2. LocalsInv' /\ Buffers' = Buffers
  BY <1>1 DEF LocalsInv, Buffers
<1>3. QED
  BY <1>2, GotoSame

\* The end of a look-up: every call open in it gives its buffer back.
LEMMA IsoFound ==
  ASSUME MemInv, Busy, vol.driver = "iso9660", pc \in {"block", "record"},
         NEW locals, Goto("found", locals), held' = Unwound
  PROVE  MemInv'
<1>1. pc' = "found" /\ vol' = vol /\ UNCHANGED <<disk, mounted, call>>
  BY OwnedKept DEF Goto
<1>2. Buffers = at.depth /\ Buffers \in Int /\ held \in [Blocks -> Int]
  BY DEF Buffers, MemInv, CallInv
<1>3. LocalsInv' /\ Buffers' = 0
  BY <1>1 DEF LocalsInv, Buffers
<1>4. held' \in [Blocks -> Int]
  BY <1>2 DEF Unwound, Blocks
<1>5. \A b \in Blocks : held'[b] = held[b] + (IF b = "buf" THEN Buffers' - Buffers ELSE 0)
  <2>1. ASSUME NEW b \in Blocks
        PROVE  held'[b] = held[b] + (IF b = "buf" THEN Buffers' - Buffers ELSE 0)
    <3>1. held'[b] = IF b = "buf" THEN held[b] - Buffers ELSE held[b]
      BY <1>2 DEF Unwound, Blocks
    <3>2. held[b] \in Int
      BY <1>2
    <3>3. QED
      BY <1>2, <1>3, <3>1, <3>2
  <2>2. QED
    BY <2>1
<1>6. QED
  BY <1>1, <1>3, <1>4, <1>5, GotoInv

\* What a mount leaves behind with a path table and without.
MountedWith(table) ==
  /\ mounted' = [block_size |-> vol.block_size, table |-> table,
                 root |-> vol.root_extent % ByteWrap, root_size |-> vol.root_size]
  /\ Return(Ok(0), [held EXCEPT !["priv"] = @ + 1, !["table"] = IF table THEN @ + 1 ELSE @])

\* Either way the mount owns what it took.
LEMMA IsoMountDone ==
  ASSUME MemInv, Busy, vol.driver = "iso9660", pc = "mount",
         NEW table \in BOOLEAN, MountedWith(table)
  PROVE  MemInv'
<1>1. "table" \in DOMAIN mounted' /\ mounted'.table = table
  BY DEF MountedWith
<1>2. Buffers = 0 /\ held \in [Blocks -> Int]
  BY DEF Buffers, MemInv
<1>3. [held EXCEPT !["priv"] = @ + 1, !["table"] = IF table THEN @ + 1 ELSE @] \in [Blocks -> Int]
  BY <1>2 DEF Blocks
<1>4. QED
  BY <1>1, <1>2, <1>3, MountDone, SomePrivateData DEF MountedWith

\* Every step of the ISO 9660 driver.
LEMMA Iso9660Steps ==
  ASSUME MemInv, iso9660_step
  PROVE  MemInv'
<1>1. vol.driver = "iso9660"
  BY DEF iso9660_step
<1>2. CASE iso9660_detect
  BY <1>1, <1>2, IsoReturnHeld DEF iso9660_detect, Busy
<1>3. CASE iso9660_mount
  <2>1. pc = "mount" /\ Busy
    BY <1>3 DEF iso9660_mount, Busy
  <2>2. CASE Give(held, TRUE) \/ Give(held, FALSE)
    BY <1>1, <2>1, <2>2, GiveReturns, IsoReturnHeld
  <2>3. CASE Undefine
    BY <2>3, UndefineInv
  <2>4. CASE HasPrimary(vol.descriptors) /\ MountedWith(FALSE)
    BY <1>1, <2>1, <2>4, IsoMountDone
  <2>5. CASE HasPrimary(vol.descriptors) /\ MountedWith(TRUE)
    BY <1>1, <2>1, <2>5, IsoMountDone
  <2>6. QED
    BY <1>3, <2>2, <2>3, <2>4, <2>5 DEF iso9660_mount, MountedWith
<1>4. CASE iso9660_unmount
  <2>1. /\ pc = "unmount" /\ mounted' = Nothing
        /\ Return(Ok(0), [held EXCEPT !["priv"] = @ - 1, !["table"] = @ - TableBlocks])
    BY <1>4 DEF iso9660_unmount
  <2>2. Buffers = 0 /\ mounted # Nothing /\ mounted.table \in BOOLEAN /\ held \in [Blocks -> Int]
    BY <1>1, <2>1 DEF Buffers, MemInv, MountInv
  <2>3. held["table"] - TableBlocks = IF mounted.table THEN held["table"] - 1 ELSE held["table"]
    BY <2>2 DEF TableBlocks, Blocks
  <2>4. [held EXCEPT !["priv"] = @ - 1, !["table"] = @ - TableBlocks]
        = [held EXCEPT !["priv"] = @ - 1, !["table"] = IF mounted.table THEN @ - 1 ELSE @]
    BY <2>3
  <2>5. [held EXCEPT !["priv"] = @ - 1, !["table"] = @ - TableBlocks] \in [Blocks -> Int]
    BY <2>2 DEF Blocks, TableBlocks
  <2>6. QED
    BY <2>1, <2>2, <2>4, <2>5, UnmountDone
<1>5. CASE iso9660_open
  <2>1. pc = "open" /\ Busy /\ Buffers = 0
    BY <1>1, <1>5 DEF iso9660_open, Busy, Buffers
  <2>2. QED
    BY <1>1, <1>5, <2>1, IsoEnter DEF iso9660_open
<1>6. CASE iso9660_find_block
  <2>1. pc = "block" /\ Busy /\ Buffers = at.depth /\ "depth" \in DOMAIN at
    BY <1>1, <1>6 DEF iso9660_find_block, Busy, Buffers, MemInv, LocalsInv
  <2>2. CASE Give(Unwound, FALSE) \/ Give(Unwound, TRUE)
    <3>1. Unwound = [held EXCEPT !["buf"] = @ - Buffers]
      BY <2>1 DEF Unwound
    <3>2. QED
      BY <2>1, <2>2, <3>1, GiveReturns, IsoReturn
  <2>3. CASE Undefine
    BY <2>3, UndefineInv
  <2>4. CASE Goto("record", at) /\ UNCHANGED held
    BY <1>1, <2>1, <2>4, IsoSameDepth
  <2>5. QED
    BY <1>6, <2>2, <2>3, <2>4 DEF iso9660_find_block
<1>7. CASE iso9660_find_entry
  <2>1. pc = "record" /\ Busy /\ Buffers = at.depth /\ "depth" \in DOMAIN at
    BY <1>1, <1>7 DEF iso9660_find_entry, Busy, Buffers, MemInv, LocalsInv
  <2>2. CASE /\ Goto("block", [at EXCEPT !.off = U(@ + mounted.block_size), !.i = 1])
             /\ UNCHANGED held
    <3>1. /\ "depth" \in DOMAIN [at EXCEPT !.off = U(@ + mounted.block_size), !.i = 1]
          /\ [at EXCEPT !.off = U(@ + mounted.block_size), !.i = 1].depth = at.depth
      BY <2>1
    <3>2. QED
      BY <1>1, <2>1, <2>2, <3>1, IsoSameDepth
  <2>3. CASE Goto("record", [at EXCEPT !.i = @ + 1]) /\ UNCHANGED held
    <3>1. "depth" \in DOMAIN [at EXCEPT !.i = @ + 1] /\ [at EXCEPT !.i = @ + 1].depth = at.depth
      BY <2>1
    <3>2. QED
      BY <1>1, <2>1, <2>3, <3>1, IsoSameDepth
  <2>4. CASE \E locals : Goto("found", locals) /\ held' = Unwound
    <3>1. PICK locals : Goto("found", locals) /\ held' = Unwound
      BY <2>4
    <3>2. QED
      BY <1>1, <2>1, <3>1, IsoFound
  <2>5. CASE \E extent, size : Enter(extent, size, Tail(at.rest), at.depth)
    <3>1. PICK extent, size : Enter(extent, size, Tail(at.rest), at.depth)
      BY <2>5
    <3>2. QED
      BY <1>1, <2>1, <3>1, IsoEnter
  <2>6. QED
    BY <1>7, <2>2, <2>3, <2>4, <2>5 DEF iso9660_find_entry
<1>8. CASE iso9660_read_file
  <2>1. pc = "found" /\ Busy
    BY <1>8 DEF iso9660_read_file, Busy
  <2>2. CASE \E result : Return(result, held) /\ UNCHANGED mounted
    <3>1. PICK result : Return(result, held) /\ UNCHANGED mounted
      BY <2>2
    <3>2. QED
      BY <1>1, <2>1, <3>1, IsoReturnHeld
  <2>3. CASE Give(held, TRUE)
    BY <1>1, <2>1, <2>3, GiveReturns, IsoReturnHeld
  <2>4. CASE Undefine
    BY <2>4, UndefineInv
  <2>5. QED
    BY <1>8, <2>2, <2>3, <2>4 DEF iso9660_read_file
<1>9. CASE iso9660_list_dir
  <2>1. pc = "found" /\ Busy /\ Buffers = 0
    BY <1>1, <1>9 DEF iso9660_list_dir, Busy, Buffers
  <2>2. CASE Give(held, TRUE)
    BY <1>1, <2>1, <2>2, GiveReturns, IsoReturnHeld
  <2>3. CASE \E locals : Goto("listing", locals) /\ held' = Taking("buf")
    <3>1. PICK locals : Goto("listing", locals) /\ held' = Taking("buf")
      BY <2>3
    <3>2. pc' = "listing" /\ vol' = vol
      BY <3>1, OwnedKept DEF Goto
    <3>3. LocalsInv' /\ Buffers' = Buffers + 1
      BY <1>1, <2>1, <3>2 DEF LocalsInv, Buffers
    <3>4. QED
      BY <2>1, <3>1, <3>3, GotoTaking
  <2>4. QED
    BY <1>9, <2>2, <2>3 DEF iso9660_list_dir
<1>10. CASE iso9660_list_block
  <2>1. pc = "listing" /\ Busy /\ Buffers = 1
    BY <1>1, <1>10 DEF iso9660_list_block, Busy, Buffers
  <2>2. CASE Return(Ok(Len(out)), Giving("buf")) /\ UNCHANGED mounted
    BY <2>1, <2>2, ReturnBuffer
  <2>3. CASE Give(Giving("buf"), TRUE)
    BY <2>1, <2>3, GiveReturns, ReturnBuffer
  <2>4. CASE \E locals : Goto("listing", locals) /\ UNCHANGED held
    <3>1. PICK locals : Goto("listing", locals) /\ UNCHANGED held
      BY <2>4
    <3>2. pc' = "listing" /\ vol' = vol
      BY <3>1, OwnedKept DEF Goto
    <3>3. LocalsInv' /\ Buffers' = Buffers
      BY <1>1, <2>1, <3>2 DEF LocalsInv, Buffers
    <3>4. QED
      BY <2>1, <3>1, <3>3, GotoSame
  <2>5. QED
    BY <1>10, <2>2, <2>3, <2>4 DEF iso9660_list_block
<1>11. CASE iso9660_get_info
  <2>1. pc = "found" /\ Busy
    BY <1>11 DEF iso9660_get_info, Busy
  <2>2. CASE \E result : Return(result, held) /\ UNCHANGED mounted
    <3>1. PICK result : Return(result, held) /\ UNCHANGED mounted
      BY <2>2
    <3>2. QED
      BY <1>1, <2>1, <3>1, IsoReturnHeld
  <2>3. CASE Give(held, TRUE) \/ Give(held, FALSE)
    BY <1>1, <2>1, <2>3, GiveReturns, IsoReturnHeld
  <2>4. CASE Undefine
    BY <2>4, UndefineInv
  <2>5. QED
    BY <1>11, <2>2, <2>3, <2>4 DEF iso9660_get_info
<1>12. QED
  BY <1>2, <1>3, <1>4, <1>5, <1>6, <1>7, <1>8, <1>9, <1>10, <1>11 DEF iso9660_step

-----------------------------------------------------------------------------
(* The volumes *)

\* A step of any driver, any call and any answer taken keep account of memory.
THEOREM VolumesInvariance == Spec => []MemInv
<1>1. Init => MemInv
  BY InitInv
<1>2. MemInv /\ [Next]_vars => MemInv'
  <2>1. MemInv /\ UNCHANGED vars => MemInv'
    <3>1. SUFFICES ASSUME MemInv, UNCHANGED vars PROVE MemInv'
      OBVIOUS
    <3>2. /\ MountInv' /\ Owned' = Owned /\ vol' = vol
          /\ UNCHANGED <<disk, mounted, call, pc, at, ret, held, refused>>
      BY <3>1, OwnedKept DEF vars, MemInv
    <3>3. Buffers' = Buffers /\ Lost' = Lost
      BY <3>2 DEF Buffers, Lost
    <3>4. (CallInv' <=> CallInv) /\ (Busy' <=> Busy) /\ (LocalsInv' <=> LocalsInv)
      BY <3>2, <3>3 DEF CallInv, Busy, LocalsInv
    <3>5. MemoryGivenBack' <=> MemoryGivenBack
      BY <3>2, <3>3 DEF MemoryGivenBack
    <3>6. QED
      BY <3>1, <3>2, <3>4, <3>5 DEF MemInv
  <2>2. MemInv /\ Step => MemInv'
    BY Fat32Steps, Ext2Steps, Iso9660Steps DEF Step
  <2>3. QED
    BY <2>1, <2>2, CallsInv DEF Next
<1>3. QED
  BY <1>1, <1>2, PTL DEF Spec

\* Whatever the volume, the path and the failure, and on every path out of the
\* three drivers, a call gives back the memory it took, but for ext2_mount when
\* the group descriptors cannot be read, which loses their table.
THEOREM MemorySafe == Spec => []MemoryGivenBack
<1>1. MemInv => MemoryGivenBack
  BY DEF MemInv
<1>2. QED
  BY <1>1, VolumesInvariance, PTL

-----------------------------------------------------------------------------
(* Least elements *)

\* The least number of a set is the only one.
LEMMA LeastIs ==
  ASSUME NEW T, T \subseteq Nat, NEW m \in T, \A i \in T : m <= i
  PROVE  Least(T) = m
<1>1. \A n \in T : (\A i \in T : n <= i) => n = m
  <2>1. ASSUME NEW n \in T, \A i \in T : n <= i PROVE n = m
    <3>1. n <= m /\ m <= n /\ n \in Nat /\ m \in Nat
      BY <2>1
    <3>2. QED
      BY <3>1
  <2>2. QED
    BY <2>1
<1>2. Least(T) \in T /\ \A i \in T : Least(T) <= i
  BY Zenon DEF Least
<1>3. QED
  BY <1>1, <1>2

\* A set of naturals that has an element has a least one.
LEMMA LeastExists ==
  ASSUME NEW T, T \subseteq Nat, T # {}
  PROVE  Least(T) \in T /\ \A i \in T : Least(T) <= i
<1>1. PICK m \in T : \A i \in T : m <= i
  BY LeastElement
<1>2. QED
  BY <1>1, LeastIs

-----------------------------------------------------------------------------
(* The directory of a FAT32 volume *)

FatMounted ==
  /\ disk \in DOMAIN Disks /\ vol.driver = "fat32"
  /\ mounted.root_dir_first_cluster \in Nat /\ mounted.bytes_per_cluster \in Nat

\* The volume is one a disk can hold.
LEMMA FatVol == FatMounted => FatVolume(vol)
  BY Fat32Assumption DEF FatMounted, vol

\* What follows a cluster is a number, whatever the cluster.
LEMMA NextCluster ==
  ASSUME FatMounted, NEW c \in Nat
  PROVE  fat32_get_cluster(c) \in Nat
<1>1. vol.fat \in [0..(Eoc - 1) -> Nat] /\ Eoc \in Nat
  BY FatVol, Fat32Assumption DEF FatVolume
<1>2. CASE c >= Eoc
  BY <1>1, <1>2 DEF fat32_get_cluster
<1>3. CASE ~(c >= Eoc)
  <2>1. c \in 0..(Eoc - 1)
    BY <1>1, <1>3
  <2>2. QED
    BY <1>1, <1>3, <2>1 DEF fat32_get_cluster
<1>4. QED
  BY <1>2, <1>3

\* The clusters of a chain follow each other.
LEMMA FatChain ==
  ASSUME FatMounted, NEW c \in Nat
  PROVE  /\ Links(c) \in [Nat -> Nat] /\ Links(c)[0] = c
         /\ \A n \in Nat : Links(c)[n + 1] = fat32_get_cluster(Links(c)[n])
<1> DEFINE step == [x \in Nat |-> fat32_get_cluster(x)]
           Made(f) == f = [n \in Nat |-> IF n = 0 THEN c ELSE fat32_get_cluster(f[n - 1])]
           l == CHOOSE f : Made(f)
<1>1. step \in [Nat -> Nat]
  BY NextCluster
<1>2. \A x \in Nat : step[x] = fat32_get_cluster(x)
  OBVIOUS
<1> HIDE DEF step
<1>3. PICK f \in [Nat -> Nat] : Iterates(f, c, step)
  BY <1>1, RecursionOverNat
<1>4. Made(f)
  <2>1. ASSUME NEW n \in Nat PROVE f[n] = IF n = 0 THEN c ELSE fat32_get_cluster(f[n - 1])
    <3>1. CASE n = 0
      BY <1>3, <3>1 DEF Iterates
    <3>2. CASE n # 0
      <4>1. n - 1 \in Nat /\ (n - 1) + 1 = n
        BY <3>2
      <4>2. f[(n - 1) + 1] = step[f[n - 1]] /\ f[n - 1] \in Nat
        BY <1>3, <4>1 DEF Iterates
      <4>3. QED
        BY <1>2, <3>2, <4>1, <4>2
    <3>3. QED
      BY <3>1, <3>2
  <2>2. QED
    BY <2>1
<1>5. Made(l)
  <2> HIDE DEF Made
  <2> QED
    BY <1>4, Zenon
<1>6. Links(c) = l
  BY DEF Links
<1> HIDE DEF l
<1>7. /\ l[0] = c /\ l = [n \in Nat |-> l[n]]
      /\ \A n \in Nat : l[n + 1] = fat32_get_cluster(l[n])
  <2>1. \A n \in Nat : l[n] = IF n = 0 THEN c ELSE fat32_get_cluster(l[n - 1])
    BY <1>5
  <2>2. l = [n \in Nat |-> l[n]]
    BY <1>5
  <2>3. ASSUME NEW n \in Nat PROVE l[n + 1] = fat32_get_cluster(l[n])
    <3>1. n + 1 \in Nat /\ n + 1 # 0 /\ (n + 1) - 1 = n
      OBVIOUS
    <3>2. QED
      BY <2>1, <3>1
  <2>4. QED
    BY <2>1, <2>2, <2>3
<1>8. \A n \in Nat : l[n] \in Nat
  <2> DEFINE T == {i \in Nat : l[i] \in Nat}
  <2>1. 0 \in T
    BY <1>7
  <2>2. ASSUME NEW n \in Nat PROVE n \in T
    <3>1. ASSUME NEW k \in 0..(n - 1), k \in T PROVE k + 1 \in T
      <4>1. k \in Nat /\ k + 1 \in Nat /\ l[k] \in Nat
        BY <3>1
      <4>2. l[k + 1] = fat32_get_cluster(l[k])
        BY <1>7, <4>1
      <4>3. QED
        BY <4>1, <4>2, NextCluster
    <3> HIDE DEF T
    <3>2. 0..n \subseteq T
      BY <2>1, <3>1, IntervalInduction
    <3>3. QED
      BY <3>2
  <2>3. QED
    BY <2>2
<1>9. QED
  BY <1>6, <1>7, <1>8

\* One that has come to the end of the table once has come back to where it
\* was among the first Eoc clusters.
LEMMA FatChainReturns ==
  ASSUME FatMounted, NEW c \in Nat, NEW n \in Nat, n >= Eoc,
         \A i \in 0..n : Links(c)[i] < Eoc
  PROVE  \E m \in 0..(n - 1) : m < Eoc /\ Links(c)[m] = Links(c)[n]
<1> DEFINE link == Links(c)
<1>1. /\ link \in [Nat -> Nat] /\ Eoc \in Nat
      /\ \A i \in Nat : link[i + 1] = fat32_get_cluster(link[i])
  BY FatChain, Fat32Assumption
<1>2. \A i \in 0..n : link[i] < Eoc
  OBVIOUS
<1> HIDE DEF link
<1>3. \A i, j \in Nat : link[i] = link[j] => link[i + 1] = link[j + 1]
  BY <1>1
<1>4. \E m \in 0..(n - 1) : m < Eoc /\ link[m] = link[n]
  BY <1>1, <1>2, <1>3, ComesBack
<1>5. QED
  BY <1>4 DEF link

\* The clusters of the table hold entries.
LEMMA ClusterEntries ==
  ASSUME FatMounted, NEW c \in Nat, c < Eoc
  PROVE  vol.dir[c] \in Seq(FatEntries)
<1>1. vol.dir \in [0..(Eoc - 1) -> Seq(FatEntries)] /\ Eoc \in Nat
  BY FatVol, Fat32Assumption DEF FatVolume
<1>2. c \in 0..(Eoc - 1)
  BY <1>1
<1>3. QED
  BY <1>1, <1>2

\* What the clusters of a chain hold, cluster by cluster.
LEMMA ContentsOf ==
  ASSUME FatMounted, NEW link \in [Nat -> Nat], NEW n \in Nat, NEW S,
         \A i \in 0..(n - 1) : vol.dir[link[i]] \in Seq(S)
  PROVE  /\ n = 0 => Contents(link, n) = << >>
         /\ Contents(link, n) \in Seq(S)
         /\ n > 0 => Contents(link, n) = Contents(link, n - 1) \o vol.dir[link[n - 1]]
<1> DEFINE h == [i \in 1..n |-> vol.dir[link[i - 1]]]
<1>1. AllLists(h, n, S)
  <2>1. \A i \in 1..n : i - 1 \in 0..(n - 1)
    OBVIOUS
  <2>2. QED
    BY <2>1 DEF AllLists
<1>2. \A m \in 0..n : Joined(h, m) = Contents(link, m)
  <2>1. ASSUME NEW m \in 0..n PROVE [i \in 1..m |-> h[i]] = [i \in 1..m |-> vol.dir[link[i - 1]]]
    OBVIOUS
  <2> HIDE DEF h
  <2>2. QED
    BY <2>1 DEF Joined, Contents
<1>3. n > 0 => h[n] = vol.dir[link[n - 1]]
  OBVIOUS
<1> HIDE DEF h
<1>4. /\ n = 0 => Joined(h, n) = << >>
      /\ Joined(h, n) \in Seq(S)
      /\ n > 0 => Joined(h, n) = Joined(h, n - 1) \o h[n]
  BY <1>1, JoinedLists
<1>5. Joined(h, n) = Contents(link, n) /\ (n > 0 => Joined(h, n - 1) = Contents(link, n - 1))
  BY <1>2
<1>6. QED
  BY <1>3, <1>4, <1>5

\* What the first clusters hold comes first.
LEMMA ContentsSplit ==
  ASSUME FatMounted, NEW link \in [Nat -> Nat], NEW m \in Nat,
         \A i \in 0..(m - 1) : link[i] < Eoc, NEW n \in 0..(m - 1)
  PROVE  \E r \in Seq(FatEntries) :
           Contents(link, m) = (Contents(link, n) \o vol.dir[link[n]]) \o r
<1> DEFINE h == [i \in 1..m |-> vol.dir[link[i - 1]]]
<1>1. ASSUME NEW i \in 0..(m - 1) PROVE vol.dir[link[i]] \in Seq(FatEntries)
  <2>1. link[i] \in Nat /\ link[i] < Eoc
    OBVIOUS
  <2>2. QED
    BY <2>1, ClusterEntries
<1>2. AllLists(h, m, FatEntries)
  <2>1. \A i \in 1..m : i - 1 \in 0..(m - 1)
    OBVIOUS
  <2>2. QED
    BY <1>1, <2>1 DEF AllLists
<1>3. \A k \in 0..m : Joined(h, k) = Contents(link, k)
  <2>1. ASSUME NEW k \in 0..m PROVE [i \in 1..k |-> h[i]] = [i \in 1..k |-> vol.dir[link[i - 1]]]
    OBVIOUS
  <2> HIDE DEF h
  <2>2. QED
    BY <2>1 DEF Joined, Contents
<1> HIDE DEF h
<1>4. n + 1 \in 0..m /\ m \in 0..m /\ n + 1 \in Nat /\ n + 1 > 0 /\ (n + 1) - 1 = n
  OBVIOUS
<1>5. PICK r \in Seq(FatEntries) : Joined(h, m) = Joined(h, n + 1) \o r
  <2>1. Continues(Joined(h, m), Joined(h, n + 1), FatEntries)
    BY <1>2, <1>4, JoinedPrefix
  <2>2. QED
    BY <2>1 DEF Continues
<1>6. Contents(link, n + 1) = Contents(link, n) \o vol.dir[link[n]]
  <2>1. \A i \in 0..((n + 1) - 1) : vol.dir[link[i]] \in Seq(FatEntries)
    BY <1>1
  <2>2. Contents(link, n + 1) = Contents(link, (n + 1) - 1) \o vol.dir[link[(n + 1) - 1]]
    BY <1>4, <2>1, ContentsOf
  <2>3. QED
    BY <1>4, <2>2
<1>7. Contents(link, m) = Contents(link, n + 1) \o r
  BY <1>3, <1>4, <1>5
<1>8. QED
  BY <1>6, <1>7, Zenon

\* The first end of a directory is behind n entries, or there is none.
EndsBehind(all, n) ==
  /\ n \in 0..Len(all)
  /\ UpToEnd(all) = SubSeq(all, 1, n)
  /\ \A i \in 1..n : all[i].kind # "end"
  /\ n < Len(all) => all[n + 1].kind = "end"

\* The entries before the first end are those of a directory.
LEMMA UpToEndIs ==
  ASSUME NEW all \in Seq(FatEntries)
  PROVE  \E n \in Nat : EndsBehind(all, n)
<1> DEFINE ends == {i \in 1..Len(all) : all[i].kind = "end"}
<1>1. Len(all) \in Nat /\ DOMAIN all = 1..Len(all)
  BY LenProperties
<1>2. UpToEnd(all) = SubSeq(all, 1, LeastOr(ends, Len(all) + 1) - 1)
  BY <1>1 DEF UpToEnd
<1>3. CASE ends = {}
  <2>1. LeastOr(ends, Len(all) + 1) - 1 = Len(all)
    BY <1>1, <1>3 DEF LeastOr
  <2>2. QED
    <3>1. EndsBehind(all, Len(all))
      <4>1. UpToEnd(all) = SubSeq(all, 1, Len(all))
        BY <1>2, <2>1
      <4>2. \A i \in 1..Len(all) : all[i].kind # "end"
        BY <1>3
      <4>3. QED
        BY <1>1, <4>1, <4>2 DEF EndsBehind
    <3>2. QED
      BY <1>1, <3>1
<1>4. CASE ends # {}
  <2> DEFINE m == Least(ends)
  <2>1. ends \subseteq Nat
    BY <1>1
  <2>2. LeastOr(ends, Len(all) + 1) = m
    BY <1>4 DEF LeastOr
  <2>3. m \in ends /\ \A i \in ends : m <= i
    <3> HIDE DEF ends
    <3> QED
      BY <1>4, <2>1, LeastExists
  <2> HIDE DEF m
  <2>4. m - 1 \in 0..Len(all) /\ (m - 1) + 1 = m
    BY <1>1, <2>3
  <2>5. \A i \in 1..(m - 1) : all[i].kind # "end"
    BY <1>1, <2>3
  <2>6. QED
    <3>1. EndsBehind(all, m - 1)
      BY <1>2, <2>2, <2>3, <2>4, <2>5 DEF EndsBehind
    <3>2. m - 1 \in Nat
      BY <1>1, <2>4
    <3>3. QED
      BY <3>1, <3>2
<1>5. QED
  BY <1>3, <1>4

\* The entries that end the search for a part.
Ends == {e \in FatEntries : e.kind = "end"}
Matches(part) == {e \in FatEntries : Live(e) /\ e.name = fatname(part)}
Stops(part) == Ends \cup Matches(part)

\* The search has passed the first n clusters of a chain.
Passed(link, n, part) ==
  \A i \in 0..(n - 1) : Loads(link[i]) /\ vol.dir[link[i]] \in Seq(FatEntries \ Stops(part))

\* The part of a chain that is read as a directory.
LEMMA LoadedIs ==
  ASSUME FatMounted, NEW link \in [Nat -> Nat]
  PROVE  /\ Loaded(link) \in 0..Eoc
         /\ \A i \in 0..(Loaded(link) - 1) : Loads(link[i])
         /\ \A n \in 0..(Eoc - 1) : ~Loads(link[n]) => Loaded(link) <= n
         /\ Loaded(link) < Eoc => ~Loads(link[Loaded(link)])
<1> DEFINE T == {n \in 0..Eoc : ~Loads(link[n])}
           m == LeastOr(T, Eoc)
<1>1. Eoc \in Nat /\ T \subseteq Nat
  BY Fat32Assumption
<1>2. Loaded(link) = m
  BY DEF Loaded
<1>3. CASE T = {}
  BY <1>1, <1>2, <1>3 DEF LeastOr
<1>4. CASE T # {}
  <2>1. m = Least(T)
    BY <1>4 DEF LeastOr
  <2>2. Least(T) \in T /\ \A i \in T : Least(T) <= i
    <3> HIDE DEF T
    <3> QED
      BY <1>1, <1>4, LeastExists
  <2> HIDE DEF m
  <2>3. m \in 0..Eoc /\ ~Loads(link[m]) /\ \A i \in 0..Eoc : ~Loads(link[i]) => m <= i
    BY <2>1, <2>2
  <2>4. \A i \in 0..(m - 1) : Loads(link[i])
    BY <1>1, <2>3
  <2>5. QED
    BY <1>1, <1>2, <2>3, <2>4
<1>5. QED
  BY <1>3, <1>4

\* A list without an end or match has no hit.
LEMMA NoHitAmong ==
  ASSUME NEW part, NEW all \in Seq(FatEntries \ Stops(part))
  PROVE  Hits(UpToEnd(all), part) = {}
<1>1. all \in Seq(FatEntries) /\ \A i \in 1..Len(all) : all[i] \in FatEntries \ Stops(part)
  BY SeqMonotonic, ElementOfSeq
<1>2. PICK n \in Nat : EndsBehind(all, n)
  BY <1>1, UpToEndIs
<1> DEFINE d == UpToEnd(all)
<1>3. d \in Seq(FatEntries) /\ Len(d) = n /\ \A i \in 1..n : d[i] = all[i] /\ i \in 1..Len(all)
  <2>1. d = SubSeq(all, 1, n) /\ n \in 0..Len(all) /\ Len(all) \in Nat
    BY <1>1, <1>2, LenProperties DEF EndsBehind
  <2>2. \A i \in 1..n : all[i] \in FatEntries
    BY <1>1, <2>1
  <2> HIDE DEF d
  <2>3. QED
    BY <2>1, <2>2, SubSeqProperties
<1> HIDE DEF d
<1>4. DOMAIN d = 1..n
  BY <1>3, LenProperties
<1>5. ASSUME NEW i \in Hits(d, part) PROVE FALSE
  <2>1. i \in 1..n /\ Live(d[i]) /\ d[i].name = fatname(part)
    BY <1>4 DEF Hits
  <2>2. d[i] = all[i] /\ all[i] \in FatEntries \ Stops(part)
    BY <1>1, <1>3, <2>1
  <2>3. QED
    BY <2>1, <2>2 DEF Stops, Matches
<1>6. QED
  BY <1>5 DEF d

\* The first of all entries that ends the search for a part, when it is an
\* end: there is no hit; when it is a match: it is the first hit.
LEMMA FirstStop ==
  ASSUME NEW part, NEW all \in Seq(FatEntries), NEW p \in 1..Len(all), all[p] \in Stops(part),
         \A i \in 1..(p - 1) : all[i] \notin Stops(part)
  PROVE  /\ all[p].kind = "end" => Hits(UpToEnd(all), part) = {}
         /\ all[p].kind # "end" => /\ Hits(UpToEnd(all), part) # {}
                                   /\ UpToEnd(all)[Least(Hits(UpToEnd(all), part))] = all[p]
<1>1. PICK n \in Nat : EndsBehind(all, n)
  BY UpToEndIs
<1> DEFINE d == UpToEnd(all)
<1>2. Len(all) \in Nat /\ \A i \in 1..Len(all) : all[i] \in FatEntries
  BY LenProperties, ElementOfSeq
<1>3. d \in Seq(FatEntries) /\ Len(d) = n /\ \A i \in 1..n : d[i] = all[i] /\ i \in 1..Len(all)
  <2>1. d = SubSeq(all, 1, n) /\ n \in 0..Len(all)
    BY <1>1 DEF EndsBehind
  <2>2. \A i \in 1..n : all[i] \in FatEntries
    BY <1>2, <2>1
  <2> HIDE DEF d
  <2>3. QED
    BY <1>2, <2>1, <2>2, SubSeqProperties
<1> HIDE DEF d
<1>4. DOMAIN d = 1..n
  BY <1>3, LenProperties
<1>5. Hits(d, part) = {i \in 1..n : all[i] \in Matches(part)}
  <2>1. Hits(d, part) = {i \in 1..n : Live(d[i]) /\ d[i].name = fatname(part)}
    BY <1>4 DEF Hits
  <2>2. \A i \in 1..n : Live(d[i]) /\ d[i].name = fatname(part) <=> all[i] \in Matches(part)
    BY <1>2, <1>3 DEF Matches
  <2>3. QED
    BY <2>1, <2>2
<1>6. CASE all[p].kind = "end"
  <2>1. n < p
    BY <1>1, <1>6 DEF EndsBehind
  <2>2. \A i \in 1..n : all[i] \notin Matches(part)
    BY <2>1 DEF Stops
  <2>3. Hits(d, part) = {}
    BY <1>5, <2>2
  <2>4. QED
    BY <1>6, <2>3 DEF d
<1>7. CASE all[p].kind # "end"
  <2>1. p <= n
    <3>1. CASE n < p
      <4>1. n + 1 \in 1..p /\ n < Len(all)
        BY <1>2, <3>1
      <4>2. all[n + 1].kind = "end" /\ n + 1 # p
        BY <1>1, <1>7, <4>1 DEF EndsBehind
      <4>3. all[n + 1] \in Stops(part) /\ n + 1 \in 1..(p - 1)
        BY <1>2, <4>1, <4>2 DEF Stops, Ends
      <4>4. QED
        BY <4>3
    <3>2. QED
      BY <3>1
  <2>2. all[p] \in Matches(part)
    BY <1>7 DEF Stops, Ends
  <2>3. p \in Hits(d, part) /\ Hits(d, part) \subseteq Nat
    BY <1>5, <2>1, <2>2
  <2>4. \A i \in Hits(d, part) : p <= i
    BY <1>5 DEF Stops
  <2>5. Least(Hits(d, part)) = p
    <3> DEFINE T == Hits(d, part)
    <3> HIDE DEF T
    <3>1. p \in T /\ T \subseteq Nat /\ \A i \in T : p <= i
      BY <2>3, <2>4 DEF T
    <3>2. Least(T) = p
      BY <3>1, LeastIs
    <3>3. QED
      BY <3>2 DEF T
  <2>6. d[p] = all[p]
    BY <1>3, <2>1
  <2>7. QED
    BY <1>7, <2>3, <2>5, <2>6 DEF d
<1>8. QED
  BY <1>6, <1>7

\* Clusters that the search has passed have no match before their end.
LEMMA PassedContents ==
  ASSUME FatMounted, NEW link \in [Nat -> Nat], NEW n \in Nat, NEW part, Passed(link, n, part),
         NEW m \in 0..n
  PROVE  Contents(link, m) \in Seq(FatEntries \ Stops(part))
<1>1. \A i \in 0..(m - 1) : vol.dir[link[i]] \in Seq(FatEntries \ Stops(part))
  BY DEF Passed
<1>2. m \in Nat
  OBVIOUS
<1>3. QED
  BY <1>1, <1>2, ContentsOf

\* What the search has passed when the chain ends or leaves the volume: there
\* is no such entry.
LEMMA NotOnChain ==
  ASSUME FatMounted, NEW c \in Nat, NEW n \in Nat, NEW part, Passed(Links(c), n, part),
         ~Loads(Links(c)[n])
  PROVE  Hits(Directory(c), part) = {}
<1> DEFINE link == Links(c)
           m == Loaded(link)
<1>1. link \in [Nat -> Nat] /\ Eoc \in Nat
  BY FatChain, Fat32Assumption
<1>2. m \in 0..Eoc /\ (n < Eoc => m <= n)
  <2>1. m \in 0..Eoc /\ \A k \in 0..(Eoc - 1) : ~Loads(link[k]) => m <= k
    BY <1>1, LoadedIs
  <2> HIDE DEF m
  <2>2. QED
    BY <1>1, <2>1
<1> HIDE DEF m
<1>3. m \in 0..n
  BY <1>1, <1>2
<1>4. Contents(link, m) \in Seq(FatEntries \ Stops(part))
  BY <1>1, <1>3, PassedContents
<1>5. Directory(c) = UpToEnd(Contents(link, m))
  BY DEF Directory, m
<1>6. QED
  BY <1>4, <1>5, NoHitAmong

\* The first entry of the chain from c that ends the search is e.
StopsAt(c, part, e) ==
  \E all \in Seq(FatEntries) : \E p \in 1..Len(all) :
    /\ Directory(c) = UpToEnd(all)
    /\ all[p] = e
    /\ \A i \in 1..(p - 1) : all[i] \notin Stops(part)

\* The first entry of a cluster that ends the search is the first of all, or
\* the chain has come back to clusters without one.
LEMMA StopOnChain ==
  ASSUME FatMounted, NEW c \in Nat, NEW n \in Nat, NEW part, Passed(Links(c), n, part),
         Loads(Links(c)[n]), NEW j \in 1..Len(vol.dir[Links(c)[n]]),
         vol.dir[Links(c)[n]][j] \in Stops(part),
         \A i \in 1..(j - 1) : vol.dir[Links(c)[n]][i] \notin Stops(part)
  PROVE  StopsAt(c, part, vol.dir[Links(c)[n]][j])
<1> DEFINE link == Links(c)
           b == vol.dir[link[n]]
           m == Loaded(link)
<1>1. link \in [Nat -> Nat] /\ Eoc \in Nat
  BY FatChain, Fat32Assumption
<1>2. /\ m \in 0..Eoc /\ \A i \in 0..(m - 1) : Loads(link[i])
      /\ m < Eoc => ~Loads(link[m])
  BY <1>1, LoadedIs
<1>3. b \in Seq(FatEntries)
  BY <1>1, ClusterEntries DEF Loads
<1>4. \A i \in 0..n : Loads(link[i])
  BY DEF Passed
<1> HIDE DEF m
<1>5. n < m
  <2>1. CASE n >= m
    <3>1. m = Eoc
      BY <1>1, <1>2, <1>4, <2>1
    <3>2. \A i \in 0..n : link[i] < Eoc
      BY <1>4 DEF Loads
    <3>3. PICK k \in 0..(n - 1) : k < Eoc /\ link[k] = link[n]
      BY <2>1, <3>1, <3>2, FatChainReturns
    <3>4. b \in Seq(FatEntries \ Stops(part))
      BY <3>3 DEF Passed
    <3>5. QED
      BY <3>4, ElementOfSeq
  <2>2. QED
    BY <1>1, <1>2, <2>1
<1>6. n \in 0..(m - 1) /\ m \in Nat /\ \A i \in 0..(m - 1) : link[i] < Eoc
  <2>1. n \in 0..(m - 1) /\ m \in Nat
    BY <1>1, <1>2, <1>5
  <2>2. \A i \in 0..(m - 1) : Loads(link[i])
    BY <1>2
  <2>3. \A i \in 0..(m - 1) : link[i] < Eoc
    BY <2>2 DEF Loads
  <2>4. QED
    BY <2>1, <2>3
<1>7. PICK r \in Seq(FatEntries) : Contents(link, m) = (Contents(link, n) \o b) \o r
  BY <1>1, <1>6, ContentsSplit
<1>8. Contents(link, n) \in Seq(FatEntries \ Stops(part))
  <2>1. n \in 0..n
    OBVIOUS
  <2>2. QED
    BY <1>1, <2>1, PassedContents
<1> DEFINE a == Contents(link, n)
           all == (a \o b) \o r
           p == Len(a) + j
<1>9. b[j] \in Stops(part) /\ \A i \in 1..(j - 1) : b[i] \notin Stops(part)
  OBVIOUS
<1>10. j \in 1..Len(b)
  OBVIOUS
<1>11. Directory(c) = UpToEnd(all)
  BY <1>7 DEF Directory, m
<1> HIDE DEF b, link
<1>12. a \in Seq(FatEntries \ Stops(part))
  BY <1>8
<1> HIDE DEF a
<1>13. /\ all \in Seq(FatEntries) /\ p \in 1..Len(all) /\ all[p] = b[j]
       /\ \A i \in 1..(p - 1) : all[i] \notin Stops(part)
  BY <1>3, <1>9, <1>10, <1>12, FirstMatch
<1> HIDE DEF all, p
<1>14. QED
  <2>1. StopsAt(c, part, b[j])
    BY <1>11, <1>13 DEF StopsAt
  <2>2. QED
    BY <2>1 DEF b, link

\* The stops of a cluster are what fat32_find_file looks for there.
LEMMA StopsOf ==
  ASSUME NEW b \in Seq(FatEntries), NEW part
  PROVE  /\ FirstOf(b, fatname(part)) =
              {i \in 1..Len(b) : b[i] \in Matches(part) /\ \A j \in 1..(i - 1) : b[j] \notin Stops(part)}
         /\ \A i \in 1..Len(b) : b[i].kind = "end" <=> b[i] \in Ends
         /\ DOMAIN b = 1..Len(b)
<1>1. DOMAIN b = 1..Len(b) /\ \A i \in 1..Len(b) : b[i] \in FatEntries
  BY LenProperties, ElementOfSeq
<1>2. \A i \in 1..Len(b) : Live(b[i]) /\ b[i].name = fatname(part) <=> b[i] \in Matches(part)
  BY <1>1 DEF Matches
<1>3. \A i \in 1..Len(b) : b[i].kind = "end" <=> b[i] \in Ends
  BY <1>1 DEF Ends
<1>4. \A i \in 1..Len(b) : \A j \in 1..(i - 1) : j \in 1..Len(b)
  BY LenProperties
<1>5. \A i \in 1..Len(b) : \A j \in 1..(i - 1) :
        b[j] \notin Stops(part) <=> b[j].kind # "end" /\ ~(Live(b[j]) /\ b[j].name = fatname(part))
  BY <1>2, <1>3, <1>4 DEF Stops
<1>6. QED
  BY <1>1, <1>2, <1>3, <1>5 DEF FirstOf

\* The search ends at an end with no match before it: there is no such entry.
LEMMA NotInCluster ==
  ASSUME FatMounted, NEW c \in Nat, NEW n \in Nat, NEW part, Passed(Links(c), n, part),
         Loads(Links(c)[n]), FirstOf(vol.dir[Links(c)[n]], fatname(part)) = {},
         \E i \in DOMAIN vol.dir[Links(c)[n]] : vol.dir[Links(c)[n]][i].kind = "end"
  PROVE  Hits(Directory(c), part) = {}
<1> DEFINE b == vol.dir[Links(c)[n]]
           T == {i \in 1..Len(b) : b[i] \in Stops(part)}
<1>1. b \in Seq(FatEntries) /\ Len(b) \in Nat
  <2>1. b \in Seq(FatEntries)
    BY FatChain, ClusterEntries DEF Loads
  <2>2. QED
    BY <2>1, LenProperties
<1>2. /\ \A i \in 1..Len(b) : b[i] \in Matches(part) => \E j \in 1..(i - 1) : b[j] \in Stops(part)
      /\ \A i \in 1..Len(b) : b[i].kind = "end" <=> b[i] \in Ends
      /\ \E i \in 1..Len(b) : b[i].kind = "end"
  BY <1>1, StopsOf
<1>3. T # {} /\ T \subseteq Nat
  BY <1>1, <1>2 DEF Stops
<1>4. PICK j \in T : \A i \in T : j <= i
  <2> HIDE DEF T
  <2>1. QED
    BY <1>3, LeastElement
<1>5. j \in 1..Len(b) /\ b[j] \in Stops(part) /\ \A i \in 1..(j - 1) : b[i] \notin Stops(part)
  BY <1>1, <1>4
<1>6. b[j].kind = "end"
  BY <1>2, <1>5 DEF Stops
<1>7. StopsAt(c, part, b[j])
  BY <1>5, StopOnChain
<1>8. PICK all \in Seq(FatEntries) : \E p \in 1..Len(all) :
           /\ Directory(c) = UpToEnd(all)
           /\ all[p] = b[j]
           /\ \A i \in 1..(p - 1) : all[i] \notin Stops(part)
  BY <1>7 DEF StopsAt
<1>8a. PICK p \in 1..Len(all) :
           /\ Directory(c) = UpToEnd(all)
           /\ all[p] = b[j]
           /\ \A i \in 1..(p - 1) : all[i] \notin Stops(part)
  BY <1>8
<1> HIDE DEF b
<1>9. QED
  BY <1>5, <1>6, <1>8a, FirstStop

\* The first entry of that name in a directory is e.
FirstHit(c, part, e) ==
  /\ Hits(Directory(c), part) # {}
  /\ Directory(c)[Least(Hits(Directory(c), part))] = e

\* It ends at a match: the first entry of that name.
LEMMA FoundInCluster ==
  ASSUME FatMounted, NEW c \in Nat, NEW n \in Nat, NEW part, Passed(Links(c), n, part),
         Loads(Links(c)[n]), NEW j \in FirstOf(vol.dir[Links(c)[n]], fatname(part))
  PROVE  FirstHit(c, part, vol.dir[Links(c)[n]][j])
<1> DEFINE b == vol.dir[Links(c)[n]]
<1>1. b \in Seq(FatEntries)
  BY FatChain, ClusterEntries DEF Loads
<1>2. /\ j \in 1..Len(b) /\ b[j] \in Matches(part) /\ \A i \in 1..(j - 1) : b[i] \notin Stops(part)
      /\ b[j].kind # "end"
  <2>1. j \in 1..Len(b) /\ b[j] \in Matches(part) /\ \A i \in 1..(j - 1) : b[i] \notin Stops(part)
    BY <1>1, StopsOf
  <2>2. b[j].kind # "end"
    BY <2>1 DEF Matches, Live
  <2>3. QED
    BY <2>1, <2>2
<1>3. b[j] \in Stops(part)
  BY <1>2 DEF Stops
<1>4. StopsAt(c, part, b[j])
  BY <1>2, <1>3, StopOnChain
<1>5. PICK all \in Seq(FatEntries) : \E p \in 1..Len(all) :
           /\ Directory(c) = UpToEnd(all)
           /\ all[p] = b[j]
           /\ \A i \in 1..(p - 1) : all[i] \notin Stops(part)
  BY <1>4 DEF StopsAt
<1>5a. PICK p \in 1..Len(all) :
           /\ Directory(c) = UpToEnd(all)
           /\ all[p] = b[j]
           /\ \A i \in 1..(p - 1) : all[i] \notin Stops(part)
  BY <1>5
<1> HIDE DEF b
<1>6. QED
  <2>1. FirstHit(c, part, b[j])
    BY <1>2, <1>3, <1>5a, FirstStop DEF FirstHit
  <2>2. QED
    BY <2>1 DEF b

\* It goes on to the next cluster.
LEMMA PassesCluster ==
  ASSUME FatMounted, NEW c \in Nat, NEW n \in Nat, NEW part, Passed(Links(c), n, part),
         Loads(Links(c)[n]), FirstOf(vol.dir[Links(c)[n]], fatname(part)) = {},
         \A i \in DOMAIN vol.dir[Links(c)[n]] : vol.dir[Links(c)[n]][i].kind # "end"
  PROVE  Passed(Links(c), n + 1, part)
<1> DEFINE b == vol.dir[Links(c)[n]]
           T == {i \in 1..Len(b) : b[i] \in Stops(part)}
<1>1. b \in Seq(FatEntries) /\ Len(b) \in Nat
  <2>1. b \in Seq(FatEntries)
    BY FatChain, ClusterEntries DEF Loads
  <2>2. QED
    BY <2>1, LenProperties
<1>2. /\ \A i \in 1..Len(b) : b[i] \in Matches(part) => \E j \in 1..(i - 1) : b[j] \in Stops(part)
      /\ \A i \in 1..Len(b) : b[i] \notin Ends
  <2>1. FirstOf(b, fatname(part)) = {} /\ \A i \in DOMAIN b : b[i].kind # "end"
    OBVIOUS
  <2> HIDE DEF b, T
  <2>2. /\ FirstOf(b, fatname(part)) =
             {i \in 1..Len(b) : b[i] \in Matches(part) /\ \A j \in 1..(i - 1) : b[j] \notin Stops(part)}
        /\ \A i \in 1..Len(b) : b[i].kind = "end" <=> b[i] \in Ends
        /\ DOMAIN b = 1..Len(b)
    BY <1>1, StopsOf
  <2>3. ASSUME NEW i \in 1..Len(b), b[i] \in Matches(part)
        PROVE  \E j \in 1..(i - 1) : b[j] \in Stops(part)
    <3>1. i \notin FirstOf(b, fatname(part))
      BY <2>1
    <3>2. QED
      BY <2>2, <2>3, <3>1
  <2>4. QED
    BY <2>1, <2>2, <2>3
<1>3. T = {}
  <2>1. CASE T # {}
    <3>1. T \subseteq Nat
      BY <1>1
    <3>2. PICK j \in T : \A i \in T : j <= i
      <4> HIDE DEF T
      <4>1. QED
        BY <2>1, <3>1, LeastElement
    <3>3. PICK i \in 1..(j - 1) : b[i] \in Stops(part)
      BY <1>2, <3>2 DEF Stops
    <3>4. i \in T /\ i < j
      BY <1>1, <3>2, <3>3
    <3>5. QED
      BY <1>1, <3>2, <3>4
  <2>2. QED
    BY <2>1
<1>4. b \in Seq(FatEntries \ Stops(part))
  <2>1. \A i \in 1..Len(b) : b[i] \in FatEntries \ Stops(part)
    BY <1>1, <1>3, ElementOfSeq
  <2> HIDE DEF b
  <2>2. QED
    BY <1>1, <2>1
<1>5. QED
  BY <1>4 DEF Passed

-----------------------------------------------------------------------------
(* What every state says of the mount and of the call *)

Serving == {"open", "part", "search", "found", "skip", "copy", "list", "entry", "chunk",
            "block", "record", "listing"}

\* A mount is of the volume on the disk.
MountTyped ==
  mounted # Nothing =>
    /\ vol.driver = "fat32" =>
         mounted.root_dir_first_cluster \in Nat /\ mounted.bytes_per_cluster \in Nat
    /\ vol.driver = "ext2" =>
         /\ mounted.block_size = vol.block_size /\ mounted.inodes_per_group = vol.inodes_per_group
         /\ vol.block_size # 0 /\ mounted.group_count \in Nat
    /\ vol.driver = "iso9660" =>
         /\ mounted.block_size = vol.block_size
         /\ mounted.root \in Nat /\ mounted.root_size = vol.root_size

\* A loop runs for the call it belongs to.
CallTyped ==
  /\ pc \in Serving \cup {"idle", "detect", "mount", "unmount", "done", "undefined"}
  /\ pc \in {"detect", "mount", "unmount"} => call.op = pc
  /\ pc \in Serving =>
       /\ mounted # Nothing /\ call.op \in {"read", "list", "info"} /\ call.path \in Paths
       /\ call.size \in 0..(Wrap - 1) /\ call.offset \in 0..(Wrap - 1)
  /\ pc \in {"skip", "copy", "chunk"} => call.op = "read"
  /\ pc \in {"list", "listing"} => call.op = "list"
  /\ vol.driver = "ext2" /\ pc \in {"block", "record"} => call.op = "list"
  /\ pc \notin {"idle", "undefined"} /\ call.op \in {"read", "list", "info"} =>
       mounted # Nothing /\ call.path \in Paths

Typed == disk \in DOMAIN Disks /\ MountTyped /\ CallTyped

\* A volume and a mount that stay are what they were.
LEMMA MountKept ==
  ASSUME UNCHANGED <<disk, mounted>>
  PROVE  vol' = vol /\ (MountTyped' <=> MountTyped)
  BY DEF vol, MountTyped

\* A call that ends, or ends in nothing known, has no loop.
LEMMA TypedEnd ==
  ASSUME Typed, UNCHANGED <<disk, mounted>>, pc' \in {"done", "undefined", "idle"},
         pc' = "done" => UNCHANGED call /\ pc \notin {"idle", "undefined"}
  PROVE  Typed'
  BY MountKept DEF Typed, CallTyped, Serving

\* A turn of a loop goes on with the same call.
LEMMA TypedGoto ==
  ASSUME Typed, pc \in Serving, UNCHANGED <<disk, mounted, call>>, pc' \in Serving,
         pc' \in {"skip", "copy", "chunk"} => call.op = "read",
         pc' \in {"list", "listing"} => call.op = "list",
         vol.driver = "ext2" /\ pc' \in {"block", "record"} => call.op = "list"
  PROVE  Typed'
  BY MountKept DEF Typed, CallTyped, Serving

\* A caller begins a call of a mount.
LEMMA TypedBegin ==
  ASSUME Typed, NEW op \in {"detect", "mount", "unmount", "read", "list", "info"},
         NEW path \in Paths, NEW size \in 0..(Wrap - 1), NEW offset \in 0..(Wrap - 1),
         Begin(op, path, size, offset), mounted # Nothing
  PROVE  Typed'
  BY MountKept DEF Typed, CallTyped, Serving, Begin

\* A caller begins a call that mounts or unmounts.
LEMMA TypedBeginMount ==
  ASSUME Typed, NEW op \in {"detect", "mount", "unmount"}, NEW path, NEW size, NEW offset,
         Begin(op, path, size, offset)
  PROVE  Typed'
  BY MountKept DEF Typed, CallTyped, Serving, Begin

\* A caller's step.
LEMMA TypedCalls ==
  ASSUME Typed, Call \/ Take
  PROVE  Typed'
<1>1. CASE Take
  BY <1>1, TypedEnd DEF Take
<1>2. CASE Begin("detect", RootPath, 0, 0)
  BY <1>2, TypedBeginMount
<1>3. CASE Begin("mount", RootPath, 0, 0)
  BY <1>3, TypedBeginMount
<1>4. CASE Begin("unmount", RootPath, 0, 0)
  BY <1>4, TypedBeginMount
<1>5. Sizes \subseteq 0..(Wrap - 1) /\ Rooms \subseteq 0..(Wrap - 1) /\ Offsets \subseteq 0..(Wrap - 1)
      /\ 0 \in 0..(Wrap - 1)
  BY DiskAssumption
<1>6. CASE mounted # Nothing /\ \E p \in Paths, s \in Sizes, o \in Offsets : Begin("read", p, s, o)
  BY <1>5, <1>6, TypedBegin
<1>7. CASE mounted # Nothing /\ \E p \in Paths, s \in Rooms : Begin("list", p, s, 0)
  BY <1>5, <1>7, TypedBegin
<1>8. CASE mounted # Nothing /\ \E p \in Paths : Begin("info", p, 0, 0)
  BY <1>5, <1>8, TypedBegin
<1>9. QED
  BY <1>1, <1>2, <1>3, <1>4, <1>6, <1>7, <1>8 DEF Call

\* What fat32_mount makes of the boot sector.
FatMountOf(clusters) ==
  /\ mounted' = [table |-> FALSE,
                 bytes_per_cluster |-> vol.bytes_per_sector * vol.sectors_per_cluster,
                 root_dir_first_cluster |-> vol.root_cluster,
                 total_clusters |-> clusters]
  /\ Return(Ok(0), Taking("priv"))

\* Every step of the FAT32 driver.
LEMMA TypedFat32 ==
  ASSUME Typed, fat32_step
  PROVE  Typed'
<1>r. pc \notin {"idle", "undefined"}
  BY DEF fat32_step, fat32_detect, fat32_mount, fat32_unmount, fat32_open, fat32_next_part,
         fat32_find_file, fat32_get_info, fat32_read, fat32_skip, fat32_copy, fat32_read_dir, fat32_list
<1>1. CASE fat32_detect
  BY <1>r, <1>1, TypedEnd DEF fat32_detect, Return
<1>2. CASE fat32_mount
  <2>1. CASE \E memory, tells : Give(memory, tells)
    BY <1>r, <2>1, TypedEnd DEF Give, Return
  <2>2. CASE Undefine
    BY <1>r, <2>2, TypedEnd DEF Undefine
  <2>3. CASE \E t : FatMountOf(t)
    <3>1. vol.root_cluster \in Nat /\ vol.bytes_per_sector \in Nat /\ vol.sectors_per_cluster \in Nat
      BY Fat32Assumption DEF fat32_step, Typed, FatVolume, vol
    <3>2. vol.bytes_per_sector * vol.sectors_per_cluster \in Nat
      BY <3>1
    <3>3. disk' = disk /\ vol' = vol /\ pc' = "done"
      BY <2>3 DEF FatMountOf, Return, vol
    <3>4. vol.driver = "fat32"
      BY DEF fat32_step
    <3>5. MountTyped'
      <4>1. mounted'.root_dir_first_cluster = vol.root_cluster /\ mounted'.bytes_per_cluster = vol.bytes_per_sector * vol.sectors_per_cluster
        BY <2>3 DEF FatMountOf
      <4>2. QED
        BY <3>1, <3>2, <3>3, <3>4, <4>1 DEF MountTyped
    <3>6. call.op = "mount" /\ call' = call
      BY <1>2, <2>3 DEF fat32_mount, FatMountOf, Return, Typed, CallTyped
    <3>7. QED
      BY <3>3, <3>5, <3>6 DEF Typed, CallTyped, Serving
  <2>4. (\E memory : \E tells : Give(memory, tells)) \/ Undefine \/ (\E t : FatMountOf(t))
    BY <1>2 DEF fat32_mount, FatMountOf
  <2>5. QED
    BY <2>1, <2>2, <2>3, <2>4
<1>3. CASE fat32_unmount
  BY <1>3 DEF fat32_unmount, Return, Typed, MountTyped, CallTyped, Serving
<1>4. CASE \E memory, tells : Give(memory, tells)
  BY <1>r, <1>4, TypedEnd DEF Give, Return
<1>5. CASE Undefine
  BY <1>r, <1>5, TypedEnd DEF Undefine
<1>6. CASE UNCHANGED mounted /\ \E result, memory : Return(result, memory)
  BY <1>r, <1>6, TypedEnd DEF Return
<1>7. CASE /\ pc \in Serving
           /\ \E loop \in {"found", "search", "part", "skip", "copy", "list"} : \E locals :
                /\ Goto(loop, locals)
                /\ loop \in {"skip", "copy"} => call.op = "read"
                /\ loop = "list" => call.op = "list"
  BY <1>7, TypedGoto DEF Goto, fat32_step, Serving
<1>8. CASE fat32_open \/ fat32_next_part
  <2>1. PICK path : Look(path) /\ pc \in Serving
    BY <1>8 DEF fat32_open, fat32_next_part, Serving
  <2>2. CASE \E loop \in {"found", "search"} : \E locals : Goto(loop, locals)
    BY <1>7, <2>1, <2>2
  <2>3. QED
    BY <1>4, <2>1, <2>2 DEF Look
<1>9. CASE fat32_find_file
  <2>1. CASE \E loop \in {"found", "search", "part"} : \E locals : Goto(loop, locals)
    BY <1>7, <1>9, <2>1 DEF fat32_find_file, Serving
  <2>2. QED
    BY <1>4, <1>5, <1>9, <2>1 DEF fat32_find_file
<1>10. CASE fat32_get_info
  BY <1>6, <1>10 DEF fat32_get_info
<1>11. CASE fat32_read
  <2>1. CASE \E locals : Goto("skip", locals)
    BY <1>7, <1>11, <2>1 DEF fat32_read, Serving
  <2>2. QED
    BY <1>5, <1>6, <1>11, <2>1 DEF fat32_read
<1>12. CASE fat32_skip
  <2>1. call.op = "read" /\ pc \in Serving
    BY <1>12 DEF Typed, CallTyped, fat32_skip, Serving
  <2>2. CASE \E loop \in {"skip", "copy"} : \E locals : Goto(loop, locals)
    BY <1>7, <2>1, <2>2
  <2>3. QED
    BY <1>4, <1>12, <2>2 DEF fat32_skip
<1>13. CASE fat32_copy
  <2>1. call.op = "read" /\ pc \in Serving
    BY <1>13 DEF Typed, CallTyped, fat32_copy, Serving
  <2>2. CASE \E locals : Goto("copy", locals)
    BY <1>7, <2>1, <2>2
  <2>3. QED
    BY <1>4, <1>6, <1>13, <2>2 DEF fat32_copy
<1>14. CASE fat32_read_dir
  <2>1. CASE \E locals : Goto("list", locals)
    BY <1>7, <1>14, <2>1 DEF fat32_read_dir, Serving
  <2>2. QED
    BY <1>4, <1>14, <2>1 DEF fat32_read_dir
<1>15. CASE fat32_list
  <2>1. call.op = "list" /\ pc \in Serving
    BY <1>15 DEF Typed, CallTyped, fat32_list, Serving
  <2>2. CASE \E locals : Goto("list", locals)
    BY <1>7, <2>1, <2>2
  <2>3. QED
    BY <1>4, <1>5, <1>6, <1>15, <2>2 DEF fat32_list
<1>16. QED
  BY <1>1, <1>2, <1>3, <1>8, <1>9, <1>10, <1>11, <1>12, <1>13, <1>14, <1>15 DEF fat32_step

\* What ext2_mount makes of the superblock.
Ext2MountOf(inode_size) ==
  /\ vol.blocks_per_group # 0 /\ vol.block_size # 0
  /\ mounted' = [table |-> TRUE, block_size |-> vol.block_size,
                 inodes_per_group |-> vol.inodes_per_group,
                 inode_size |-> inode_size,
                 group_count |-> U(vol.blocks_count + vol.blocks_per_group - 1)
                                 \div vol.blocks_per_group]
  /\ \E memory : Return(Ok(0), memory)

\* Every step of the ext2 driver.
LEMMA TypedExt2 ==
  ASSUME Typed, ext2_step
  PROVE  Typed'
<1>0. vol.driver = "ext2"
  BY DEF ext2_step
<1>r. pc \notin {"idle", "undefined"}
  BY DEF ext2_step, ext2_detect, ext2_mount, ext2_unmount, ext2_open, ext2_find_file, ext2_get_info,
         ext2_fs_read_file, ext2_read_file, ext2_list_dir, ext2_list_block, ext2_list_record
<1>1. CASE UNCHANGED mounted /\ \E result, memory : Return(result, memory)
  BY <1>r, <1>1, TypedEnd DEF Return
<1>2. CASE \E memory, tells : Give(memory, tells)
  BY <1>r, <1>2, TypedEnd DEF Give, Return
<1>3. CASE Undefine
  BY <1>r, <1>3, TypedEnd DEF Undefine
<1>4. CASE /\ pc \in Serving
           /\ \E loop \in {"found", "entry", "chunk", "block", "record"} : \E locals :
                /\ Goto(loop, locals)
                /\ loop = "chunk" => call.op = "read"
                /\ loop \in {"block", "record"} => call.op = "list"
  BY <1>4, TypedGoto DEF Goto, Serving
<1>5. CASE ext2_detect
  BY <1>1, <1>5 DEF ext2_detect
<1>6. CASE ext2_mount
  <2>1. CASE \E n : Ext2MountOf(n)
    <3>1. vol.blocks_count \in Nat /\ vol.blocks_per_group \in Nat /\ Wrap \in Nat \ {0}
      BY <1>0, Ext2Assumption, DiskAssumption DEF Typed, Ext2Volume, vol
    <3>2. vol.blocks_per_group \in Nat \ {0}
      BY <2>1, <3>1 DEF Ext2MountOf
    <3>3. U(vol.blocks_count + vol.blocks_per_group - 1) \in Nat
      <4>1. vol.blocks_count + vol.blocks_per_group - 1 \in Nat
        BY <3>1, <3>2
      <4>2. QED
        BY <3>1, <4>1 DEF U
    <3>4. U(vol.blocks_count + vol.blocks_per_group - 1) \div vol.blocks_per_group \in Nat
      BY <3>2, <3>3
    <3>5. disk' = disk /\ vol' = vol /\ pc' = "done"
      BY <2>1 DEF Ext2MountOf, Return, vol
    <3>6. MountTyped'
      <4>1. /\ mounted'.block_size = vol.block_size /\ mounted'.inodes_per_group = vol.inodes_per_group
            /\ mounted'.group_count = U(vol.blocks_count + vol.blocks_per_group - 1) \div vol.blocks_per_group
            /\ vol.block_size # 0
        BY <2>1 DEF Ext2MountOf
      <4>2. QED
        BY <1>0, <3>4, <3>5, <4>1 DEF MountTyped
    <3>7. call.op = "mount" /\ call' = call
      BY <1>6, <2>1 DEF ext2_mount, Ext2MountOf, Return, Typed, CallTyped
    <3>8. QED
      BY <3>5, <3>6, <3>7 DEF Typed, CallTyped, Serving
  <2>2. (\E memory : \E tells : Give(memory, tells)) \/ Undefine \/ (\E n : Ext2MountOf(n))
    BY <1>6 DEF ext2_mount, Ext2MountOf
  <2>3. QED
    BY <1>2, <1>3, <2>1, <2>2
<1>7. CASE ext2_unmount
  BY <1>7 DEF ext2_unmount, Return, Typed, MountTyped, CallTyped, Serving
<1>8. CASE \E n : ext2_read_inode(n)
  BY <1>2, <1>3, <1>8 DEF ext2_read_inode
<1>9. CASE ext2_open
  <2>1. CASE \E loop \in {"found", "entry"} : \E locals : Goto(loop, locals)
    BY <1>4, <1>9, <2>1 DEF ext2_open, Serving
  <2>2. QED
    BY <1>2, <1>8, <1>9, <2>1 DEF ext2_open, EnterRoot
<1>10. CASE ext2_find_file
  <2>1. CASE \E loop \in {"found", "entry"} : \E locals : Goto(loop, locals)
    BY <1>4, <1>10, <2>1 DEF ext2_find_file, Serving
  <2>2. QED
    BY <1>2, <1>10, <2>1 DEF ext2_find_file
<1>11. CASE ext2_get_info
  BY <1>1, <1>8, <1>11 DEF ext2_get_info, Tell
<1>12. CASE ext2_fs_read_file
  BY <1>4, <1>12 DEF ext2_fs_read_file, Serving
<1>13. CASE ext2_read_file
  <2>1. pc \in Serving /\ call.op = "read"
    BY <1>13 DEF ext2_read_file, Serving, Typed, CallTyped
  <2>2. CASE \E locals : Goto("chunk", locals)
    BY <1>4, <2>1, <2>2
  <2>3. QED
    BY <1>1, <1>2, <1>8, <1>13, <2>2 DEF ext2_read_file, Chunk
<1>14. CASE ext2_list_dir
  <2>1. CASE \E locals : Goto("block", locals)
    BY <1>4, <1>14, <2>1 DEF ext2_list_dir, Serving
  <2>2. QED
    BY <1>2, <1>8, <1>14, <2>1 DEF ext2_list_dir, EnterDir
<1>15. CASE ext2_list_block
  <2>1. pc \in Serving /\ call.op = "list"
    BY <1>0, <1>15 DEF ext2_list_block, Serving, Typed, CallTyped
  <2>2. CASE \E locals : Goto("record", locals)
    BY <1>4, <2>1, <2>2
  <2>3. QED
    BY <1>1, <1>2, <1>15, <2>2 DEF ext2_list_block
<1>16. CASE ext2_list_record
  <2>1. pc \in Serving /\ call.op = "list"
    BY <1>0, <1>16 DEF ext2_list_record, Serving, Typed, CallTyped
  <2>2. CASE \E loop \in {"block", "record"} : \E locals : Goto(loop, locals)
    BY <1>4, <2>1, <2>2
  <2>3. QED
    BY <1>16, <2>2 DEF ext2_list_record
<1>17. QED
  BY <1>5, <1>6, <1>7, <1>9, <1>10, <1>11, <1>12, <1>13, <1>14, <1>15, <1>16 DEF ext2_step

\* What iso9660_mount makes of the primary descriptor.
IsoMountOf(table) ==
  /\ mounted' = [block_size |-> vol.block_size, table |-> table,
                 root |-> vol.root_extent % ByteWrap, root_size |-> vol.root_size]
  /\ \E memory : Return(Ok(0), memory)

\* Every step of the ISO 9660 driver.
LEMMA TypedIso9660 ==
  ASSUME Typed, iso9660_step
  PROVE  Typed'
<1>0. vol.driver = "iso9660"
  BY DEF iso9660_step
<1>r. pc \notin {"idle", "undefined"}
  BY DEF iso9660_step, iso9660_detect, iso9660_mount, iso9660_unmount, iso9660_open,
         iso9660_find_block, iso9660_find_entry, iso9660_read_file, iso9660_list_dir,
         iso9660_list_block, iso9660_get_info
<1>1. CASE UNCHANGED mounted /\ \E result, memory : Return(result, memory)
  BY <1>r, <1>1, TypedEnd DEF Return
<1>2. CASE \E memory, tells : Give(memory, tells)
  BY <1>r, <1>2, TypedEnd DEF Give, Return
<1>3. CASE Undefine
  BY <1>r, <1>3, TypedEnd DEF Undefine
<1>4. CASE /\ pc \in Serving
           /\ \E loop \in {"found", "block", "record", "listing"} : \E locals :
                Goto(loop, locals) /\ (loop = "listing" => call.op = "list")
  BY <1>0, <1>4, TypedGoto DEF Goto, Serving
<1>5. CASE iso9660_detect
  BY <1>1, <1>5 DEF iso9660_detect
<1>6. CASE iso9660_mount
  <2>1. CASE \E table : IsoMountOf(table)
    <3>1. vol.root_extent % ByteWrap \in Nat
      BY <1>0, Iso9660Assumption DEF Typed, IsoVolume, vol
    <3>2. disk' = disk /\ vol' = vol /\ pc' = "done"
      BY <2>1 DEF IsoMountOf, Return, vol
    <3>3. MountTyped'
      BY <1>0, <2>1, <3>1, <3>2 DEF IsoMountOf, MountTyped
    <3>4. call.op = "mount" /\ call' = call
      BY <1>6, <2>1 DEF iso9660_mount, IsoMountOf, Return, Typed, CallTyped
    <3>5. QED
      BY <3>2, <3>3, <3>4 DEF Typed, CallTyped, Serving
  <2>2. (\E memory : \E tells : Give(memory, tells)) \/ Undefine \/ (\E table : IsoMountOf(table))
    BY <1>6 DEF iso9660_mount, IsoMountOf
  <2>3. QED
    BY <1>2, <1>3, <2>1, <2>2
<1>7. CASE iso9660_unmount
  BY <1>7 DEF iso9660_unmount, Return, Typed, MountTyped, CallTyped, Serving
<1>8. CASE pc \in Serving /\ \E extent, size, rest, depth : Enter(extent, size, rest, depth)
  <2>1. CASE \E locals : Goto("block", locals)
    BY <1>4, <1>8, <2>1
  <2>2. QED
    BY <1>2, <1>3, <1>8, <2>1 DEF Enter
<1>9. CASE iso9660_open
  BY <1>8, <1>9 DEF iso9660_open, Serving
<1>10. CASE iso9660_find_block
  <2>1. CASE Goto("record", at)
    BY <1>4, <1>10, <2>1 DEF iso9660_find_block, Serving
  <2>2. QED
    BY <1>2, <1>3, <1>10, <2>1 DEF iso9660_find_block
<1>11. CASE iso9660_find_entry
  <2>1. CASE \E loop \in {"found", "block", "record"} : \E locals : Goto(loop, locals)
    BY <1>4, <1>11, <2>1 DEF iso9660_find_entry, Serving
  <2>2. CASE \E extent, size, rest, depth : Enter(extent, size, rest, depth)
    BY <1>8, <1>11, <2>2 DEF iso9660_find_entry, Serving
  <2>3. QED
    BY <1>11, <2>1, <2>2 DEF iso9660_find_entry
<1>12. CASE iso9660_read_file
  BY <1>1, <1>2, <1>3, <1>12 DEF iso9660_read_file
<1>13. CASE iso9660_list_dir
  <2>1. CASE \E locals : Goto("listing", locals)
    BY <1>4, <1>13, <2>1 DEF iso9660_list_dir, Serving
  <2>2. QED
    BY <1>2, <1>13, <2>1 DEF iso9660_list_dir
<1>14. CASE iso9660_list_block
  <2>1. pc \in Serving /\ call.op = "list"
    BY <1>14 DEF iso9660_list_block, Serving, Typed, CallTyped
  <2>2. CASE \E locals : Goto("listing", locals)
    BY <1>4, <2>1, <2>2
  <2>3. QED
    BY <1>1, <1>2, <1>14, <2>2 DEF iso9660_list_block
<1>15. CASE iso9660_get_info
  BY <1>1, <1>2, <1>3, <1>15 DEF iso9660_get_info
<1>16. QED
  BY <1>5, <1>6, <1>7, <1>9, <1>10, <1>11, <1>12, <1>13, <1>14, <1>15 DEF iso9660_step

\* A mount is of the volume on the disk, and a loop runs for a call it belongs
\* to: what each driver's private data and arguments are while it runs.
THEOREM VolumesTyped == Spec => []Typed
<1>1. Init => Typed
  BY DEF Init, Typed, MountTyped, CallTyped, Serving
<1>2. Typed /\ [Next]_vars => Typed'
  <2>1. CASE Call \/ Take
    BY <2>1, TypedCalls
  <2>2. CASE fat32_step
    BY <2>2, TypedFat32
  <2>3. CASE ext2_step
    BY <2>3, TypedExt2
  <2>4. CASE iso9660_step
    BY <2>4, TypedIso9660
  <2>5. CASE UNCHANGED vars
    <3>1. UNCHANGED <<disk, mounted, call, pc>>
      BY <2>5 DEF vars
    <3>2. QED
      BY <3>1, MountKept DEF Typed, CallTyped, Serving
  <2>6. QED
    BY <2>1, <2>2, <2>3, <2>4, <2>5 DEF Next, Step
<1>3. QED
  BY <1>1, <1>2, PTL DEF Spec

-----------------------------------------------------------------------------
(* The entry of a path stays the same during a call *)

\* The chains and the directories of a FAT32 volume stay.
LEMMA FatKept ==
  ASSUME UNCHANGED <<disk, mounted>>
  PROVE  /\ \A c : Links(c)' = Links(c)
         /\ \A c : Directory(c)' = Directory(c)
         /\ \A link, n, part : Passed(link, n, part)' <=> Passed(link, n, part)
<1>1. vol' = vol
  BY DEF vol
<1>2. \A c : Links(c)' = Links(c)
  BY DEF Links, fat32_get_cluster, vol
<1>3. \A link, n : Contents(link, n)' = Contents(link, n)
  BY <1>1 DEF Contents
<1>4. \A link : Loaded(link)' = Loaded(link)
  BY DEF Loaded, Loads, Readable
<1>5. \A c : Directory(c)' = Directory(c)
  BY <1>2, <1>3, <1>4 DEF Directory
<1>6. \A link, n, part : Passed(link, n, part)' <=> Passed(link, n, part)
  BY <1>1 DEF Passed, Loads, Readable
<1>7. QED
  BY <1>2, <1>5, <1>6

\* The inodes and the directory blocks of an ext2 volume stay.
LEMMA Ext2Kept ==
  ASSUME UNCHANGED <<disk, mounted>>
  PROVE  /\ \A n : Inode(n)' = Inode(n) /\ (Exists(n)' <=> Exists(n))
         /\ \A b, o : Entry(b, o)' = Entry(b, o)
         /\ \A b : Places(b)' = Places(b)
         /\ \A b : Ext2Directory(b)' = Ext2Directory(b)
<1>1. vol' = vol
  BY DEF vol
<1>2. \A n : Inode(n)' = Inode(n) /\ (Exists(n)' <=> Exists(n))
  BY <1>1 DEF Inode, InodeAt, InodePlace, Exists
<1>3. \A b, o : Entry(b, o)' = Entry(b, o)
  BY <1>1 DEF Entry
<1>4. \A b, p : Further(b, p)' = Further(b, p)
  BY <1>3 DEF Further
<1>5. \A b : Places(b)' = Places(b)
  BY <1>4 DEF Places
<1>6. \A b : Ext2Directory(b)' = Ext2Directory(b)
  BY <1>3, <1>5 DEF Ext2Directory
<1>7. QED
  BY <1>2, <1>3, <1>5, <1>6

\* The records of an ISO 9660 directory stay.
LEMMA IsoKept ==
  ASSUME UNCHANGED <<disk, mounted>>
  PROVE  /\ \A b : Records(b)' = Records(b)
         /\ \A extent, size : DirectoryRecords(extent, size)' = DirectoryRecords(extent, size)
         /\ \A path : Way(path)' = Way(path)
<1>1. vol' = vol
  BY DEF vol
<1>2. \A b : Records(b)' = Records(b)
  BY <1>1 DEF Records
<1>3. \A n, s : DirectoryRecords(n, s)' = DirectoryRecords(n, s)
  BY <1>2 DEF DirectoryRecords, BlocksOf
<1>4. \A path : Way(path)' = Way(path)
  BY <1>3 DEF Way
<1>5. QED
  BY <1>2, <1>3, <1>4

\* The entry stays, and whether the call may refuse it.
LEMMA EntryKept ==
  ASSUME UNCHANGED <<disk, mounted, call>>
  PROVE  TheEntry' = TheEntry /\ (MayRefuse(TheEntry)' <=> MayRefuse(TheEntry))
<1>1. vol' = vol
  BY DEF vol
<1>2. FatEntry(call.path)' = FatEntry(call.path)
  <2>1. \A root, path : EntryIn(root, path)' = EntryIn(root, path)
    BY DEF EntryIn, Hits
  <2>2. QED
    BY <2>1, FatKept DEF FatEntry
<1>3. Ext2Entry(call.path)' = Ext2Entry(call.path)
  <2>1. \A b, p : InBlock(b, p)' = InBlock(b, p)
    BY Ext2Kept DEF InBlock
  <2>2. QED
    BY <2>1, Ext2Kept DEF Ext2Entry
<1>4. IsoEntry(call.path)' = IsoEntry(call.path)
  BY IsoKept DEF IsoEntry
<1>5. TheEntry' = TheEntry
  BY <1>1, <1>2, <1>3, <1>4 DEF TheEntry
<1>6. QED
  BY <1>1, <1>5 DEF MayRefuse

-----------------------------------------------------------------------------
(* FAT32: the search *)

\* The search has found every part of the path before the k-th.
FatKnown(k) ==
  \A i \in 1..(k - 1) :
    call.path[i] # << >> =>
      /\ Len(call.path[i]) <= MaxPart
      /\ Hits(Directory(mounted.root_dir_first_cluster), call.path[i]) # {}

From(k) == SubSeq(call.path, k, Len(call.path))

\* It has passed the first n clusters of the root.
FatPassed(n, part) == Passed(Links(mounted.root_dir_first_cluster), n, part)
FatCluster(n) == Links(mounted.root_dir_first_cluster)[n]

\* It is at the n-th of them, looking for the k-th part.
FatAt(k, n, locals) ==
  /\ FatKnown(k) /\ call.path[k] # << >> /\ Len(call.path[k]) <= MaxPart
  /\ locals = [cluster |-> FatCluster(n), rest |-> From(k)]
  /\ FatPassed(n, call.path[k])

FatFinds(loop, locals) ==
  /\ loop = "part" => \E k \in 2..Len(call.path) : FatKnown(k) /\ locals.rest = From(k)
  /\ loop = "search" => \E k \in 1..Len(call.path) : \E n \in Nat : FatAt(k, n, locals)

\* What is known of a FAT32 look-up stays during a call.
LEMMA FatFindsKept ==
  ASSUME UNCHANGED <<disk, mounted, call>>
  PROVE  FatFinds(pc, at)' <=> FatFinds(pc', at')
<1>1. \A k : FatKnown(k)' <=> FatKnown(k)
  BY FatKept DEF FatKnown, Hits
<1>2. \A n, part : FatPassed(n, part)' <=> FatPassed(n, part)
  BY FatKept DEF FatPassed
<1>3. \A n : FatCluster(n)' = FatCluster(n)
  BY FatKept DEF FatCluster
<1>4. \A k : From(k)' = From(k)
  BY DEF From
<1>5. \A k, n, locals : FatAt(k, n, locals)' <=> FatAt(k, n, locals)
  BY <1>1, <1>2, <1>3, <1>4 DEF FatAt
<1>6. QED
  BY <1>1, <1>4, <1>5 DEF FatFinds

\* What is left of a path from one of its parts on.
LEMMA FromPart ==
  ASSUME NEW P, call.path \in Seq(P), NEW m \in 1..Len(call.path)
  PROVE  /\ From(m) \in Seq(P) /\ Len(From(m)) = Len(call.path) - m + 1 /\ From(m) # << >>
         /\ From(m)[1] = call.path[m]
         /\ \A i \in 1..(Len(call.path) - m + 1) : From(m)[i] = call.path[m + i - 1]
         /\ m < Len(call.path) => Tail(From(m)) = From(m + 1)
         /\ From(1) = call.path
<1> DEFINE path == call.path
<1> HIDE DEF path
<1>1. path \in Seq(P) /\ Len(path) \in Nat
  <2>1. path \in Seq(P)
    BY DEF path
  <2>2. QED
    BY <2>1, LenProperties
<1>2. \A i \in 1..Len(path) : path[i] \in P
  BY <1>1, ElementOfSeq
<1>3. ASSUME NEW l \in 1..Len(path)
      PROVE  /\ From(l) = SubSeq(path, l, Len(path)) /\ From(l) \in Seq(P)
             /\ Len(From(l)) = Len(path) - l + 1
             /\ \A i \in 1..(Len(path) - l + 1) : From(l)[i] = path[l + i - 1]
  <2>1. From(l) = SubSeq(path, l, Len(path))
    BY DEF From, path
  <2>2. l \in 1..(Len(path) + 1) /\ Len(path) \in (l - 1)..Len(path)
    BY <1>1
  <2>3. QED
    BY <1>1, <1>2, <2>1, <2>2, SubSeqProperties
<1>4. m \in 1..Len(path)
  BY DEF path
<1>5. From(m) # << >> /\ From(m)[1] = path[m]
  <2>1. Len(From(m)) = Len(path) - m + 1 /\ From(m) \in Seq(P)
        /\ \A i \in 1..(Len(path) - m + 1) : From(m)[i] = path[m + i - 1]
    BY <1>3, <1>4
  <2>2. Len(From(m)) > 0 /\ 1 \in 1..(Len(path) - m + 1) /\ m + 1 - 1 = m
    BY <1>1, <1>4, <2>1
  <2>3. From(m)[1] = path[m]
    BY <2>1, <2>2
  <2>4. QED
    BY <2>1, <2>2, <2>3, EmptySeq
<1>6. m < Len(path) => Tail(From(m)) = From(m + 1)
  <2>1. SUFFICES ASSUME m < Len(path) PROVE Tail(From(m)) = From(m + 1)
    OBVIOUS
  <2>2. m + 1 \in 1..Len(path)
    BY <1>1, <1>4, <2>1
  <2> DEFINE s == From(m)
             t == From(m + 1)
             u == Tail(s)
  <2>3. /\ s \in Seq(P) /\ Len(s) = Len(path) - m + 1
        /\ \A i \in 1..(Len(path) - m + 1) : s[i] = path[m + i - 1]
        /\ t \in Seq(P) /\ Len(t) = Len(path) - (m + 1) + 1
        /\ \A i \in 1..(Len(path) - (m + 1) + 1) : t[i] = path[(m + 1) + i - 1]
    BY <1>3, <1>4, <2>2
  <2> HIDE DEF s, t
  <2>4. s # << >>
    BY <1>5 DEF s
  <2>5. u \in Seq(P) /\ Len(u) = Len(s) - 1 /\ \A i \in 1..Len(u) : u[i] = s[i + 1]
    BY <2>3, <2>4, HeadTailProperties
  <2> HIDE DEF u
  <2>6. ASSUME NEW i \in 1..Len(u) PROVE u[i] = t[i]
    <3>1. i + 1 \in 1..(Len(path) - m + 1) /\ i \in 1..(Len(path) - (m + 1) + 1)
          /\ m + (i + 1) - 1 = (m + 1) + i - 1
      BY <1>1, <1>4, <2>3, <2>5
    <3>2. QED
      BY <2>3, <2>5, <3>1
  <2>7. Len(u) = Len(t)
    BY <1>1, <1>4, <2>3, <2>5
  <2>8. u = t
    BY <2>3, <2>5, <2>6, <2>7, SeqEqual
  <2>9. QED
    BY <2>8 DEF s, t, u
<1>7. From(1) = path
  <2> DEFINE s == From(1)
  <2>1. 1 \in 1..Len(path)
    BY <1>1, <1>4
  <2>2. s \in Seq(P) /\ Len(s) = Len(path) - 1 + 1 /\ \A i \in 1..(Len(path) - 1 + 1) : s[i] = path[1 + i - 1]
    BY <1>3, <2>1
  <2> HIDE DEF s
  <2>3. Len(s) = Len(path) /\ \A i \in 1..Len(s) : s[i] = path[i]
    BY <1>1, <2>2
  <2>4. s = path
    BY <1>1, <2>2, <2>3, SeqEqual
  <2>5. QED
    BY <2>4 DEF s
<1>8. QED
  BY <1>3, <1>4, <1>5, <1>6, <1>7 DEF path

\* s is what is left of the path from the k-th part on, the slashes skipped.
Skipped(k, s) ==
  \/ s = << >> /\ \A i \in k..Len(call.path) : call.path[i] = << >>
  \/ \E m \in k..Len(call.path) :
       /\ s = From(m) /\ s # << >> /\ s[1] = call.path[m] /\ Len(s) = Len(call.path) - m + 1
       /\ m < Len(call.path) => Tail(s) = From(m + 1)
       /\ call.path[m] # << >> /\ \A i \in k..(m - 1) : call.path[i] = << >>

\* SkipSlashes goes to the next part that is not empty.
LEMMA SkipsSlashes ==
  ASSUME call.path \in Seq(Seq(STRING)), NEW k \in 1..Len(call.path)
  PROVE  Skipped(k, SkipSlashes(From(k)))
<1> DEFINE path == call.path
           rest == From(k)
           P == Seq(STRING)
           named == {i \in 1..Len(rest) : rest[i] # << >>}
<1> HIDE DEF path, P
<1>1. path \in Seq(P) /\ Len(path) \in Nat /\ k \in 1..Len(path)
  <2>1. path \in Seq(P)
    BY DEF path, P
  <2>2. QED
    BY <2>1, LenProperties DEF path
<1>2. \A i \in 1..Len(path) : path[i] \in P
  BY <1>1, ElementOfSeq
<1>3. ASSUME NEW m \in 1..Len(path)
      PROVE  /\ From(m) \in Seq(P) /\ Len(From(m)) = Len(path) - m + 1
             /\ \A i \in 1..(Len(path) - m + 1) : From(m)[i] = path[m + i - 1]
  BY <1>1, FromPart DEF path
<1>4. DOMAIN rest = 1..Len(rest) /\ Len(rest) = Len(path) - k + 1
  BY <1>1, <1>3, LenProperties
<1>5. CASE named = {}
  <2>1. SkipSlashes(rest) = << >>
    BY <1>4, <1>5 DEF SkipSlashes
  <2>2. ASSUME NEW i \in k..Len(path) PROVE path[i] = << >>
    <3>1. i - k + 1 \in 1..(Len(path) - k + 1) /\ k + (i - k + 1) - 1 = i
      BY <1>1
    <3>2. rest[i - k + 1] = path[i]
      BY <1>1, <1>3, <3>1
    <3>3. QED
      BY <1>4, <1>5, <3>1, <3>2
  <2>3. QED
    BY <2>1, <2>2 DEF path, Skipped
<1>6. CASE named # {}
  <2> DEFINE j == CHOOSE i \in named : \A l \in named : i <= l
             m == k + j - 1
  <2>1. j \in named /\ \A l \in named : j <= l
    <3>1. named \in SUBSET (1..Len(rest)) /\ Len(rest) \in Nat
      BY <1>1, <1>4
    <3> HIDE DEF named
    <3>2. QED
      BY <1>6, <3>1, FirstIndex
  <2>2. SkipSlashes(rest) = SubSeq(rest, j, Len(rest))
    BY <1>4, <1>6 DEF SkipSlashes
  <2> HIDE DEF j
  <2>3. m \in k..Len(path) /\ m \in 1..Len(path) /\ j \in 1..Len(rest)
    BY <1>1, <1>4, <2>1
  <2>4. rest[j] = path[m] /\ path[m] # << >>
    BY <1>1, <1>3, <1>4, <2>1, <2>3
  <2>5. SubSeq(rest, j, Len(rest)) = From(m)
    <3> DEFINE s == SubSeq(rest, j, Len(rest))
               t == From(m)
    <3>1. /\ s \in Seq(P) /\ Len(s) = Len(rest) - j + 1
          /\ \A i \in 1..(Len(rest) - j + 1) : s[i] = rest[j + i - 1]
      <4>1. rest \in Seq(P)
        BY <1>1, <1>3
      <4>2. j \in 1..Len(rest)
        BY <2>3
      <4> HIDE DEF rest
      <4>3. Len(rest) \in Nat
        BY <4>1, LenProperties
      <4>4. j \in 1..(Len(rest) + 1) /\ Len(rest) \in (j - 1)..Len(rest)
        BY <4>2, <4>3
      <4>5. \A i \in 1..Len(rest) : rest[i] \in P
        BY <4>1, ElementOfSeq
      <4>6. \A i \in j..Len(rest) : rest[i] \in P
        BY <4>2, <4>3, <4>5
      <4>7. QED
        BY <4>1, <4>2, <4>3, <4>4, <4>6, SubSeqProperties
    <3>2. t \in Seq(P) /\ Len(t) = Len(path) - m + 1 /\ \A i \in 1..(Len(path) - m + 1) : t[i] = path[m + i - 1]
      BY <1>3, <2>3
    <3>3. \A i \in 1..(Len(path) - k + 1) : rest[i] = path[k + i - 1]
      BY <1>1, <1>3
    <3> HIDE DEF s, t, rest
    <3>4. Len(s) = Len(t)
      BY <1>1, <1>4, <2>3, <3>1, <3>2
    <3>5. ASSUME NEW i \in 1..Len(s) PROVE s[i] = t[i]
      <4>1. i \in 1..(Len(rest) - j + 1) /\ j + i - 1 \in 1..(Len(path) - k + 1)
            /\ k + (j + i - 1) - 1 = m + i - 1 /\ i \in 1..(Len(path) - m + 1)
        BY <1>1, <1>4, <2>3, <3>1
      <4>2. QED
        BY <3>1, <3>2, <3>3, <4>1
    <3>6. s = t
      BY <3>1, <3>2, <3>4, <3>5, SeqEqual
    <3>7. QED
      BY <3>6 DEF s, t
  <2>6. /\ From(m) # << >> /\ From(m)[1] = path[m] /\ Len(From(m)) = Len(path) - m + 1
        /\ m < Len(path) => Tail(From(m)) = From(m + 1)
    BY <1>1, <2>3, FromPart DEF path
  <2>8. ASSUME NEW i \in k..(m - 1) PROVE path[i] = << >>
    <3>1. i - k + 1 \in 1..Len(rest) /\ i - k + 1 < j /\ k + (i - k + 1) - 1 = i
      BY <1>1, <1>4, <2>3
    <3>2. rest[i - k + 1] = path[i]
      BY <1>1, <1>3, <1>4, <3>1
    <3>3. i - k + 1 \notin named
      BY <1>1, <2>1, <2>3, <3>1
    <3>4. QED
      BY <3>1, <3>2, <3>3
  <2> HIDE DEF m, named
  <2>9. QED
    <3>1. SkipSlashes(From(k)) = From(m)
      BY <2>2, <2>5
    <3>2. QED
      BY <2>3, <2>4, <2>6, <2>8, <3>1 DEF path, Skipped
<1>7. QED
  BY <1>5, <1>6

-----------------------------------------------------------------------------
(* ext2: where the entries of a directory block are *)

\* The volume is one a disk can hold.
Ext2Mounted ==
  /\ disk \in DOMAIN Disks /\ vol.driver = "ext2"
  /\ mounted.block_size = vol.block_size /\ vol.block_size \in Nat \ {0}
  /\ mounted.inodes_per_group = vol.inodes_per_group

\* An entry says how long it is.
LEMMA EntryLength ==
  ASSUME Ext2Mounted, NEW b, NEW o \in 0..(mounted.block_size - 1)
  PROVE  Entry(b, o).rec_len \in Nat /\ Entry(b, o).inode \in Nat
<1>1. Ext2Volume(vol)
  BY Ext2Assumption DEF Ext2Mounted, vol
<1>2. CASE b \in DOMAIN vol.dirs
  <2>1. vol.dirs[b] \in [0..(vol.block_size - 1) -> Ext2Entries]
    BY <1>1, <1>2 DEF Ext2Volume
  <2>2. vol.dirs[b][o] \in Ext2Entries
    BY <2>1 DEF Ext2Mounted
  <2>3. QED
    BY <1>2, <2>2 DEF Entry, Ext2Entries
<1>3. CASE b \notin DOMAIN vol.dirs
  BY <1>3 DEF Entry, NoEntry
<1>4. QED
  BY <1>2, <1>3

\* Offsets in the block, each as far behind the one before as its entry says.
Follow(b, p) ==
  /\ p \in Seq(0..(mounted.block_size - 1)) /\ Len(p) >= 1 /\ p[1] = 0
  /\ \A i \in 1..(Len(p) - 1) : p[i] < p[i + 1] /\ p[i + 1] = p[i] + Entry(b, p[i]).rec_len

\* One more of them, or they end here.
LEMMA FurtherFollows ==
  ASSUME Ext2Mounted, NEW b, NEW p, Follow(b, p)
  PROVE  /\ Follow(b, Further(b, p))
         /\ Further(b, p) = p \/ Len(Further(b, p)) = Len(p) + 1
         /\ Further(b, p) = p =>
              LET next == p[Len(p)] + Entry(b, p[Len(p)]).rec_len
              IN  p[Len(p)] >= next \/ next >= mounted.block_size
<1> DEFINE B == mounted.block_size
           n == Len(p)
           len == Entry(b, p[n]).rec_len
           next == p[n] + len
           q == Append(p, next)
<1>1. B \in Nat \ {0} /\ p \in Seq(0..(B - 1)) /\ n \in Nat /\ n >= 1
  <2>1. B \in Nat \ {0}
    BY DEF Ext2Mounted
  <2>2. p \in Seq(0..(B - 1)) /\ n >= 1
    BY DEF Follow
  <2>3. QED
    BY <2>1, <2>2, LenProperties
<1>2. p[n] \in 0..(B - 1)
  BY <1>1, ElementOfSeq
<1>3. len \in Nat
  BY <1>2, EntryLength
<1>4. Last(p) = p[n]
  BY DEF Last
<1>5. Further(b, p) = IF p[n] < next /\ next < B THEN q ELSE p
  BY <1>4 DEF Further
<1>6. CASE p[n] < next /\ next < B
  <2>1. next \in 0..(B - 1)
    <3> HIDE DEF len, B
    <3> QED
      BY <1>1, <1>2, <1>3, <1>6
  <2>2. q \in Seq(0..(B - 1)) /\ Len(q) = n + 1 /\ q[n + 1] = next /\ \A i \in 1..n : q[i] = p[i]
    <3> HIDE DEF next, B
    <3> QED
      BY <1>1, <2>1, AppendProperties
  <2>3. q # p
    BY <1>1, <2>2
  <2>4. Follow(b, q)
    <3>1. Len(q) >= 1 /\ q[1] = 0
      BY <1>1, <2>2 DEF Follow
    <3>2. ASSUME NEW i \in 1..(Len(q) - 1)
          PROVE  q[i] < q[i + 1] /\ q[i + 1] = q[i] + Entry(b, q[i]).rec_len
      <4>1. CASE i = n
        BY <1>1, <1>6, <2>2, <4>1
      <4>2. CASE i \in 1..(n - 1)
        <5>1. q[i] = p[i] /\ q[i + 1] = p[i + 1]
          BY <1>1, <2>2, <4>2
        <5>2. QED
          BY <4>2, <5>1 DEF Follow
      <4>3. QED
        BY <1>1, <2>2, <4>1, <4>2
    <3>3. QED
      BY <2>2, <3>1, <3>2 DEF Follow
  <2>5. QED
    BY <1>5, <1>6, <2>2, <2>3, <2>4
<1>7. CASE ~(p[n] < next /\ next < B)
  <2>1. p[n] >= next \/ next >= B
    <3> HIDE DEF len, B
    <3> QED
      BY <1>1, <1>2, <1>3, <1>7
  <2>2. QED
    BY <1>5, <1>7, <2>1
<1>8. QED
  BY <1>6, <1>7

\* They are all there when the last one leads nowhere or out of the block.
Complete(b, p) ==
  LET next == p[Len(p)] + Entry(b, p[Len(p)]).rec_len
  IN  Follow(b, p) /\ (p[Len(p)] >= next \/ next >= mounted.block_size)

\* As many as the block has bytes.
LEMMA FollowLength ==
  ASSUME Ext2Mounted, NEW b, NEW p, Follow(b, p)
  PROVE  Len(p) <= mounted.block_size
<1> DEFINE B == mounted.block_size
           T == {i \in 1..Len(p) : p[i] >= i - 1}
<1>1. B \in Nat \ {0} /\ p \in Seq(0..(B - 1)) /\ Len(p) \in Nat /\ Len(p) >= 1
  <2>1. B \in Nat \ {0}
    BY DEF Ext2Mounted
  <2>2. p \in Seq(0..(B - 1)) /\ Len(p) >= 1
    BY DEF Follow
  <2>3. QED
    BY <2>1, <2>2, LenProperties
<1>2. \A i \in 1..Len(p) : p[i] \in 0..(B - 1)
  BY <1>1, ElementOfSeq
<1>3. 1 \in T
  BY <1>1 DEF Follow
<1>4. ASSUME NEW k \in 1..(Len(p) - 1), k \in T PROVE k + 1 \in T
  <2>1. p[k] < p[k + 1] /\ k \in 1..Len(p) /\ k + 1 \in 1..Len(p)
    BY <1>1 DEF Follow
  <2>2. p[k] \in Nat /\ p[k + 1] \in Nat /\ p[k] >= k - 1
    BY <1>1, <1>2, <1>4, <2>1
  <2>3. QED
    BY <2>1, <2>2
<1> HIDE DEF T, B
<1>5. 1..Len(p) \subseteq T
  <2>1. 1 \in Nat
    OBVIOUS
  <2>2. QED
    BY <1>1, <1>3, <1>4, <2>1, IntervalInduction
<1>6. Len(p) \in T
  BY <1>1, <1>5
<1>7. p[Len(p)] >= Len(p) - 1 /\ p[Len(p)] \in 0..(B - 1)
  BY <1>1, <1>2, <1>6 DEF T
<1>8. Len(p) <= B
  BY <1>1, <1>7
<1>9. QED
  BY <1>8 DEF B

\* Places are all of them.
LEMMA PlacesComplete ==
  ASSUME Ext2Mounted, NEW b
  PROVE  Complete(b, Places(b))
<1> DEFINE B == mounted.block_size
           D == {p \in Seq(0..(B - 1)) : Follow(b, p)}
           step == [x \in (1..B) \X D |-> Further(b, x[2])]
           Made(f) == f = [n \in 0..B |-> IF n = 0 THEN << 0 >> ELSE Further(b, f[n - 1])]
           places == CHOOSE f : Made(f)
<1>1. B \in Nat \ {0}
  BY DEF Ext2Mounted
<1>2. \A p : Follow(b, p) <=> p \in D
  BY DEF Follow
<1>3. << 0 >> \in D
  <2>1. << 0 >> \in Seq(0..(B - 1)) /\ Len(<< 0 >>) = 1 /\ << 0 >>[1] = 0
    BY <1>1
  <2>2. QED
    BY <2>1 DEF Follow
<1>4. ASSUME NEW p \in D PROVE Further(b, p) \in D
  BY <1>2, FurtherFollows
<1>5. step \in [(1..B) \X D -> D]
  BY <1>4
<1>6. \A i \in 1..B : \A p \in D : step[<<i, p>>] = Further(b, p)
  OBVIOUS
<1> HIDE DEF step, D
<1>7. PICK f \in [0..B -> D] : Unfolds(f, B, << 0 >>, step)
  BY <1>1, <1>3, <1>5, RecursionOverInterval
<1>8. Made(f)
  <2>1. ASSUME NEW n \in 0..B PROVE f[n] = IF n = 0 THEN << 0 >> ELSE Further(b, f[n - 1])
    <3>1. CASE n = 0
      BY <1>7, <3>1 DEF Unfolds
    <3>2. CASE n # 0
      <4>1. n \in 1..B /\ n - 1 \in 0..B
        BY <1>1, <3>2
      <4>2. f[n] = step[<<n, f[n - 1]>>] /\ f[n - 1] \in D
        BY <1>7, <4>1 DEF Unfolds
      <4>3. QED
        BY <1>6, <3>2, <4>1, <4>2
    <3>3. QED
      BY <3>1, <3>2
  <2>2. QED
    BY <2>1
<1>9. Made(places)
  <2> HIDE DEF Made
  <2> QED
    BY <1>8, Zenon
<1>10. Places(b) = places[B]
  BY DEF Places
<1> HIDE DEF places
<1>11. \A n \in 0..B : places[n] = IF n = 0 THEN << 0 >> ELSE Further(b, places[n - 1])
  BY <1>9
<1> DEFINE T == {n \in 0..B : Follow(b, places[n]) /\ (Complete(b, places[n]) \/ Len(places[n]) = n + 1)}
<1>12. 0 \in T
  <2>1. places[0] = << 0 >> /\ Len(<< 0 >>) = 0 + 1 /\ 0 \in 0..B
    BY <1>1, <1>11
  <2>2. QED
    BY <1>2, <1>3, <2>1
<1>13. ASSUME NEW k \in 0..(B - 1), k \in T PROVE k + 1 \in T
  <2>1. k + 1 \in 0..B /\ k + 1 # 0 /\ (k + 1) - 1 = k
    BY <1>1
  <2>2. places[k + 1] = Further(b, places[k]) /\ Follow(b, places[k])
    BY <1>11, <1>13, <2>1
  <2>3. /\ Follow(b, places[k + 1])
        /\ Further(b, places[k]) = places[k] \/ Len(places[k + 1]) = Len(places[k]) + 1
    BY <2>2, FurtherFollows
  <2>4. CASE Further(b, places[k]) = places[k]
    <3>1. Complete(b, places[k])
      BY <2>2, <2>4, FurtherFollows DEF Complete
    <3>2. QED
      BY <2>1, <2>2, <2>3, <2>4, <3>1
  <2>5. CASE Further(b, places[k]) # places[k]
    <3>1. Len(places[k + 1]) = Len(places[k]) + 1
      BY <2>3, <2>5
    <3>2. ~Complete(b, places[k])
      <4> DEFINE p == places[k]
                 n == Len(p)
                 len == Entry(b, p[n]).rec_len
      <4>1. p \in Seq(0..(B - 1)) /\ n \in Nat /\ n >= 1
        <5>1. p \in Seq(0..(B - 1)) /\ n >= 1
          BY <2>2 DEF Follow
        <5>2. QED
          BY <5>1, LenProperties
      <4>2. p[n] \in 0..(B - 1)
        <5> HIDE DEF p, B
        <5>1. n \in 1..Len(p)
          BY <4>1
        <5>2. QED
          BY <4>1, <5>1, ElementOfSeq
      <4>3. len \in Nat
        BY <4>2, EntryLength
      <4>4. Last(p) = p[n]
        BY DEF Last
      <4>5. p[n] < p[n] + len /\ p[n] + len < B
        BY <2>5, <4>4 DEF Further
      <4> HIDE DEF B, len
      <4>6. ~(p[n] >= p[n] + len) /\ ~(p[n] + len >= B)
        BY <1>1, <4>2, <4>3, <4>5
      <4>7. QED
        BY <4>6 DEF Complete, len, B
    <3>3. Len(places[k]) = k + 1
      BY <1>13, <3>2
    <3>4. QED
      BY <2>1, <2>3, <3>1, <3>3
  <2>6. QED
    BY <2>4, <2>5
<1>14. B \in T
  <2> HIDE DEF T, B
  <2>1. 0..B \subseteq T
    BY <1>1, <1>12, <1>13, IntervalInduction
  <2>2. QED
    BY <1>1, <2>1
<1>15. Len(places[B]) <= B
  BY <1>14, FollowLength
<1>16. Len(places[B]) # B + 1
  <2>1. places[B] \in Seq(0..(B - 1))
    BY <1>14 DEF Follow
  <2>2. Len(places[B]) \in Nat
    BY <2>1, LenProperties
  <2>3. QED
    BY <1>1, <1>15, <2>2
<1>17. QED
  BY <1>10, <1>14, <1>16

\* The entries of a block, in the order of their places.
LEMMA DirectoryOf ==
  ASSUME Ext2Mounted, NEW b
  PROVE  /\ Len(Places(b)) \in Nat /\ Len(Places(b)) >= 1 /\ DOMAIN Places(b) = 1..Len(Places(b))
         /\ DOMAIN Ext2Directory(b) = 1..Len(Places(b))
         /\ \A i \in 1..Len(Places(b)) :
              /\ Places(b)[i] \in 0..(mounted.block_size - 1)
              /\ Ext2Directory(b)[i] = Entry(b, Places(b)[i])
<1> DEFINE p == Places(b)
<1>1. p \in Seq(0..(mounted.block_size - 1)) /\ Len(p) >= 1
  BY PlacesComplete DEF Complete, Follow
<1> HIDE DEF p
<1>2. Len(p) \in Nat /\ DOMAIN p = 1..Len(p) /\ \A i \in 1..Len(p) : p[i] \in 0..(mounted.block_size - 1)
  BY <1>1, LenProperties, ElementOfSeq
<1>3. Ext2Directory(b) = [i \in 1..Len(p) |-> Entry(b, p[i])]
  BY <1>2 DEF Ext2Directory, p
<1>4. QED
  BY <1>1, <1>2, <1>3 DEF p

\* The search of a block is at its i-th entry and none before is the one named,
\* or behind the last.
AtPlace(b, path, offset) ==
  \/ \E i \in 1..Len(Places(b)) :
       offset = Places(b)[i] /\ \A j \in 1..(i - 1) : ~Named(Ext2Directory(b)[j], path)
  \/ /\ offset >= mounted.block_size
     /\ \A j \in 1..Len(Places(b)) : ~Named(Ext2Directory(b)[j], path)

\* It begins at the first.
LEMMA FirstPlace ==
  ASSUME Ext2Mounted, NEW b, NEW path
  PROVE  AtPlace(b, path, 0)
<1>1. Places(b)[1] = 0
  BY PlacesComplete DEF Complete, Follow
<1>2. 1 \in 1..Len(Places(b)) /\ 1..(1 - 1) = {}
  BY DirectoryOf
<1>3. QED
  BY <1>1, <1>2 DEF AtPlace

\* At an entry of that name it has found the first.
LEMMA NamedPlace ==
  ASSUME Ext2Mounted, NEW b, NEW path, NEW offset \in Nat, AtPlace(b, path, offset),
         offset < mounted.block_size, Named(Entry(b, offset), path)
  PROVE  InBlock(b, path) = [inode |-> Entry(b, offset).inode]
<1> DEFINE n == Len(Places(b))
           d == Ext2Directory(b)
           hits == {j \in 1..n : Named(d[j], path)}
<1>1. mounted.block_size \in Nat /\ n \in Nat
  BY DirectoryOf DEF Ext2Mounted
<1>2. PICK i \in 1..n : offset = Places(b)[i] /\ \A j \in 1..(i - 1) : ~Named(d[j], path)
  BY <1>1 DEF AtPlace
<1>3. d[i] = Entry(b, offset) /\ DOMAIN d = 1..n
  BY <1>2, DirectoryOf
<1>4. InBlock(b, path) = FirstNamed(d, hits)
  BY <1>3 DEF InBlock
<1> HIDE DEF d, n
<1>5. i \in hits /\ hits \subseteq Nat /\ \A j \in hits : i <= j
  BY <1>1, <1>2, <1>3
<1>6. Least(hits) = i /\ hits # {}
  <2> HIDE DEF hits
  <2> QED
    BY <1>5, LeastIs
<1>7. FirstNamed(d, hits) = [inode |-> d[i].inode]
  <2> HIDE DEF hits
  <2> QED
    BY <1>6 DEF FirstNamed
<1>8. QED
  BY <1>3, <1>4, <1>7

\* Behind the last entry there is none of that name.
LEMMA BehindPlaces ==
  ASSUME Ext2Mounted, NEW b, NEW path, NEW offset \in Nat, AtPlace(b, path, offset),
         offset >= mounted.block_size
  PROVE  InBlock(b, path) = NotThere
<1> DEFINE n == Len(Places(b))
           d == Ext2Directory(b)
<1>1. mounted.block_size \in Nat /\ DOMAIN d = 1..n /\ \A i \in 1..n : Places(b)[i] \in 0..(mounted.block_size - 1)
  BY DirectoryOf DEF Ext2Mounted
<1>2. \A j \in 1..n : ~Named(d[j], path)
  BY <1>1 DEF AtPlace
<1>3. {j \in DOMAIN d : Named(d[j], path)} = {}
  BY <1>1, <1>2
<1>4. QED
  BY <1>3 DEF InBlock, FirstNamed

\* Past an entry of another name: at the next, or behind the last.
LEMMA NextPlace ==
  ASSUME Ext2Mounted, NEW b, NEW path, NEW offset \in Nat, AtPlace(b, path, offset),
         offset < mounted.block_size, ~Named(Entry(b, offset), path)
  PROVE  /\ Entry(b, offset).rec_len = 0 => InBlock(b, path) = NotThere
         /\ Entry(b, offset).rec_len # 0 => /\ offset + Entry(b, offset).rec_len \in Nat
                                            /\ AtPlace(b, path, offset + Entry(b, offset).rec_len)
<1> DEFINE p == Places(b)
           n == Len(p)
           d == Ext2Directory(b)
           B == mounted.block_size
           len == Entry(b, offset).rec_len
<1>1. B \in Nat /\ n \in Nat /\ n >= 1 /\ DOMAIN d = 1..n
  BY DirectoryOf DEF Ext2Mounted
<1>2. PICK i \in 1..n : offset = p[i] /\ \A j \in 1..(i - 1) : ~Named(d[j], path)
  BY <1>1 DEF AtPlace
<1>3. d[i] = Entry(b, offset) /\ offset \in 0..(B - 1) /\ \A j \in 1..n : p[j] \in 0..(B - 1)
  BY <1>2, DirectoryOf
<1>4. len \in Nat
  BY <1>3, EntryLength
<1>5. \A j \in 1..i : ~Named(d[j], path)
  <2>1. \A j \in 1..i : j \in 1..(i - 1) \/ j = i
    OBVIOUS
  <2>2. QED
    BY <1>2, <1>3, <2>1
<1>6. /\ \A j \in 1..(n - 1) : p[j] < p[j + 1] /\ p[j + 1] = p[j] + Entry(b, p[j]).rec_len
      /\ p[n] >= p[n] + Entry(b, p[n]).rec_len \/ p[n] + Entry(b, p[n]).rec_len >= B
  BY PlacesComplete DEF Complete, Follow
<1> HIDE DEF p, n, d, B
<1>7. CASE i = n
  <2>1. \A j \in 1..n : ~Named(d[j], path)
    BY <1>5, <1>7
  <2>2. offset >= offset + len \/ offset + len >= B
    BY <1>2, <1>6, <1>7
  <2>3. CASE len = 0
    <3>1. {j \in DOMAIN d : Named(d[j], path)} = {}
      BY <1>1, <2>1
    <3>2. InBlock(b, path) = NotThere
      BY <3>1 DEF InBlock, FirstNamed, d
    <3>3. QED
      BY <2>3, <3>2
  <2>4. CASE len # 0
    <3>1. offset + len >= B /\ offset + len \in Nat
      <4> HIDE DEF len
      <4> QED
        BY <1>3, <1>4, <2>2, <2>4
    <3>2. AtPlace(b, path, offset + len)
      BY <2>1, <3>1 DEF AtPlace, n, d, p, B
    <3>3. QED
      BY <2>4, <3>1, <3>2
  <2>5. QED
    BY <2>3, <2>4
<1>8. CASE i < n
  <2>1. i \in 1..(n - 1) /\ i + 1 \in 1..n /\ (i + 1) - 1 = i
    BY <1>1, <1>8
  <2>2. p[i] < p[i + 1] /\ p[i + 1] = offset + len
    BY <1>2, <1>6, <2>1
  <2>3. len # 0 /\ offset + len \in Nat
    <3> HIDE DEF len
    <3> QED
      BY <1>2, <1>3, <1>4, <2>2
  <2>4. AtPlace(b, path, offset + len)
    <3>1. offset + len = p[i + 1] /\ \A j \in 1..((i + 1) - 1) : ~Named(d[j], path)
      BY <1>5, <2>1, <2>2
    <3> HIDE DEF len
    <3>2. QED
      BY <2>1, <3>1 DEF AtPlace, n, d, p
  <2>5. QED
    BY <2>3, <2>4
<1>9. QED
  BY <1>1, <1>2, <1>7, <1>8

-----------------------------------------------------------------------------
(* ext2: the search *)

\* The look-up goes through the first block of the root directory.
Ext2Finds(loop, locals) ==
  /\ loop = "found" => locals.inode \in Nat \ {0}
  /\ loop = "entry" =>
       \E offset \in Nat :
         /\ ~(call.op # "read" /\ call.path = RootPath) /\ Exists(RootInode)
         /\ locals = [block |-> Inode(RootInode).block[1], offset |-> offset]
         /\ AtPlace(Inode(RootInode).block[1], call.path, offset)

\* What is known of an ext2 look-up stays during a call.
LEMMA Ext2FindsKept ==
  ASSUME UNCHANGED <<disk, mounted, call>>
  PROVE  Ext2Finds(pc, at)' <=> Ext2Finds(pc', at')
<1>1. \A b, path, offset : AtPlace(b, path, offset)' <=> AtPlace(b, path, offset)
  BY Ext2Kept DEF AtPlace
<1>2. QED
  BY <1>1, Ext2Kept DEF Ext2Finds

\* An inode that cannot be found is none of a group.
LEMMA NoSuchInode ==
  ASSUME NEW n \in Nat, mounted.inodes_per_group \in Nat, mounted.group_count \in Nat,
         n # 0, mounted.inodes_per_group # 0, ~Exists(n)
  PROVE  n > mounted.group_count * mounted.inodes_per_group
<1> DEFINE i == mounted.inodes_per_group
           g == mounted.group_count
           q == (n - 1) \div i
           r == (n - 1) % i
<1>1. n - 1 \in Nat /\ i \in Nat \ {0} /\ g \in Nat
  OBVIOUS
<1>2. q >= g
  BY DEF Exists
<1> HIDE DEF i, g, q, r
<1>3. q \in Nat /\ r \in Nat /\ n - 1 = i * q + r
  <2> DEFINE m == n - 1
  <2> HIDE DEF m
  <2>1. m \in Nat
    BY <1>1 DEF m
  <2>2. m \div i \in Nat /\ m % i \in 0..(i - 1) /\ m = i * (m \div i) + (m % i)
    BY <1>1, <2>1, DivModIs
  <2>3. QED
    BY <1>1, <2>2 DEF m, q, r
<1>4. i * q >= i * g
  BY <1>1, <1>2, <1>3, ProductGrows
<1>5. g * i = i * g /\ i * q \in Nat /\ i * g \in Nat
  BY <1>1, <1>3
<1>6. n > g * i
  BY <1>3, <1>4, <1>5
<1>7. QED
  BY <1>6 DEF g, i

-----------------------------------------------------------------------------
(* ISO 9660: the records of a directory *)

IsoMounted ==
  /\ disk \in DOMAIN Disks /\ vol.driver = "iso9660"
  /\ mounted.block_size = vol.block_size
  /\ mounted.root \in Nat /\ mounted.root_size = vol.root_size

\* A block holds records, or none.
LEMMA RecordsOf ==
  ASSUME IsoMounted, NEW b
  PROVE  /\ Records(b) \in Seq(IsoRecords)
         /\ b \notin DOMAIN vol.blocks => Records(b) = << >>
         /\ mounted.block_size \in Nat /\ mounted.root_size \in 0..(Wrap - 1) /\ Wrap \in Nat \ {0}
<1>1. IsoVolume(vol)
  BY Iso9660Assumption DEF IsoMounted, vol
<1>2. Records(b) \in Seq(IsoRecords)
  <2>1. CASE b \in DOMAIN vol.blocks
    BY <1>1, <2>1 DEF IsoVolume, Records
  <2>2. CASE b \notin DOMAIN vol.blocks
    BY <2>2, EmptySeq DEF Records
  <2>3. QED
    BY <2>1, <2>2
<1>3. b \notin DOMAIN vol.blocks => Records(b) = << >>
  BY DEF Records
<1>4. QED
  BY <1>1, <1>2, <1>3, DiskAssumption DEF IsoVolume, IsoMounted

\* A file of so many bytes has so many blocks.
LEMMA BlockCount ==
  ASSUME IsoMounted, NEW size \in Nat
  PROVE  /\ BlocksOf(size) \in Nat
         /\ \A q \in Nat : mounted.block_size # 0 =>
              (mounted.block_size * q < size <=> q < BlocksOf(size))
<1> DEFINE bs == mounted.block_size
           N == BlocksOf(size)
<1>1. bs \in Nat
  BY RecordsOf
<1>2. CASE bs = 0
  BY <1>2 DEF BlocksOf
<1>3. CASE bs # 0
  <2> DEFINE a == size + bs - 1
  <2>1. a \in Nat /\ bs \in Nat \ {0}
    BY <1>1, <1>3
  <2>2. N = a \div bs
    BY <1>3 DEF BlocksOf
  <2> HIDE DEF bs, a, N
  <2>3. N \in Nat /\ a % bs \in 0..(bs - 1) /\ a = bs * N + (a % bs)
    BY <2>1, <2>2, DivModIs
  <2>4. bs * N \in Nat /\ bs * N <= size + bs - 1 /\ bs * N >= size
    BY <2>1, <2>3 DEF a
  <2>5. ASSUME NEW q \in Nat PROVE bs * q < size <=> q < N
    <3>1. bs * q \in Nat /\ bs * (q + 1) = bs * q + bs
      BY <2>1
    <3>2. CASE q < N
      <4>1. q + 1 \in Nat /\ q + 1 <= N
        BY <2>3, <3>2
      <4>2. bs * (q + 1) <= bs * N
        BY <2>1, <2>3, <4>1, ProductGrows
      <4>3. QED
        BY <2>1, <2>4, <3>1, <3>2, <4>2
    <3>3. CASE q >= N
      <4>1. bs * N <= bs * q
        BY <2>1, <2>3, <3>3, ProductGrows
      <4>2. ~(bs * q < size) /\ ~(q < N)
        BY <2>3, <2>4, <3>1, <3>3, <4>1
      <4>3. QED
        BY <4>2
    <3>4. QED
      BY <2>3, <3>2, <3>3
  <2>6. QED
    BY <2>3, <2>5 DEF bs, N
<1>4. QED
  BY <1>2, <1>3

\* The records of the blocks from extent on.
From9660(extent) == [n \in Nat \ {0} |-> Records(U(extent + n - 1))]
BlocksFrom(extent, n) == Joined(From9660(extent), n)

\* The directory is the join of its blocks.
LEMMA DirectoryJoined ==
  ASSUME IsoMounted, NEW extent, NEW size \in Nat
  PROVE  /\ DirectoryRecords(extent, size) = BlocksFrom(extent, BlocksOf(size))
         /\ AllLists(From9660(extent), BlocksOf(size), IsoRecords)
         /\ DirectoryRecords(extent, size) \in Seq(IsoRecords)
<1> DEFINE N == BlocksOf(size)
           h == From9660(extent)
<1>1. N \in Nat
  BY BlockCount
<1> HIDE DEF N
<1>2. \A n \in 1..N : n \in Nat \ {0} /\ h[n] = Records(U(extent + n - 1))
  BY <1>1 DEF From9660
<1>3. AllLists(h, N, IsoRecords)
  BY <1>2, RecordsOf DEF AllLists
<1>4. DirectoryRecords(extent, size) = Joined(h, N)
  <2> HIDE DEF h
  <2>1. [n \in 1..N |-> Records(U(extent + n - 1))] = [n \in 1..N |-> h[n]]
    BY <1>2
  <2>2. QED
    BY <2>1 DEF DirectoryRecords, Joined, N
<1>5. Joined(h, N) \in Seq(IsoRecords)
  <2> HIDE DEF h
  <2> QED
    BY <1>1, <1>3, JoinedLists
<1>6. QED
  BY <1>3, <1>4, <1>5 DEF BlocksFrom, N

-----------------------------------------------------------------------------
(* ISO 9660: the way of a path *)

\* Nowhere, or a directory or file.
Somewhere == [extent : Nat, size : 0..(Wrap - 1)]

\* Somewhere is not nowhere.
LEMMA SomewhereIs ==
  ASSUME NEW p \in Somewhere
  PROVE  p # NotThere /\ p = [extent |-> p.extent, size |-> p.size]
  BY DEF Somewhere, NotThere

\* The first match of a list is somewhere.
LEMMA WithinIs ==
  ASSUME IsoMounted, NEW records \in Seq(IsoRecords), NEW part, NEW last \in BOOLEAN
  PROVE  Within(records, part, last) \in Somewhere \cup {NotThere}
<1> DEFINE hits == {i \in DOMAIN records : Same(records[i], part) /\ (last \/ records[i].dir)}
           T == hits
<1>1. hits \subseteq Nat /\ \A i \in hits : records[i] \in IsoRecords
  BY LenProperties, ElementOfSeq
<1>2. Within(records, part, last) = PlaceIn(records, hits)
  BY DEF Within
<1> HIDE DEF hits
<1>3. CASE hits = {}
  BY <1>2, <1>3 DEF PlaceIn
<1>4. CASE hits # {}
  <2>1. Least(hits) \in hits
    BY <1>1, <1>4, LeastExists
  <2>2. records[Least(hits)] \in IsoRecords
    BY <1>1, <2>1
  <2>3. PlaceIn(records, hits) = [extent |-> records[Least(hits)].extent, size |-> records[Least(hits)].size]
    BY <1>4 DEF PlaceIn
  <2>4. QED
    BY <1>2, <2>2, <2>3 DEF IsoRecords, Somewhere
<1>5. QED
  BY <1>3, <1>4

\* Each step of the way leads on from the one before.
LEMMA WayIs ==
  ASSUME IsoMounted, NEW path, Len(path) \in Nat
  PROVE  /\ \A n \in 0..Len(path) : Way(path)[n] \in Somewhere \cup {NotThere}
         /\ Way(path)[0] = [extent |-> mounted.root, size |-> mounted.root_size]
         /\ \A n \in 1..Len(path) :
              Way(path)[n] =
                IF Way(path)[n - 1] = NotThere THEN NotThere
                ELSE Within(DirectoryRecords(Way(path)[n - 1].extent, Way(path)[n - 1].size),
                            path[n], n = Len(path))
<1> DEFINE L == Len(path)
           D == Somewhere \cup {NotThere}
           Next1(n, p) == IF p = NotThere THEN NotThere
                          ELSE Within(DirectoryRecords(p.extent, p.size), path[n], n = L)
           root == [extent |-> mounted.root, size |-> mounted.root_size]
           step == [x \in (1..L) \X D |-> Next1(x[1], x[2])]
           Made(f) == f = [n \in 0..L |-> IF n = 0 THEN root ELSE Next1(n, f[n - 1])]
           to == CHOOSE f : Made(f)
<1>1. L \in Nat
  OBVIOUS
<1>2. root \in D
  BY RecordsOf DEF IsoMounted, Somewhere
<1>3. ASSUME NEW n \in 1..L, NEW p \in D PROVE Next1(n, p) \in D
  <2>1. CASE p = NotThere
    BY <2>1
  <2>2. CASE p # NotThere
    <3>1. p.size \in Nat
      BY <2>2 DEF Somewhere
    <3>2. DirectoryRecords(p.extent, p.size) \in Seq(IsoRecords)
      BY <3>1, DirectoryJoined
    <3>3. Within(DirectoryRecords(p.extent, p.size), path[n], n = L) \in D
      <4>1. (n = L) \in BOOLEAN
        OBVIOUS
      <4>2. QED
        BY <3>2, <4>1, WithinIs
    <3>4. QED
      BY <2>2, <3>3
  <2>3. QED
    BY <2>1, <2>2
<1>4. step \in [(1..L) \X D -> D]
  <2> HIDE DEF Next1, D
  <2> QED
    BY <1>3
<1>5. \A i \in 1..L : \A p \in D : step[<<i, p>>] = Next1(i, p)
  <2> HIDE DEF Next1, D
  <2> QED
    OBVIOUS
<1> HIDE DEF step, D, root, Next1
<1>6. PICK f \in [0..L -> D] : Unfolds(f, L, root, step)
  BY <1>1, <1>2, <1>4, RecursionOverInterval
<1>7. Made(f)
  <2>1. ASSUME NEW n \in 0..L PROVE f[n] = IF n = 0 THEN root ELSE Next1(n, f[n - 1])
    <3>1. CASE n = 0
      BY <1>6, <3>1 DEF Unfolds
    <3>2. CASE n # 0
      <4>1. n \in 1..L /\ n - 1 \in 0..L
        BY <1>1, <3>2
      <4>2. f[n] = step[<<n, f[n - 1]>>] /\ f[n - 1] \in D
        BY <1>6, <4>1 DEF Unfolds
      <4>3. QED
        BY <1>5, <3>2, <4>1, <4>2
    <3>3. QED
      BY <3>1, <3>2
  <2>2. QED
    BY <2>1
<1>8. Made(to)
  <2> HIDE DEF Made
  <2> QED
    BY <1>7, Zenon
<1>9. Way(path) = to
  BY DEF Way, Next1, root
<1> HIDE DEF to
<1>10. \A n \in 0..L : to[n] = IF n = 0 THEN root ELSE Next1(n, to[n - 1])
  BY <1>8
<1>11. ASSUME NEW n \in 0..L PROVE to[n] \in D
  <2> DEFINE T == {i \in 0..L : to[i] \in D}
  <2>1. 0 \in T
    BY <1>1, <1>2, <1>10
  <2>2. ASSUME NEW k \in 0..(L - 1), k \in T PROVE k + 1 \in T
    <3>1. k + 1 \in 1..L /\ k + 1 \in 0..L /\ k + 1 # 0 /\ (k + 1) - 1 = k
      BY <1>1
    <3>2. to[k + 1] = Next1(k + 1, to[k]) /\ to[k] \in D
      BY <1>10, <2>2, <3>1
    <3>3. QED
      BY <1>3, <3>1, <3>2
  <2> HIDE DEF T
  <2>3. 0..L \subseteq T
    <3>1. 0 \in Nat
      OBVIOUS
    <3>2. QED
      BY <1>1, <2>1, <2>2, <3>1, IntervalInduction
  <2>4. QED
    BY <2>3 DEF T
<1>12. to[0] = root
  BY <1>1, <1>10
<1>13. ASSUME NEW n \in 1..L PROVE to[n] = Next1(n, to[n - 1])
  BY <1>1, <1>10
<1>14. QED
  BY <1>9, <1>11, <1>12, <1>13 DEF D, root, Next1

\* A way that has come to nowhere stays there.
LEMMA NowhereStays ==
  ASSUME IsoMounted, NEW path, Len(path) \in Nat, NEW k \in 0..Len(path), Way(path)[k] = NotThere
  PROVE  IsoEntry(path) = NotThere
<1> DEFINE L == Len(path)
           T == {i \in k..L : Way(path)[i] = NotThere}
<1>1. L \in Nat /\ k \in Nat /\ k \in T /\ L \in k..L
  OBVIOUS
<1>2. ASSUME NEW i \in k..(L - 1), i \in T PROVE i + 1 \in T
  <2>1. i + 1 \in 1..L /\ (i + 1) - 1 = i /\ i + 1 \in k..L
    BY <1>1
  <2>2. Way(path)[i + 1] = NotThere
    BY <1>2, <2>1, WayIs
  <2>3. QED
    BY <2>1, <2>2
<1> HIDE DEF T, L
<1>3. k..L \subseteq T
  BY <1>1, <1>2, IntervalInduction
<1>4. L \in T
  BY <1>1, <1>3
<1>5. QED
  BY <1>4 DEF T, L, IsoEntry

-----------------------------------------------------------------------------
(* ISO 9660: the search *)

\* The records that lead on from a directory.
LeadsOn(part, last) == {r \in IsoRecords : Same(r, part) /\ (last \/ r.dir)}

\* The search has found nothing in the first m blocks.
NoneIn(extent, m, part, last) ==
  \A n \in 1..m : From9660(extent)[n] \in Seq(IsoRecords \ LeadsOn(part, last))

\* Nothing in any block: the way ends there.
LEMMA NoneWithin ==
  ASSUME IsoMounted, NEW extent, NEW size \in Nat, NEW part, NEW last \in BOOLEAN,
         NoneIn(extent, BlocksOf(size), part, last)
  PROVE  Within(DirectoryRecords(extent, size), part, last) = NotThere
<1> DEFINE d == DirectoryRecords(extent, size)
           N == BlocksOf(size)
           h == From9660(extent)
           S == IsoRecords \ LeadsOn(part, last)
<1>1. N \in Nat /\ d = Joined(h, N)
  BY BlockCount, DirectoryJoined DEF BlocksFrom
<1>2. AllLists(h, N, S)
  BY DEF NoneIn, AllLists
<1>3. d \in Seq(S)
  <2> HIDE DEF h, N, d, S
  <2> QED
    BY <1>1, <1>2, JoinedLists
<1> HIDE DEF d
<1>4. \A i \in DOMAIN d : d[i] \in IsoRecords /\ d[i] \notin LeadsOn(part, last)
  <2>1. \A i \in DOMAIN d : d[i] \in S
    <3> HIDE DEF S
    <3> QED
      BY <1>3, LenProperties, ElementOfSeq
  <2>2. QED
    BY <2>1
<1>5. {i \in DOMAIN d : Same(d[i], part) /\ (last \/ d[i].dir)} = {}
  BY <1>4 DEF LeadsOn
<1>6. QED
  BY <1>5 DEF Within, PlaceIn, d

\* The first match of a block, and none in those before: it is where the way
\* leads.
LEMMA FirstWithin ==
  ASSUME IsoMounted, NEW extent \in Nat, NEW size \in Nat, NEW part, NEW last \in BOOLEAN,
         NEW m \in Nat, m < BlocksOf(size), NoneIn(extent, m, part, last),
         NEW b, b = Records(U(extent + m)), NEW j \in 1..Len(b), b[j] \in LeadsOn(part, last),
         \A i \in 1..(j - 1) : b[i] \notin LeadsOn(part, last)
  PROVE  Within(DirectoryRecords(extent, size), part, last) = [extent |-> b[j].extent, size |-> b[j].size]
<1> DEFINE d == DirectoryRecords(extent, size)
           N == BlocksOf(size)
           h == From9660(extent)
           H == LeadsOn(part, last)
           a == Joined(h, m)
<1>1. N \in Nat /\ d = Joined(h, N) /\ AllLists(h, N, IsoRecords) /\ d \in Seq(IsoRecords)
  BY BlockCount, DirectoryJoined DEF BlocksFrom
<1> HIDE DEF N
<1>2. m \in 0..N /\ m + 1 \in 0..N /\ m + 1 \in Nat /\ m + 1 > 0 /\ (m + 1) - 1 = m /\ m + 1 \in Nat \ {0}
  BY <1>1 DEF N
<1>3. h[m + 1] = b
  <2>1. h[m + 1] = Records(U(extent + (m + 1) - 1)) /\ extent + (m + 1) - 1 = extent + m
    BY <1>2 DEF From9660
  <2>2. QED
    BY <2>1
<1>4. b \in Seq(IsoRecords)
  BY RecordsOf
<1> HIDE DEF h
<1>5. a \in Seq(IsoRecords \ H)
  <2>1. AllLists(h, m, IsoRecords \ H)
    BY DEF NoneIn, AllLists, h
  <2> HIDE DEF H
  <2>2. QED
    BY <2>1, JoinedLists
<1>6. Joined(h, m + 1) = a \o b
  <2>1. AllLists(h, m + 1, IsoRecords)
    BY <1>1, <1>2 DEF AllLists
  <2>2. Joined(h, m + 1) = Joined(h, (m + 1) - 1) \o h[m + 1]
    BY <1>2, <2>1, JoinedLists
  <2>3. QED
    BY <1>2, <1>3, <2>2
<1>7. PICK r \in Seq(IsoRecords) : d = Joined(h, m + 1) \o r
  <2>1. Continues(Joined(h, N), Joined(h, m + 1), IsoRecords)
    BY <1>1, <1>2, JoinedPrefix
  <2>2. QED
    BY <1>1, <2>1 DEF Continues
<1>8. d = (a \o b) \o r
  BY <1>6, <1>7, Zenon
<1> DEFINE p == Len(a) + j
<1> HIDE DEF d, a, H
<1>9. /\ d \in Seq(IsoRecords) /\ p \in 1..Len(d) /\ d[p] = b[j]
      /\ \A i \in 1..(p - 1) : d[i] \notin H
  <2>1. b[j] \in H /\ \A i \in 1..(j - 1) : b[i] \notin H
    BY DEF H
  <2>2. QED
    BY <1>4, <1>5, <1>8, <2>1, FirstMatch
<1> HIDE DEF p
<1> DEFINE hits == {i \in DOMAIN d : Same(d[i], part) /\ (last \/ d[i].dir)}
<1>10. DOMAIN d = 1..Len(d) /\ \A i \in 1..Len(d) : d[i] \in IsoRecords
  BY <1>9, LenProperties, ElementOfSeq
<1>11. hits = {i \in 1..Len(d) : d[i] \in H}
  BY <1>10 DEF H, LeadsOn
<1> HIDE DEF hits
<1>12. hits \subseteq Nat /\ p \in hits /\ \A i \in hits : p <= i
  <2>1. Len(d) \in Nat /\ d[p] \in H
    BY <1>9, LenProperties DEF H
  <2>2. p \in hits /\ hits \subseteq Nat
    BY <1>9, <1>11, <2>1
  <2>3. ASSUME NEW i \in hits PROVE p <= i
    <3>1. i \in 1..Len(d) /\ d[i] \in H /\ i \notin 1..(p - 1)
      BY <1>9, <1>11, <2>3
    <3>2. QED
      BY <1>9, <2>1, <3>1
  <2>4. QED
    BY <2>2, <2>3
<1>13. Least(hits) = p /\ hits # {}
  BY <1>12, LeastIs
<1>14. Within(d, part, last) = PlaceIn(d, hits)
  BY DEF Within, hits
<1>15. PlaceIn(d, hits) = [extent |-> b[j].extent, size |-> b[j].size]
  BY <1>9, <1>13 DEF PlaceIn
<1>16. QED
  BY <1>14, <1>15 DEF d

\* The search is at offset off of a directory and has found nothing before, or
\* the offset has wrapped and there is nothing in any block.
IsoSearched(extent, size, off, part, last) ==
  \E m \in 0..BlocksOf(size) :
    NoneIn(extent, m, part, last) /\ (off = mounted.block_size * m \/ m = BlocksOf(size))

\* The block at an offset of a directory is one of its blocks.
LEMMA BlockAt ==
  ASSUME IsoMounted, NEW size \in Nat, NEW off \in Nat, off < size, mounted.block_size # 0
  PROVE  /\ off \div mounted.block_size \in Nat
         /\ off \div mounted.block_size < BlocksOf(size)
         /\ \A m \in Nat : off = mounted.block_size * m => off \div mounted.block_size = m
<1> DEFINE bs == mounted.block_size
           q == off \div bs
           r == off % bs
<1>1. bs \in Nat \ {0}
  BY RecordsOf
<1> HIDE DEF bs
<1>2. q \in Nat /\ r \in 0..(bs - 1) /\ off = bs * q + r
  BY <1>1, DivModIs
<1>3. ASSUME NEW m \in Nat, off = bs * m PROVE q = m
  <2>1. off = bs * m + 0 /\ 0 \in 0..(bs - 1)
    BY <1>1, <1>3
  <2>2. QED
    BY <1>1, <2>1, DivMod
<1> HIDE DEF q, r
<1>4. bs * q \in Nat /\ bs * q < size
  BY <1>1, <1>2
<1>5. q < BlocksOf(size)
  <2>1. \A k \in Nat : bs * k < size <=> k < BlocksOf(size)
    BY BlockCount DEF bs
  <2>2. QED
    BY <1>2, <1>4, <2>1
<1>6. QED
  BY <1>2, <1>3, <1>5 DEF q, bs

\* A block without a match is behind.
LEMMA SearchedOn ==
  ASSUME IsoMounted, NEW extent \in Nat, NEW size \in 0..(Wrap - 1), NEW off \in 0..(Wrap - 1), off < size,
         NEW part, NEW last \in BOOLEAN, mounted.block_size # 0,
         IsoSearched(extent, size, off, part, last),
         Records(U(extent + off \div mounted.block_size)) \in Seq(IsoRecords \ LeadsOn(part, last))
  PROVE  /\ IsoSearched(extent, size, U(off + mounted.block_size), part, last)
         /\ U(off + mounted.block_size) \in 0..(Wrap - 1)
<1> DEFINE bs == mounted.block_size
           N == BlocksOf(size)
           q == off \div bs
           w == U(off + bs)
<1>1. bs \in Nat \ {0} /\ Wrap \in Nat \ {0} /\ size \in Nat /\ off \in Nat
  BY RecordsOf
<1>2. N \in Nat /\ \A k \in Nat : bs * k < size <=> k < N
  BY <1>1, BlockCount
<1>3. q \in Nat /\ q < N /\ \A m \in Nat : off = bs * m => q = m
  BY <1>1, BlockAt
<1>4. PICK m \in 0..N : NoneIn(extent, m, part, last) /\ (off = bs * m \/ m = N)
  BY DEF IsoSearched
<1>5. w \in 0..(Wrap - 1)
  <2>1. off + bs \in Nat
    BY <1>1
  <2>2. QED
    BY <1>1, <2>1 DEF U
<1>6. CASE m = N
  <2>1. IsoSearched(extent, size, w, part, last)
    BY <1>2, <1>4, <1>6 DEF IsoSearched
  <2>2. QED
    BY <1>5, <2>1
<1>7. CASE off = bs * m /\ m # N
  <2>1. m \in Nat /\ q = m /\ m + 1 \in 0..N /\ m < N
    BY <1>2, <1>3, <1>7
  <2>2. NoneIn(extent, m + 1, part, last)
    <3>1. From9660(extent)[m + 1] = Records(U(extent + q))
      <4>1. m + 1 \in Nat \ {0} /\ extent + (m + 1) - 1 = extent + q
        BY <2>1
      <4>2. From9660(extent)[m + 1] = Records(U(extent + (m + 1) - 1))
        BY <4>1 DEF From9660
      <4>3. QED
        BY <4>1, <4>2
    <3>2. \A n \in 1..(m + 1) : n \in 1..m \/ n = m + 1
      BY <2>1
    <3> HIDE DEF q
    <3>3. QED
      BY <1>4, <3>1, <3>2 DEF NoneIn, q
  <2>3. w = bs * (m + 1) \/ m + 1 = N
    <3>1. off + bs = bs * (m + 1) /\ bs * (m + 1) \in Nat
      BY <1>1, <1>7, <2>1, Multiples
    <3>2. CASE off + bs < Wrap
      <4>1. w = off + bs
        <5>1. off + bs \in Nat
          BY <1>1
        <5>2. QED
          BY <1>1, <3>2, <5>1, ModSmall DEF U
      <4>2. QED
        BY <3>1, <4>1
    <3>3. CASE off + bs >= Wrap
      <4>1. ~(bs * (m + 1) < size)
        BY <1>1, <3>1, <3>3
      <4>2. ~(m + 1 < N)
        BY <1>2, <2>1, <4>1
      <4>3. QED
        BY <1>2, <2>1, <4>2
    <3>4. QED
      BY <1>1, <3>2, <3>3
  <2> HIDE DEF w, N
  <2>4. \E l \in 0..N : NoneIn(extent, l, part, last) /\ (w = bs * l \/ l = N)
    BY <2>1, <2>2, <2>3
  <2>5. QED
    BY <1>5, <2>4 DEF IsoSearched, w, N
<1>8. QED
  BY <1>4, <1>6, <1>7

\* At a match: the search has come there without a wrap, and it is the first.
LEMMA FoundRecord ==
  ASSUME IsoMounted, NEW extent \in Nat, NEW size \in Nat, NEW off \in Nat, off < size,
         NEW part, NEW last \in BOOLEAN, mounted.block_size # 0,
         IsoSearched(extent, size, off, part, last),
         NEW b, b = Records(U(extent + off \div mounted.block_size)),
         NEW j \in 1..Len(b), b[j] \in LeadsOn(part, last),
         \A i \in 1..(j - 1) : b[i] \notin LeadsOn(part, last)
  PROVE  Within(DirectoryRecords(extent, size), part, last) = [extent |-> b[j].extent, size |-> b[j].size]
<1> DEFINE bs == mounted.block_size
           N == BlocksOf(size)
           q == off \div bs
<1>1. bs \in Nat \ {0} /\ N \in Nat
  BY RecordsOf, BlockCount
<1>2. q \in Nat /\ q < N /\ \A m \in Nat : off = bs * m => q = m
  BY <1>1, BlockAt
<1>3. PICK m \in 0..N : NoneIn(extent, m, part, last) /\ (off = bs * m \/ m = N)
  BY DEF IsoSearched
<1>4. q >= m
  <2>1. CASE q < m
    <3>1. q + 1 \in 1..m /\ q + 1 \in Nat \ {0} /\ extent + (q + 1) - 1 = extent + q
      BY <1>1, <1>2, <2>1
    <3>2. From9660(extent)[q + 1] = Records(U(extent + (q + 1) - 1))
      BY <3>1 DEF From9660
    <3>3. From9660(extent)[q + 1] = b
      BY <3>1, <3>2
    <3>4. b \in Seq(IsoRecords \ LeadsOn(part, last))
      BY <1>3, <3>1, <3>3 DEF NoneIn
    <3>5. QED
      BY <3>4, ElementOfSeq
  <2>2. QED
    BY <1>1, <1>2, <2>1
<1>5. q = m
  <2>1. m \in Nat /\ m # N
    BY <1>1, <1>2, <1>4
  <2>2. QED
    BY <1>2, <1>3, <2>1
<1>6. m \in Nat /\ m < BlocksOf(size) /\ b = Records(U(extent + m))
  BY <1>2, <1>5
<1> HIDE DEF bs, N, q
<1>7. QED
  BY <1>3, <1>6, FirstWithin

\* Behind the last block there is nothing.
LEMMA SearchedAll ==
  ASSUME IsoMounted, NEW extent \in Nat, NEW size \in Nat, NEW off \in Nat, ~(off < size),
         NEW part, NEW last \in BOOLEAN, IsoSearched(extent, size, off, part, last)
  PROVE  Within(DirectoryRecords(extent, size), part, last) = NotThere
<1> DEFINE bs == mounted.block_size
           N == BlocksOf(size)
<1>1. bs \in Nat /\ N \in Nat
  BY RecordsOf, BlockCount
<1>2. PICK m \in 0..N : NoneIn(extent, m, part, last) /\ (off = bs * m \/ m = N)
  BY DEF IsoSearched
<1>3. m = N
  <2>1. CASE bs = 0
    <3>1. N = 0
      BY <2>1 DEF BlocksOf
    <3>2. QED
      BY <3>1
  <2>2. CASE bs # 0 /\ off = bs * m
    <3>1. m \in Nat /\ ~(bs * m < size)
      BY <1>1, <2>2
    <3>2. \A k \in Nat : bs * k < size <=> k < N
      BY <2>2, BlockCount
    <3> HIDE DEF bs, N
    <3>3. QED
      BY <1>1, <3>1, <3>2
  <2>3. QED
    BY <1>2, <2>1, <2>2
<1>4. NoneIn(extent, BlocksOf(size), part, last)
  BY <1>2, <1>3
<1>5. QED
  BY <1>4, NoneWithin

\* The look-up is in the directory that the first k - 1 parts lead to.
IsoIn(k, locals) ==
  /\ locals = [extent |-> locals.extent, size |-> locals.size, off |-> locals.off, i |-> locals.i,
               rest |-> From(k), depth |-> locals.depth]
  /\ locals.extent \in Nat /\ locals.size \in 0..(Wrap - 1) /\ locals.off \in 0..(Wrap - 1)
  /\ locals.i \in Nat \ {0}
  /\ Way(call.path)[k - 1] = [extent |-> locals.extent, size |-> locals.size]
  /\ IsoSearched(locals.extent, locals.size, locals.off, call.path[k], k = Len(call.path))

\* The records it has passed in the block it is in.
IsoPassed(k, locals) ==
  LET records == Records(U(locals.extent + locals.off \div mounted.block_size))
  IN  /\ locals.off < locals.size
      /\ \A j \in 1..(locals.i - 1) :
           j <= Len(records) /\ records[j] \notin LeadsOn(call.path[k], k = Len(call.path))

IsoFinds(loop, locals) ==
  /\ loop \in {"record", "found", "listing"} => mounted.block_size # 0
  /\ loop = "block" => \E k \in 1..Len(call.path) : IsoIn(k, locals) /\ locals.i = 1
  /\ loop = "record" => \E k \in 1..Len(call.path) : IsoIn(k, locals) /\ IsoPassed(k, locals)

\* What is known of an ISO 9660 look-up stays during a call.
LEMMA IsoFindsKept ==
  ASSUME UNCHANGED <<disk, mounted, call>>
  PROVE  IsoFinds(pc, at)' <=> IsoFinds(pc', at')
<1>1. \A k, locals : IsoPassed(k, locals)' <=> IsoPassed(k, locals)
  BY IsoKept DEF IsoPassed
<1>2. \A extent, size, off, part, last :
        IsoSearched(extent, size, off, part, last)' <=> IsoSearched(extent, size, off, part, last)
  <2>1. \A extent : From9660(extent)' = From9660(extent)
    BY IsoKept DEF From9660
  <2>2. \A size : BlocksOf(size)' = BlocksOf(size)
    BY DEF BlocksOf
  <2>3. \A extent, m, part, last : NoneIn(extent, m, part, last)' <=> NoneIn(extent, m, part, last)
    BY <2>1 DEF NoneIn
  <2>4. QED
    BY <2>2, <2>3 DEF IsoSearched
<1>3. \A k : From(k)' = From(k)
  BY DEF From
<1>4. \A k, locals : IsoIn(k, locals)' <=> IsoIn(k, locals)
  BY <1>2, <1>3, IsoKept DEF IsoIn
<1>5. QED
  BY <1>1, <1>4 DEF IsoFinds

-----------------------------------------------------------------------------
(* Every look-up ends at its entry *)

\* How far the look-up of a driver is, in its loop and locals.
OnTheWay(loop, locals) ==
  /\ vol.driver = "fat32" => FatFinds(loop, locals)
  /\ vol.driver = "ext2" => Ext2Finds(loop, locals)
  /\ vol.driver = "iso9660" => IsoFinds(loop, locals)
  /\ loop = "found" => locals = TheEntry

\* What a call for the information of an entry tells of it.
Tells(value, e) ==
  /\ vol.driver = "fat32" => value.size = e.size
  /\ vol.driver = "ext2" =>
       value = [size |-> Inode(e.inode).size, is_dir |-> Inode(e.inode).mode = "dir"]
  /\ vol.driver = "iso9660" =>
       /\ value.size = e.size
       /\ \E b \in DOMAIN vol.blocks : \E r \in Range(vol.blocks[b]) :
            r.extent = e.extent /\ r.size = e.size /\ value.is_dir = r.dir

\* Every look-up ends where its driver's loops lead.
LookupEnds ==
  /\ pc = "found" => at = TheEntry
  /\ Refuses(IF vol.driver = "iso9660" THEN "list" ELSE "info") => MayRefuse(TheEntry)
  /\ Answered("info") => Tells(ret.value, TheEntry)

Finds == OnTheWay(pc, at) /\ LookupEnds

\* What is known of a look-up stays during a call.
LEMMA OnTheWayKept ==
  ASSUME UNCHANGED <<disk, mounted, call>>
  PROVE  OnTheWay(pc, at)' <=> OnTheWay(pc', at')
<1>1. vol' = vol
  BY DEF vol
<1>2. TheEntry' = TheEntry
  BY EntryKept
<1>3. FatFinds(pc, at)' <=> FatFinds(pc', at')
  BY FatFindsKept
<1>4. Ext2Finds(pc, at)' <=> Ext2Finds(pc', at')
  BY Ext2FindsKept
<1>5. IsoFinds(pc, at)' <=> IsoFinds(pc', at')
  BY IsoFindsKept
<1>6. QED
  BY <1>1, <1>2, <1>3, <1>4, <1>5 DEF OnTheWay

\* A turn goes on.
LEMMA FindsGoto ==
  ASSUME NEW loop, NEW locals, Goto(loop, locals), loop # "done", OnTheWay(loop, locals)
  PROVE  Finds'
<1>1. UNCHANGED <<disk, mounted, call>> /\ pc' = loop /\ at' = locals
  BY DEF Goto
<1>2. OnTheWay(pc, at)'
  BY <1>1, OnTheWayKept
<1>3. pc' = "found" => at' = TheEntry'
  BY <1>1, EntryKept DEF OnTheWay
<1>4. QED
  BY <1>1, <1>2, <1>3 DEF Finds, LookupEnds, Refuses, Answered

\* Where no loop runs nothing is looked up.
LEMMA NotOnTheWay ==
  ASSUME NEW loop \in {"done", "idle", "undefined", "detect", "mount", "unmount", "open",
                       "skip", "copy", "chunk", "list"}, NEW locals
  PROVE  OnTheWay(loop, locals)
  BY DEF OnTheWay, FatFinds, Ext2Finds, IsoFinds

\* A call fails.
LEMMA FindsGive ==
  ASSUME NEW memory, NEW tells \in BOOLEAN, Give(memory, tells),
         \/ tells
         \/ call.op \notin {"list", "info"}
         \/ call.op = "list" /\ vol.driver # "iso9660"
         \/ call.op = "info" /\ vol.driver = "iso9660"
         \/ MayRefuse(TheEntry)
  PROVE  Finds'
<1>1. UNCHANGED <<disk, mounted, call>> /\ pc' = "done" /\ ret' = Fail
      /\ refused' = (refused \/ tells)
  BY DEF Give, Return
<1>2. vol' = vol
  BY <1>1 DEF vol
<1>3. OnTheWay(pc, at)'
  BY <1>1, OnTheWayKept, NotOnTheWay
<1>4. MayRefuse(TheEntry)' <=> MayRefuse(TheEntry)
  BY <1>1, EntryKept
<1>5. Refuses(IF vol.driver = "iso9660" THEN "list" ELSE "info")' => MayRefuse(TheEntry)'
  BY <1>1, <1>2, <1>4 DEF Refuses
<1>6. QED
  BY <1>1, <1>3, <1>5 DEF Finds, LookupEnds, Answered, Fail

\* A call succeeds.
LEMMA FindsReturn ==
  ASSUME Typed, NEW value, NEW memory, Return(Ok(value), memory),
         call.op = "info" => UNCHANGED mounted /\ Tells(value, TheEntry)
  PROVE  Finds'
<1>1. UNCHANGED <<disk, call>> /\ pc' = "done" /\ ret' = Ok(value) /\ ret'.ok /\ ret'.value = value
  BY DEF Return, Ok
<1>2. OnTheWay(pc, at)'
  BY <1>1 DEF OnTheWay, FatFinds, Ext2Finds, IsoFinds
<1>3. CASE call.op = "info"
  <2>1. UNCHANGED <<disk, mounted, call>> /\ Tells(value, TheEntry)
    BY <1>1, <1>3
  <2>2. vol' = vol /\ TheEntry' = TheEntry
    BY <2>1, EntryKept DEF vol
  <2>3. \A n : Inode(n)' = Inode(n)
    BY <2>1, Ext2Kept
  <2>4. vol.driver \in {"fat32", "ext2", "iso9660"}
    BY DiskAssumption DEF Typed, vol
  <2>5. Tells(ret.value, TheEntry)'
    BY <1>1, <2>1, <2>2, <2>3, <2>4 DEF Tells
  <2>6. QED
    BY <1>1, <1>2, <2>5 DEF Finds, LookupEnds, Refuses
<1>4. CASE call.op # "info"
  BY <1>1, <1>2, <1>4 DEF Finds, LookupEnds, Refuses, Answered
<1>5. QED
  BY <1>3, <1>4

\* A call of which nothing is known any more, or none.
LEMMA FindsElse ==
  ASSUME pc' \in {"undefined", "idle", "detect", "mount", "unmount", "open"}
  PROVE  Finds'
  BY DEF Finds, OnTheWay, FatFinds, Ext2Finds, IsoFinds, LookupEnds, Refuses, Answered

-----------------------------------------------------------------------------
(* FAT32: every step *)

\* A part that is known or empty hides no later one.
LEMMA FatKnownOn ==
  ASSUME NEW k \in Nat, NEW m \in Nat, FatKnown(k), \A i \in k..(m - 1) : call.path[i] = << >>
  PROVE  FatKnown(m)
  BY DEF FatKnown

\* A part that nothing in the root has the name of, or that is too long: there
\* is no such entry.
LEMMA FatNotThere ==
  ASSUME vol.driver = "fat32", NEW k \in DOMAIN call.path, call.path[k] # << >>,
         \/ Len(call.path[k]) > MaxPart
         \/ Hits(Directory(mounted.root_dir_first_cluster), call.path[k]) = {}
  PROVE  MayRefuse(TheEntry)
<1>1. \E i \in DOMAIN call.path : call.path[i] # << >> /\
        (Hits(Directory(mounted.root_dir_first_cluster), call.path[i]) = {} \/ Len(call.path[i]) > MaxPart)
  OBVIOUS
<1>2. FatEntry(call.path) = NotThere
  BY <1>1 DEF FatEntry, EntryIn
<1>3. QED
  BY <1>2 DEF TheEntry, MayRefuse

\* Every part known: the last one is the answer.
LEMMA FatThere ==
  ASSUME vol.driver = "fat32", call.path \in Seq(Seq(STRING)), FatKnown(Len(call.path) + 1)
  PROVE  TheEntry =
           LET root == Directory(mounted.root_dir_first_cluster)
               part == call.path[Len(call.path)]
               e == root[Least(Hits(root, part))]
           IN  IF part = << >> THEN [cluster |-> mounted.root_dir_first_cluster, size |-> 0]
               ELSE [cluster |-> e.first, size |-> e.size]
<1>1. DOMAIN call.path = 1..Len(call.path) /\ Len(call.path) \in Nat
      /\ \A i \in 1..Len(call.path) : Len(call.path[i]) \in Nat
  BY LenProperties, ElementOfSeq
<1>2. ASSUME NEW i \in DOMAIN call.path, call.path[i] # << >>
      PROVE  ~(Hits(Directory(mounted.root_dir_first_cluster), call.path[i]) = {} \/ Len(call.path[i]) > MaxPart)
  <2>1. i \in 1..((Len(call.path) + 1) - 1) /\ MaxPart \in Nat /\ Len(call.path[i]) \in Nat
    BY <1>1, DiskAssumption
  <2>2. /\ Len(call.path[i]) <= MaxPart
        /\ Hits(Directory(mounted.root_dir_first_cluster), call.path[i]) # {}
    BY <1>2, <2>1 DEF FatKnown
  <2>3. ~(Len(call.path[i]) > MaxPart)
    BY <2>1, <2>2
  <2>4. QED
    BY <2>2, <2>3
<1>3. ~\E i \in DOMAIN call.path : call.path[i] # << >> /\
        (Hits(Directory(mounted.root_dir_first_cluster), call.path[i]) = {} \/ Len(call.path[i]) > MaxPart)
  BY <1>2
<1>4. TheEntry = EntryIn(Directory(mounted.root_dir_first_cluster), call.path)
  BY DEF TheEntry, FatEntry
<1>5. QED
  BY <1>3, <1>4 DEF EntryIn

\* Look from the k-th part on.
LEMMA FatLookFinds ==
  ASSUME Typed, vol.driver = "fat32", pc \in Serving,
         NEW k \in 1..Len(call.path), FatKnown(k), Look(From(k))
  PROVE  Finds'
<1> DEFINE rest == SkipSlashes(From(k))
<1>1. /\ call.path \in Seq(Seq(STRING)) /\ Len(call.path) \in Nat \ {0} /\ DOMAIN call.path = 1..Len(call.path)
      /\ k \in 1..Len(call.path)
  <2>1. call.path \in Paths
    BY DEF Typed, CallTyped
  <2>2. call.path \in Seq(Seq(STRING)) /\ call.path # << >>
    BY <2>1, DiskAssumption
  <2>3. QED
    BY <2>2, LenProperties, EmptySeq
<1>2. Skipped(k, rest)
  BY <1>1, SkipsSlashes
<1>3. CASE rest = << >> /\ Goto("found", [cluster |-> mounted.root_dir_first_cluster, size |-> 0])
  <2>1. \A i \in k..Len(call.path) : call.path[i] = << >>
    BY <1>2, <1>3 DEF Skipped
  <2>2. FatKnown(Len(call.path) + 1)
    BY <1>1, <2>1, FatKnownOn
  <2>3. call.path[Len(call.path)] = << >>
    BY <1>1, <2>1
  <2>4. TheEntry = [cluster |-> mounted.root_dir_first_cluster, size |-> 0]
    BY <1>1, <2>2, <2>3, FatThere
  <2>5. QED
    BY <1>3, <2>4, FindsGoto DEF OnTheWay, FatFinds
<1>4. CASE rest # << >>
  <2> DEFINE Part(m) == /\ rest = From(m) /\ rest[1] = call.path[m]
                        /\ call.path[m] # << >> /\ \A i \in k..(m - 1) : call.path[i] = << >>
  <2>1. PICK m \in k..Len(call.path) : Part(m)
    BY <1>2, <1>4 DEF Skipped
  <2>2. m \in 1..Len(call.path)
    BY <1>1
  <2>3. FatKnown(m)
    BY <1>1, <2>1, <2>2, FatKnownOn
  <2> HIDE DEF rest
  <2>4. CASE Len(rest[1]) > MaxPart /\ Give(held, FALSE)
    <3>1. MayRefuse(TheEntry)
      BY <1>1, <2>1, <2>2, <2>4, FatNotThere
    <3>2. QED
      BY <2>4, <3>1, FindsGive
  <2>5. CASE Give(held, TRUE)
    BY <2>5, FindsGive
  <2>6. CASE /\ Len(rest[1]) <= MaxPart
             /\ Goto("search", [cluster |-> mounted.root_dir_first_cluster, rest |-> rest])
    <3>1. FatMounted
      BY DEF FatMounted, Typed, MountTyped, CallTyped
    <3>2. FatCluster(0) = mounted.root_dir_first_cluster
      BY <3>1, FatChain DEF FatCluster, FatMounted
    <3>3. FatPassed(0, call.path[m])
      BY DEF FatPassed, Passed
    <3>4. FatAt(m, 0, [cluster |-> mounted.root_dir_first_cluster, rest |-> rest])
      BY <2>1, <2>3, <2>6, <3>2, <3>3 DEF FatAt
    <3>5. OnTheWay("search", [cluster |-> mounted.root_dir_first_cluster, rest |-> rest])
      BY <2>2, <3>4 DEF OnTheWay, FatFinds
    <3>6. QED
      BY <2>6, <3>5, FindsGoto
  <2>7. QED
    BY <1>4, <2>4, <2>5, <2>6 DEF Look, rest
<1>5. QED
  BY <1>3, <1>4 DEF Look

\* One cluster of the root searched.
LEMMA FatSearchFinds ==
  ASSUME Typed, vol.driver = "fat32", FatFinds(pc, at), fat32_find_file
  PROVE  Finds'
<1> DEFINE c == at.cluster
           entries == vol.dir[c]
           path == call.path
           hit == FirstOf(entries, fatname(at.rest[1]))
<1>1. /\ path \in Seq(Seq(STRING)) /\ Len(path) \in Nat \ {0} /\ DOMAIN path = 1..Len(path)
      /\ pc = "search"
  <2>1. pc = "search"
    BY DEF fat32_find_file
  <2>2. path \in Paths
    BY <2>1 DEF Typed, CallTyped, Serving
  <2>3. path \in Seq(Seq(STRING)) /\ path # << >>
    BY <2>2, DiskAssumption
  <2>4. QED
    BY <2>1, <2>3, LenProperties, EmptySeq
<1>2. PICK k \in 1..Len(path), n \in Nat : FatAt(k, n, at)
  BY <1>1 DEF FatFinds
<1>3. /\ FatKnown(k) /\ path[k] # << >> /\ Len(path[k]) <= MaxPart
      /\ at = [cluster |-> FatCluster(n), rest |-> From(k)] /\ FatPassed(n, path[k])
      /\ c = FatCluster(n) /\ at.rest = From(k)
  BY <1>2 DEF FatAt
<1>4. FatMounted
  BY <1>1 DEF FatMounted, Typed, MountTyped, CallTyped, Serving
<1>5. mounted.root_dir_first_cluster \in Nat
  BY <1>4 DEF FatMounted
<1>6. From(k)[1] = path[k] /\ Len(From(k)) = Len(path) - k + 1
      /\ (k < Len(path) => Tail(From(k)) = From(k + 1))
  BY <1>1, FromPart
<1>7. hit = FirstOf(entries, fatname(path[k]))
  BY <1>3, <1>6
<1> DEFINE root == mounted.root_dir_first_cluster
           part == path[k]
<1>8. Passed(Links(root), n, part) /\ c = Links(root)[n]
  BY <1>3 DEF FatPassed, FatCluster
<1> HIDE DEF c, entries, hit
<1>9. ASSUME Hits(Directory(root), part) = {} PROVE MayRefuse(TheEntry)
  BY <1>1, <1>3, <1>9, FatNotThere
<1>10. CASE ~Loads(c) /\ Give(Giving("buf"), FALSE)
  <2>1. Hits(Directory(root), part) = {}
    BY <1>4, <1>5, <1>8, <1>10, NotOnChain
  <2>2. QED
    BY <1>9, <1>10, <2>1, FindsGive
<1>11. CASE Undefine
  BY <1>11, FindsElse DEF Undefine
<1>12. CASE /\ Loads(c) /\ hit = {} /\ \E i \in DOMAIN entries : entries[i].kind = "end"
            /\ Give(Giving("buf"), FALSE)
  <2>1. Hits(Directory(root), part) = {}
    BY <1>4, <1>5, <1>7, <1>8, <1>12, NotInCluster DEF entries
  <2>2. QED
    BY <1>9, <1>12, <2>1, FindsGive
<1>13. CASE /\ Loads(c) /\ hit = {} /\ \A i \in DOMAIN entries : entries[i].kind # "end"
            /\ Goto("search", [at EXCEPT !.cluster = fat32_get_cluster(c)])
  <2>1. Passed(Links(root), n + 1, part)
    BY <1>4, <1>5, <1>7, <1>8, <1>13, PassesCluster DEF entries
  <2>2. FatCluster(n + 1) = fat32_get_cluster(c)
    BY <1>4, <1>5, <1>8, FatChain DEF FatCluster
  <2>3. [at EXCEPT !.cluster = fat32_get_cluster(c)] = [cluster |-> FatCluster(n + 1), rest |-> From(k)]
    BY <1>3, <2>2
  <2>4. FatAt(k, n + 1, [cluster |-> FatCluster(n + 1), rest |-> From(k)])
    BY <1>3, <2>1 DEF FatAt, FatPassed
  <2>5. n + 1 \in Nat
    OBVIOUS
  <2>6. OnTheWay("search", [cluster |-> FatCluster(n + 1), rest |-> From(k)])
    BY <1>2, <2>4, <2>5 DEF OnTheWay, FatFinds
  <2>7. QED
    BY <1>13, <2>3, <2>6, FindsGoto
<1>14. CASE /\ Loads(c)
            /\ \E i \in hit :
                 IF Len(at.rest) = 1
                 THEN Goto("found", [cluster |-> entries[i].first, size |-> entries[i].size])
                 ELSE Goto("part", [rest |-> Tail(at.rest)])
  <2>1. PICK i \in hit :
          IF Len(at.rest) = 1
          THEN Goto("found", [cluster |-> entries[i].first, size |-> entries[i].size])
          ELSE Goto("part", [rest |-> Tail(at.rest)])
    BY <1>14
  <2>2. /\ Hits(Directory(root), part) # {}
        /\ Directory(root)[Least(Hits(Directory(root), part))] = entries[i]
    <3>1. entries = vol.dir[Links(root)[n]]
      BY <1>8 DEF entries
    <3>2. i \in FirstOf(vol.dir[Links(root)[n]], fatname(part)) /\ Loads(Links(root)[n])
      BY <1>7, <1>8, <1>14, <3>1
    <3>3. FirstHit(root, part, vol.dir[Links(root)[n]][i])
      BY <1>4, <1>5, <1>8, <3>2, FoundInCluster
    <3>4. QED
      BY <3>1, <3>3 DEF FirstHit
  <2>3. FatKnown(k + 1)
    <3>1. \A l \in 1..((k + 1) - 1) : l \in 1..(k - 1) \/ l = k
      OBVIOUS
    <3>2. QED
      BY <1>3, <2>2, <3>1 DEF FatKnown
  <2>4. CASE k = Len(path)
    <3>1. Len(at.rest) = 1
      BY <1>1, <1>3, <1>6, <2>4
    <3>2. Goto("found", [cluster |-> entries[i].first, size |-> entries[i].size])
      BY <2>1, <3>1
    <3>3. TheEntry = [cluster |-> entries[i].first, size |-> entries[i].size]
      <4>1. FatKnown(Len(path) + 1) /\ part = path[Len(path)] /\ part # << >>
        BY <1>3, <2>3, <2>4
      <4>2. QED
        BY <1>1, <2>2, <4>1, FatThere
    <3>4. OnTheWay("found", [cluster |-> entries[i].first, size |-> entries[i].size])
      BY <3>3 DEF OnTheWay, FatFinds
    <3>5. QED
      BY <3>2, <3>4, FindsGoto
  <2>5. CASE k < Len(path)
    <3>0. Len(at.rest) = Len(path) - k + 1 /\ Tail(at.rest) = From(k + 1) /\ Len(path) \in Nat
      BY <1>1, <1>3, <1>6, <2>5
    <3>1. Len(at.rest) # 1 /\ Tail(at.rest) = From(k + 1) /\ k + 1 \in 2..Len(path)
      BY <1>2, <2>5, <3>0
    <3>2. Goto("part", [rest |-> From(k + 1)])
      BY <2>1, <3>1
    <3>3. OnTheWay("part", [rest |-> From(k + 1)])
      BY <2>3, <3>1 DEF OnTheWay, FatFinds
    <3>4. QED
      BY <3>2, <3>3, FindsGoto
  <2>6. QED
    BY <1>1, <1>2, <2>4, <2>5
<1>15. QED
  BY <1>10, <1>11, <1>12, <1>13, <1>14 DEF fat32_find_file, c, entries, hit

\* Every step of the FAT32 driver.
LEMMA FatStepFinds ==
  ASSUME Typed, fat32_step, Finds
  PROVE  Finds'
<1>0. vol.driver = "fat32"
  BY DEF fat32_step
<1>1. FatFinds(pc, at) /\ (pc = "found" => at = TheEntry)
  BY <1>0 DEF Finds, OnTheWay
<1>2. CASE \E memory : \E tells \in BOOLEAN : Give(memory, tells) /\ (tells \/ call.op # "info")
  <2>1. PICK memory : \E tells \in BOOLEAN : Give(memory, tells) /\ (tells \/ call.op # "info")
    BY <1>2
  <2>1a. PICK tells \in BOOLEAN : Give(memory, tells) /\ (tells \/ call.op # "info")
    BY <2>1
  <2>2. tells \/ call.op \notin {"list", "info"} \/ (call.op = "list" /\ vol.driver # "iso9660")
    BY <1>0, <2>1a
  <2>3. QED
    BY <2>1a, <2>2, FindsGive
<1>3. CASE Undefine
  BY <1>3, FindsElse DEF Undefine
<1>4. CASE call.op # "info" /\ \E value, memory : Return(Ok(value), memory)
  BY <1>4, FindsReturn
<1>5. CASE \E loop \in {"skip", "copy", "list"} : \E locals : Goto(loop, locals)
  BY <1>5, FindsGoto, NotOnTheWay
<1>6. CASE fat32_detect
  BY <1>4, <1>6 DEF fat32_detect, Typed, CallTyped
<1>7. CASE fat32_mount
  <2>1. call.op # "info"
    BY <1>7 DEF fat32_mount, Typed, CallTyped
  <2>2. QED
    BY <1>2, <1>3, <1>4, <1>7, <2>1 DEF fat32_mount
<1>8. CASE fat32_unmount
  BY <1>4, <1>8 DEF fat32_unmount, Typed, CallTyped
<1>9. CASE fat32_open
  <2>1. call.path \in Seq(Seq(STRING)) /\ call.path # << >>
    <3>1. call.path \in Paths
      BY <1>9 DEF fat32_open, Typed, CallTyped, Serving
    <3>2. QED
      BY <3>1, DiskAssumption
  <2>2. 1 \in 1..Len(call.path) /\ From(1) = call.path
    BY <2>1, LenProperties, EmptySeq, FromPart
  <2>3. FatKnown(1) /\ Look(From(1)) /\ pc \in Serving
    BY <1>9, <2>2 DEF FatKnown, fat32_open, Serving
  <2>4. QED
    BY <1>0, <2>2, <2>3, FatLookFinds
<1>10. CASE fat32_next_part
  <2>1. pc = "part" /\ Look(at.rest) /\ pc \in Serving
    BY <1>10 DEF fat32_next_part, Serving
  <2>2. PICK k \in 2..Len(call.path) : FatKnown(k) /\ at.rest = From(k)
    BY <1>1, <2>1 DEF FatFinds
  <2>3. k \in 1..Len(call.path) /\ Look(From(k))
    BY <2>1, <2>2
  <2>4. QED
    BY <1>0, <2>1, <2>2, <2>3, FatLookFinds
<1>11. CASE fat32_find_file
  BY <1>0, <1>1, <1>11, FatSearchFinds
<1>12. CASE fat32_get_info
  <2> DEFINE value == [size |-> at.size, is_dir |-> (at.cluster \div DirBit) % 2 = 1]
  <2>1. Return(Ok(value), held) /\ UNCHANGED mounted /\ at = TheEntry
    BY <1>1, <1>12 DEF fat32_get_info
  <2>2. Tells(value, TheEntry)
    BY <1>0, <2>1 DEF Tells
  <2> HIDE DEF value
  <2>3. QED
    BY <2>1, <2>2, FindsReturn
<1>13. CASE fat32_read
  BY <1>3, <1>4, <1>5, <1>13 DEF fat32_read
<1>14. CASE fat32_skip
  <2>1. call.op # "info"
    BY <1>14 DEF fat32_skip, Typed, CallTyped
  <2>2. QED
    BY <1>2, <1>5, <1>14, <2>1 DEF fat32_skip
<1>15. CASE fat32_copy
  <2>1. call.op # "info"
    BY <1>15 DEF fat32_copy, Typed, CallTyped
  <2>2. QED
    BY <1>2, <1>4, <1>5, <1>15, <2>1 DEF fat32_copy
<1>16. CASE fat32_read_dir
  BY <1>2, <1>5, <1>16 DEF fat32_read_dir
<1>17. CASE fat32_list
  <2>1. call.op # "info"
    BY <1>17 DEF fat32_list, Typed, CallTyped
  <2>2. QED
    BY <1>2, <1>3, <1>4, <1>5, <1>17, <2>1 DEF fat32_list
<1>18. QED
  BY <1>6, <1>7, <1>8, <1>9, <1>10, <1>11, <1>12, <1>13, <1>14, <1>15, <1>16, <1>17 DEF fat32_step

-----------------------------------------------------------------------------
(* ext2: every step *)

\* An inode is read, or the call fails for the want of it.
LEMMA Ext2ReadFinds ==
  ASSUME Typed, pc \in Serving, vol.driver = "ext2", NEW n, ext2_read_inode(n),
         \/ call.op # "info"
         \/ ~Exists(n) => TheEntry = NotThere
         \/ TheEntry.inode = n /\ n \in Nat \ {0}
  PROVE  Finds'
<1>1. CASE Give(held, TRUE)
  BY <1>1, FindsGive
<1>2. CASE Undefine
  BY <1>2, FindsElse DEF Undefine
<1>3. CASE ~(n # 0 /\ mounted.inodes_per_group = 0) /\ ~Exists(n) /\ Give(held, FALSE)
  <2>1. CASE call.op # "info"
    <3>1. call.op \notin {"list", "info"} \/ (call.op = "list" /\ vol.driver # "iso9660")
      BY <2>1
    <3>2. QED
      BY <1>3, <3>1, FindsGive
  <2>2. CASE ~Exists(n) => TheEntry = NotThere
    <3>1. MayRefuse(TheEntry)
      BY <1>3, <2>2 DEF MayRefuse
    <3>2. QED
      BY <1>3, <3>1, FindsGive
  <2>3. CASE TheEntry.inode = n /\ n \in Nat \ {0}
    <3>1. /\ mounted.inodes_per_group \in Nat /\ mounted.group_count \in Nat
      BY Ext2Assumption DEF Typed, MountTyped, CallTyped, Ext2Volume, vol
    <3>2. n > mounted.group_count * mounted.inodes_per_group
      BY <1>3, <2>3, <3>1, NoSuchInode
    <3>3. MayRefuse(TheEntry)
      BY <2>3, <3>2 DEF MayRefuse
    <3>4. QED
      BY <1>3, <3>3, FindsGive
  <2>4. QED
    BY <1>3, <2>1, <2>2, <2>3
<1>4. QED
  BY <1>1, <1>2, <1>3 DEF ext2_read_inode

\* Every step of the ext2 driver.
LEMMA Ext2StepFinds ==
  ASSUME Typed, ext2_step, Finds
  PROVE  Finds'
<1>0. vol.driver = "ext2"
  BY DEF ext2_step
<1>1. Ext2Finds(pc, at) /\ (pc = "found" => at = TheEntry)
  BY <1>0 DEF Finds, OnTheWay
<1>2. CASE \E memory : \E tells \in BOOLEAN : Give(memory, tells) /\ (tells \/ call.op # "info")
  <2>1. PICK memory : \E tells \in BOOLEAN : Give(memory, tells) /\ (tells \/ call.op # "info")
    BY <1>2
  <2>2. PICK tells \in BOOLEAN : Give(memory, tells) /\ (tells \/ call.op # "info")
    BY <2>1
  <2>3. tells \/ call.op \notin {"list", "info"} \/ (call.op = "list" /\ vol.driver # "iso9660")
    BY <1>0, <2>2
  <2>4. QED
    BY <2>2, <2>3, FindsGive
<1>3. CASE Undefine
  BY <1>3, FindsElse DEF Undefine
<1>4. CASE call.op # "info" /\ \E value, memory : Return(Ok(value), memory)
  BY <1>4, FindsReturn
<1>5. CASE \E loop \in {"chunk", "block", "record"} : \E locals : Goto(loop, locals)
  BY <1>0, <1>5, FindsGoto DEF OnTheWay, Ext2Finds
<1>6. CASE ext2_detect
  BY <1>4, <1>6 DEF ext2_detect, Typed, CallTyped
<1>7. CASE ext2_mount
  <2>1. call.op # "info"
    BY <1>7 DEF ext2_mount, Typed, CallTyped
  <2>2. QED
    BY <1>2, <1>3, <1>4, <1>7, <2>1 DEF ext2_mount
<1>8. CASE ext2_unmount
  BY <1>4, <1>8 DEF ext2_unmount, Typed, CallTyped
<1>9. ASSUME pc \in Serving
      PROVE  Ext2Mounted /\ RootInode \in Nat \ {0}
  BY <1>0, <1>9, Ext2Assumption DEF Ext2Mounted, Ext2Volume, Typed, MountTyped, CallTyped, vol
<1>10. CASE ext2_open
  <2>1. pc = "open" /\ pc \in Serving
    BY <1>10 DEF ext2_open, Serving
  <2>2. CASE call.op # "read" /\ call.path = RootPath /\ Goto("found", [inode |-> RootInode])
    <3>1. TheEntry = [inode |-> RootInode]
      BY <1>0, <2>2 DEF TheEntry, Ext2Entry
    <3>2. OnTheWay("found", [inode |-> RootInode])
      BY <1>0, <1>9, <2>1, <3>1 DEF OnTheWay, Ext2Finds
    <3>3. QED
      BY <2>2, <3>2, FindsGoto
  <2>3. CASE ~(call.op # "read" /\ call.path = RootPath) /\ ext2_read_inode(RootInode)
    <3>1. ~Exists(RootInode) => TheEntry = NotThere
      BY <1>0, <2>3 DEF TheEntry, Ext2Entry
    <3>2. QED
      BY <1>0, <2>1, <2>3, <3>1, Ext2ReadFinds
  <2>4. CASE ~(call.op # "read" /\ call.path = RootPath) /\ Exists(RootInode) /\ EnterRoot(Inode(RootInode))
    <3>1. CASE Give(held, TRUE)
      BY <3>1, FindsGive
    <3>2. CASE Goto("entry", [block |-> Inode(RootInode).block[1], offset |-> 0])
      <4>1. AtPlace(Inode(RootInode).block[1], call.path, 0)
        BY <1>9, <2>1, FirstPlace
      <4>2. 0 \in Nat
        OBVIOUS
      <4>3. OnTheWay("entry", [block |-> Inode(RootInode).block[1], offset |-> 0])
        BY <1>0, <2>4, <4>1, <4>2 DEF OnTheWay, Ext2Finds
      <4>4. QED
        BY <3>2, <4>3, FindsGoto
    <3>3. QED
      BY <2>4, <3>1, <3>2 DEF EnterRoot
  <2>5. QED
    BY <1>10, <2>2, <2>3, <2>4 DEF ext2_open
<1>11. CASE ext2_find_file
  <2> DEFINE e == Entry(at.block, at.offset)
             b == Inode(RootInode).block[1]
  <2>1. pc = "entry" /\ pc \in Serving
    BY <1>11 DEF ext2_find_file, Serving
  <2>2. PICK offset \in Nat :
          /\ ~(call.op # "read" /\ call.path = RootPath) /\ Exists(RootInode)
          /\ at = [block |-> b, offset |-> offset]
          /\ AtPlace(b, call.path, offset)
    BY <1>1, <2>1 DEF Ext2Finds
  <2>3. TheEntry = InBlock(b, call.path)
    BY <1>0, <2>2 DEF TheEntry, Ext2Entry
  <2>4. at.block = b /\ at.offset = offset /\ e = Entry(b, offset)
    BY <2>2
  <2>5. Ext2Mounted
    BY <1>9, <2>1
  <2>5a. mounted.block_size \in Nat
    BY <2>5 DEF Ext2Mounted
  <2> HIDE DEF b, e
  <2>6. CASE at.offset >= mounted.block_size /\ Give(held, FALSE)
    <3>1. InBlock(b, call.path) = NotThere
      BY <2>2, <2>4, <2>5, <2>6, BehindPlaces
    <3>2. MayRefuse(TheEntry)
      BY <2>3, <3>1 DEF MayRefuse
    <3>3. QED
      BY <2>6, <3>2, FindsGive
  <2>7. CASE at.offset < mounted.block_size /\ Named(e, call.path) /\ Goto("found", [inode |-> e.inode])
    <3>1. InBlock(b, call.path) = [inode |-> e.inode]
      BY <2>2, <2>4, <2>5, <2>7, NamedPlace
    <3>2. e.inode \in Nat \ {0}
      <4>1. offset \in 0..(mounted.block_size - 1)
        BY <2>4, <2>5a, <2>7
      <4>2. e.inode \in Nat
        BY <2>4, <2>5, <4>1, EntryLength
      <4>3. QED
        BY <2>7, <4>2 DEF Named
    <3>3. OnTheWay("found", [inode |-> e.inode])
      BY <1>0, <2>3, <3>1, <3>2 DEF OnTheWay, Ext2Finds
    <3>4. QED
      BY <2>7, <3>3, FindsGoto
  <2>8. CASE /\ at.offset < mounted.block_size /\ ~Named(e, call.path) /\ Terminal(e)
             /\ Give(held, FALSE)
    <3>1. InBlock(b, call.path) = NotThere
      BY <2>2, <2>4, <2>5, <2>8, NextPlace DEF Terminal
    <3>2. MayRefuse(TheEntry)
      BY <2>3, <3>1 DEF MayRefuse
    <3>3. QED
      BY <2>8, <3>2, FindsGive
  <2>9. CASE /\ at.offset < mounted.block_size /\ ~Named(e, call.path) /\ ~Terminal(e)
             /\ Goto("entry", [at EXCEPT !.offset = @ + e.rec_len])
    <3>1. offset + e.rec_len \in Nat /\ AtPlace(b, call.path, offset + e.rec_len)
      BY <2>2, <2>4, <2>5, <2>9, NextPlace DEF Terminal
    <3>2. [at EXCEPT !.offset = @ + e.rec_len] = [block |-> b, offset |-> offset + e.rec_len]
      BY <2>2
    <3>3. OnTheWay("entry", [block |-> b, offset |-> offset + e.rec_len])
      BY <1>0, <2>2, <3>1 DEF OnTheWay, Ext2Finds, b
    <3>4. QED
      BY <2>9, <3>2, <3>3, FindsGoto
  <2>10. QED
    BY <1>11, <2>6, <2>7, <2>8, <2>9 DEF ext2_find_file, e
<1>12. CASE ext2_get_info
  <2>1. pc = "found" /\ pc \in Serving /\ at = TheEntry /\ at.inode \in Nat \ {0}
    BY <1>1, <1>12 DEF ext2_get_info, Serving, Ext2Finds
  <2>2. CASE ext2_read_inode(at.inode)
    <3>1. TheEntry.inode = at.inode
      BY <2>1
    <3>2. QED
      BY <1>0, <2>1, <2>2, <3>1, Ext2ReadFinds
  <2>3. CASE Exists(at.inode) /\ Tell(Inode(at.inode))
    <3> DEFINE value == [size |-> Inode(at.inode).size, is_dir |-> Inode(at.inode).mode = "dir"]
    <3>1. Return(Ok(value), held) /\ UNCHANGED mounted
      BY <2>3 DEF Tell
    <3>2. Tells(value, TheEntry)
      BY <1>0, <2>1 DEF Tells
    <3> HIDE DEF value
    <3>3. QED
      BY <3>1, <3>2, FindsReturn
  <2>4. QED
    BY <1>12, <2>2, <2>3 DEF ext2_get_info
<1>13. CASE ext2_fs_read_file
  BY <1>5, <1>13 DEF ext2_fs_read_file
<1>14. ASSUME pc \in Serving, call.op # "info", NEW n, ext2_read_inode(n)
       PROVE  Finds'
  BY <1>0, <1>14, Ext2ReadFinds
<1>15. CASE ext2_read_file
  <2>1. pc \in Serving /\ call.op # "info"
    BY <1>15 DEF ext2_read_file, Typed, CallTyped, Serving
  <2>2. QED
    BY <1>2, <1>4, <1>5, <1>14, <1>15, <2>1 DEF ext2_read_file, Chunk
<1>16. CASE ext2_list_dir
  <2>1. pc \in Serving /\ call.op # "info"
    BY <1>16 DEF ext2_list_dir, Serving
  <2>2. QED
    BY <1>2, <1>5, <1>14, <1>16, <2>1 DEF ext2_list_dir, EnterDir
<1>17. CASE ext2_list_block
  <2>1. call.op # "info"
    BY <1>0, <1>17 DEF ext2_list_block, Typed, CallTyped
  <2>2. QED
    BY <1>2, <1>4, <1>5, <1>17, <2>1 DEF ext2_list_block
<1>18. CASE ext2_list_record
  BY <1>5, <1>18 DEF ext2_list_record
<1>19. QED
  BY <1>6, <1>7, <1>8, <1>10, <1>11, <1>12, <1>13, <1>15, <1>16, <1>17, <1>18 DEF ext2_step

-----------------------------------------------------------------------------
(* ISO 9660: every step *)

\* A call for the directory that the first k - 1 parts lead to.
LEMMA IsoEnterFinds ==
  ASSUME Typed, vol.driver = "iso9660", pc \in Serving, NEW k \in 1..Len(call.path),
         NEW extent \in Nat, NEW size \in 0..(Wrap - 1),
         Way(call.path)[k - 1] = [extent |-> extent, size |-> size],
         NEW rest, rest = From(k), NEW depth, Enter(extent, size, rest, depth)
  PROVE  Finds'
<1> DEFINE locals == [extent |-> extent, size |-> size, off |-> 0, i |-> 1, rest |-> rest,
                      depth |-> depth + 1]
<1>1. CASE Undefine
  BY <1>1, FindsElse DEF Undefine
<1>2. CASE \E memory : Give(memory, TRUE)
  BY <1>2, FindsGive
<1>3. CASE Goto("block", locals)
  <2>1. IsoMounted
    BY DEF IsoMounted, Typed, MountTyped, CallTyped
  <2>2. mounted.block_size \in Nat /\ BlocksOf(size) \in Nat /\ 0 \in 0..(Wrap - 1)
    <3>1. mounted.block_size \in Nat /\ Wrap \in Nat \ {0}
      BY <2>1, RecordsOf
    <3>2. size \in Nat /\ 0 \in 0..(Wrap - 1)
      BY <3>1
    <3>3. QED
      BY <2>1, <3>1, <3>2, BlockCount
  <2>3. IsoSearched(extent, size, 0, call.path[k], k = Len(call.path))
    <3>1. NoneIn(extent, 0, call.path[k], k = Len(call.path))
      BY DEF NoneIn
    <3>2. 0 \in 0..BlocksOf(size) /\ 0 = mounted.block_size * 0
      BY <2>2
    <3>3. QED
      BY <3>1, <3>2 DEF IsoSearched
  <2>4. IsoIn(k, locals) /\ locals.i = 1
    BY <2>2, <2>3 DEF IsoIn
  <2> HIDE DEF locals
  <2>5. OnTheWay("block", locals)
    BY <2>4 DEF OnTheWay, IsoFinds
  <2>6. QED
    BY <1>3, <2>5, FindsGoto
<1>4. QED
  BY <1>1, <1>2, <1>3 DEF Enter

\* What the look-up knows in the directory of the k-th part.
LEMMA IsoKnows ==
  ASSUME Typed, vol.driver = "iso9660", pc \in Serving, NEW k \in 1..Len(call.path), IsoIn(k, at)
  PROVE  /\ IsoMounted /\ Len(call.path) \in Nat /\ Wrap \in Nat \ {0} /\ mounted.block_size \in Nat
         /\ at.extent \in Nat /\ at.size \in 0..(Wrap - 1) /\ at.off \in 0..(Wrap - 1)
         /\ at.size \in Nat /\ at.off \in Nat /\ at.i \in Nat \ {0}
         /\ at.rest = From(k) /\ at.rest[1] = call.path[k]
         /\ Len(at.rest) = 1 <=> k = Len(call.path)
         /\ k < Len(call.path) => Tail(at.rest) = From(k + 1)
         /\ IsoSearched(at.extent, at.size, at.off, call.path[k], k = Len(call.path))
         /\ Way(call.path)[k] = Within(DirectoryRecords(at.extent, at.size), call.path[k],
                                       k = Len(call.path))
<1>1. IsoMounted
  BY DEF IsoMounted, Typed, MountTyped, CallTyped
<1>2. mounted.block_size \in Nat /\ Wrap \in Nat \ {0}
  BY <1>1, RecordsOf
<1>3. call.path \in Seq(Seq(STRING)) /\ Len(call.path) \in Nat
  <2>1. call.path \in Paths
    BY DEF Typed, CallTyped
  <2>2. QED
    BY <2>1, DiskAssumption, LenProperties
<1>4. /\ at.extent \in Nat /\ at.size \in 0..(Wrap - 1) /\ at.off \in 0..(Wrap - 1)
      /\ at.i \in Nat \ {0} /\ at.rest = From(k)
      /\ Way(call.path)[k - 1] = [extent |-> at.extent, size |-> at.size]
      /\ IsoSearched(at.extent, at.size, at.off, call.path[k], k = Len(call.path))
  BY DEF IsoIn
<1>5. /\ Len(From(k)) = Len(call.path) - k + 1 /\ From(k)[1] = call.path[k]
      /\ k < Len(call.path) => Tail(From(k)) = From(k + 1)
  BY <1>3, FromPart
<1>6. Way(call.path)[k] = Within(DirectoryRecords(at.extent, at.size), call.path[k], k = Len(call.path))
  <2> DEFINE place == [extent |-> at.extent, size |-> at.size]
  <2>1. place \in Somewhere /\ place.extent = at.extent /\ place.size = at.size
    BY <1>4 DEF Somewhere
  <2>2. place # NotThere
    BY <2>1, SomewhereIs
  <2>3. Way(call.path)[k - 1] = place
    BY <1>4
  <2> HIDE DEF place
  <2>4. Way(call.path)[k] =
          IF Way(call.path)[k - 1] = NotThere THEN NotThere
          ELSE Within(DirectoryRecords(Way(call.path)[k - 1].extent, Way(call.path)[k - 1].size),
                      call.path[k], k = Len(call.path))
    BY <1>1, <1>3, WayIs
  <2>5. QED
    BY <2>1, <2>2, <2>3, <2>4
<1>7. (Len(at.rest) = 1 <=> k = Len(call.path))
      /\ (k < Len(call.path) => Tail(at.rest) = From(k + 1)) /\ at.rest[1] = call.path[k]
  BY <1>3, <1>4, <1>5
<1>8. at.size \in Nat /\ at.off \in Nat
  BY <1>2, <1>4
<1>9. QED
  BY <1>1, <1>2, <1>3, <1>4, <1>6, <1>7, <1>8

\* The records of the block at an offset of a directory.
RecordsAt(extent, off) == Records(U(extent + off \div mounted.block_size))

\* A list of which no element is in H.
LEMMA Without ==
  ASSUME NEW S, NEW H, NEW s \in Seq(S), \A i \in 1..Len(s) : s[i] \notin H
  PROVE  s \in Seq(S \ H)
<1>1. Len(s) \in Nat /\ DOMAIN s = 1..Len(s)
  BY LenProperties
<1>2. \A i \in 1..Len(s) : s[i] \in S \ H
  BY ElementOfSeq
<1>3. s = [i \in 1..Len(s) |-> s[i]]
  BY <1>1, SeqDef
<1>4. s \in [1..Len(s) -> S \ H]
  BY <1>2, <1>3
<1>5. QED
  BY <1>1, <1>4, SeqDef

\* The j-th element of b is the first in H.
FirstIn(b, j, H) ==
  /\ j \in 1..Len(b) /\ b[j] \in H
  /\ \A i \in 1..(j - 1) : b[i] \notin H

\* The first match is where the way leads.
LEMMA FoundFirst ==
  ASSUME IsoMounted, NEW extent \in Nat, NEW size \in Nat, NEW off \in Nat, off < size,
         NEW part, NEW last \in BOOLEAN, mounted.block_size # 0,
         IsoSearched(extent, size, off, part, last),
         NEW b, b = RecordsAt(extent, off), NEW j, FirstIn(b, j, LeadsOn(part, last))
  PROVE  Within(DirectoryRecords(extent, size), part, last) = [extent |-> b[j].extent, size |-> b[j].size]
<1> DEFINE H == LeadsOn(part, last)
<1>1. j \in 1..Len(b) /\ b[j] \in LeadsOn(part, last) /\ \A i \in 1..(j - 1) : b[i] \notin LeadsOn(part, last)
  BY DEF FirstIn
<1>2. QED
  BY <1>1, FoundRecord DEF RecordsAt

\* One record.
LEMMA IsoSearchFinds ==
  ASSUME Typed, vol.driver = "iso9660", Finds, iso9660_find_entry
  PROVE  Finds'
<1> DEFINE path == call.path
           records == RecordsAt(at.extent, at.off)
           r == records[at.i]
           hit == at.i <= Len(records) /\ Same(r, at.rest[1])
           last == Len(at.rest) = 1
<1>0. pc = "record" /\ pc \in Serving
  BY DEF iso9660_find_entry, Serving
<1>1. PICK k \in 1..Len(path) : IsoIn(k, at) /\ IsoPassed(k, at)
  BY <1>0 DEF Finds, OnTheWay, IsoFinds
<1>2. mounted.block_size # 0
  BY <1>0 DEF Finds, OnTheWay, IsoFinds
<1> DEFINE Searched == /\ IsoMounted /\ Len(path) \in Nat /\ mounted.block_size \in Nat
         /\ at.extent \in Nat /\ at.size \in 0..(Wrap - 1) /\ at.off \in 0..(Wrap - 1)
         /\ at.size \in Nat /\ at.off \in Nat /\ at.i \in Nat \ {0}
         /\ at.rest = From(k) /\ at.rest[1] = path[k]
         /\ (last <=> k = Len(path))
         /\ (k < Len(path) => Tail(at.rest) = From(k + 1))
         /\ IsoSearched(at.extent, at.size, at.off, path[k], k = Len(path))
         /\ Way(path)[k] = Within(DirectoryRecords(at.extent, at.size), path[k], k = Len(path))
<1>3. Searched
  BY <1>0, <1>1, IsoKnows
<1> DEFINE H == LeadsOn(path[k], k = Len(path))
<1>4. /\ at.off < at.size /\ records \in Seq(IsoRecords) /\ Len(records) \in Nat
      /\ \A j \in 1..(at.i - 1) : j <= Len(records) /\ records[j] \notin H
  <2>1. records \in Seq(IsoRecords)
    BY <1>3, RecordsOf DEF RecordsAt
  <2>2. QED
    BY <1>1, <2>1, LenProperties DEF IsoPassed, RecordsAt
<1>5. at.i <= Len(records) => r \in IsoRecords /\ (r \in H <=> hit /\ (last \/ r.dir))
  <2>1. SUFFICES ASSUME at.i <= Len(records) PROVE r \in IsoRecords /\ (r \in H <=> hit /\ (last \/ r.dir))
    OBVIOUS
  <2>2. at.i \in 1..Len(records)
    BY <1>3, <1>4, <2>1
  <2>3. r \in IsoRecords
    BY <1>4, <2>2, ElementOfSeq
  <2> HIDE DEF r
  <2>4. QED
    BY <1>3, <2>1, <2>3 DEF LeadsOn
<1>6. CASE /\ at.i > Len(records)
           /\ Goto("block", [at EXCEPT !.off = U(at.off + mounted.block_size), !.i = 1])
  <2> DEFINE w == U(at.off + mounted.block_size)
             locals == [extent |-> at.extent, size |-> at.size, off |-> w, i |-> 1,
                        rest |-> From(k), depth |-> at.depth]
  <2>1. records \in Seq(IsoRecords \ H)
    <3>1. \A i \in 1..Len(records) : records[i] \notin H
      <4> HIDE DEF records, H
      <4> QED
        BY <1>3, <1>4, <1>6
    <3> HIDE DEF H, records
    <3>2. QED
      BY <1>4, <3>1, Without
  <2>2. w \in 0..(Wrap - 1) /\ IsoSearched(at.extent, at.size, w, path[k], k = Len(path))
    <3>1. (k = Len(path)) \in BOOLEAN
      OBVIOUS
    <3>2. QED
      BY <1>2, <1>3, <1>4, <2>1, <3>1, SearchedOn DEF RecordsAt
  <2> HIDE DEF w
  <2>3. [at EXCEPT !.off = w, !.i = 1] = locals
    <3> DEFINE one == [at EXCEPT !.off = w]
    <3>1. one = [extent |-> at.extent, size |-> at.size, off |-> w, i |-> at.i,
                 rest |-> From(k), depth |-> at.depth]
      BY <1>1 DEF IsoIn
    <3>2. [at EXCEPT !.off = w, !.i = 1] = [one EXCEPT !.i = 1]
      OBVIOUS
    <3> HIDE DEF one
    <3>3. [one EXCEPT !.i = 1] = locals
      BY <3>1
    <3>4. QED
      BY <3>2, <3>3, Zenon
  <2>4. IsoIn(k, locals) /\ locals.i = 1
    BY <1>1, <1>3, <2>2 DEF IsoIn
  <2>5. Goto("block", locals)
    BY <1>6, <2>3 DEF w
  <2> HIDE DEF locals
  <2>6. OnTheWay("block", locals)
    BY <1>1, <2>4 DEF OnTheWay, IsoFinds
  <2>7. QED
    BY <2>5, <2>6, FindsGoto
<1>7. CASE /\ at.i <= Len(records) /\ ~(hit /\ (last \/ r.dir))
           /\ Goto("record", [at EXCEPT !.i = @ + 1])
  <2> DEFINE locals == [extent |-> at.extent, size |-> at.size, off |-> at.off, i |-> at.i + 1,
                        rest |-> From(k), depth |-> at.depth]
  <2>1. [at EXCEPT !.i = @ + 1] = locals
    BY <1>1 DEF IsoIn
  <2>2. IsoIn(k, locals)
    BY <1>1, <1>3 DEF IsoIn
  <2>3. IsoPassed(k, locals)
    <3>1. ASSUME NEW j \in 1..((at.i + 1) - 1) PROVE j <= Len(records) /\ records[j] \notin H
      <4> HIDE DEF H, records
      <4>1. j \in 1..(at.i - 1) \/ j = at.i
        BY <1>3
      <4>2. QED
        BY <1>4, <1>5, <1>7, <4>1
    <3>2. QED
      BY <1>4, <3>1 DEF IsoPassed, RecordsAt
  <2> HIDE DEF locals
  <2>4. OnTheWay("record", locals)
    BY <1>1, <1>2, <2>2, <2>3 DEF OnTheWay, IsoFinds
  <2>5. QED
    BY <1>7, <2>1, <2>4, FindsGoto
<1>8. ASSUME hit, last \/ r.dir
      PROVE  Way(path)[k] = [extent |-> r.extent, size |-> r.size]
  <2>1. at.i \in 1..Len(records) /\ r \in H
    BY <1>3, <1>4, <1>5, <1>8
  <2>2. (k = Len(path)) \in BOOLEAN
    OBVIOUS
  <2>3. records = RecordsAt(at.extent, at.off)
    OBVIOUS
  <2> HIDE DEF records
  <2>3a. /\ IsoMounted /\ at.extent \in Nat /\ at.size \in Nat /\ at.off \in Nat /\ at.off < at.size
         /\ IsoSearched(at.extent, at.size, at.off, path[k], k = Len(path))
         /\ mounted.block_size # 0
         /\ r \in LeadsOn(path[k], k = Len(path))
         /\ \A j \in 1..(at.i - 1) : records[j] \notin LeadsOn(path[k], k = Len(path))
    BY <1>2, <1>3, <1>4, <2>1
  <2>3b. FirstIn(records, at.i, LeadsOn(path[k], k = Len(path)))
    BY <2>1, <2>3a DEF FirstIn
  <2>4. Within(DirectoryRecords(at.extent, at.size), path[k], k = Len(path))
          = [extent |-> records[at.i].extent, size |-> records[at.i].size]
    <3>1. PICK final \in BOOLEAN : final = (k = Len(path))
      BY <2>2
    <3>2. IsoSearched(at.extent, at.size, at.off, path[k], final)
      BY <2>3a, <3>1
    <3>3. FirstIn(records, at.i, LeadsOn(path[k], final))
      BY <2>3b, <3>1
    <3>4. IsoMounted /\ at.extent \in Nat /\ at.size \in Nat /\ at.off \in Nat /\ at.off < at.size /\ mounted.block_size # 0
      BY <2>3a
    <3>5. Within(DirectoryRecords(at.extent, at.size), path[k], final)
            = [extent |-> records[at.i].extent, size |-> records[at.i].size]
      BY <2>3, <3>2, <3>3, <3>4, FoundFirst
    <3>6. QED
      BY <3>1, <3>5
  <2>5. QED
    BY <1>3, <2>4
<1>9. CASE hit /\ last /\ Goto("found", [extent |-> r.extent, size |-> r.size])
  <2>1. TheEntry = [extent |-> r.extent, size |-> r.size]
    BY <1>3, <1>8, <1>9 DEF TheEntry, IsoEntry
  <2>2. OnTheWay("found", [extent |-> r.extent, size |-> r.size])
    BY <1>2, <2>1 DEF OnTheWay, IsoFinds
  <2>3. QED
    BY <1>9, <2>2, FindsGoto
<1>10. CASE hit /\ ~last /\ r.dir /\ Enter(r.extent, r.size, Tail(at.rest), at.depth)
  <2>1. k + 1 \in 1..Len(path) /\ Tail(at.rest) = From(k + 1) /\ (k + 1) - 1 = k
    BY <1>1, <1>3, <1>10
  <2>2. r.extent \in Nat /\ r.size \in 0..(Wrap - 1)
    BY <1>5, <1>10 DEF IsoRecords
  <2>3. Way(path)[(k + 1) - 1] = [extent |-> r.extent, size |-> r.size]
    BY <1>8, <1>10, <2>1
  <2> HIDE DEF r
  <2>4. QED
    BY <1>0, <1>10, <2>1, <2>2, <2>3, IsoEnterFinds
<1>11. QED
  BY <1>6, <1>7, <1>9, <1>10 DEF iso9660_find_entry, RecordsAt

\* Every step of the ISO 9660 driver.
LEMMA IsoStepFinds ==
  ASSUME Typed, iso9660_step, Finds
  PROVE  Finds'
<1>0. vol.driver = "iso9660"
  BY DEF iso9660_step
<1>1. IsoFinds(pc, at) /\ (pc = "found" => at = TheEntry)
  BY <1>0 DEF Finds, OnTheWay
<1>2. CASE \E memory : \E tells \in BOOLEAN : Give(memory, tells) /\ (tells \/ call.op # "list")
  <2>1. PICK memory : \E tells \in BOOLEAN : Give(memory, tells) /\ (tells \/ call.op # "list")
    BY <1>2
  <2>2. PICK tells \in BOOLEAN : Give(memory, tells) /\ (tells \/ call.op # "list")
    BY <2>1
  <2>3. \/ tells
        \/ call.op \notin {"list", "info"}
        \/ call.op = "info" /\ vol.driver = "iso9660"
    BY <1>0, <2>2
  <2>4. QED
    BY <2>2, <2>3, FindsGive
<1>3. CASE Undefine
  BY <1>3, FindsElse DEF Undefine
<1>4. CASE call.op # "info" /\ \E value, memory : Return(Ok(value), memory)
  BY <1>4, FindsReturn
<1>5. CASE pc \in {"found", "listing"} /\ \E locals : Goto("listing", locals)
  BY <1>0, <1>1, <1>5, FindsGoto DEF OnTheWay, IsoFinds
<1>6. CASE iso9660_detect
  BY <1>4, <1>6 DEF iso9660_detect, Typed, CallTyped
<1>7. CASE iso9660_mount
  <2>1. call.op \notin {"info", "list"}
    BY <1>7 DEF iso9660_mount, Typed, CallTyped
  <2>2. QED
    BY <1>2, <1>3, <1>4, <1>7, <2>1 DEF iso9660_mount
<1>8. CASE iso9660_unmount
  BY <1>4, <1>8 DEF iso9660_unmount, Typed, CallTyped
<1>9. ASSUME pc \in Serving
      PROVE  IsoMounted /\ call.path \in Seq(Seq(STRING)) /\ Len(call.path) \in Nat /\ call.path # << >>
  <2>1. call.path \in Paths
    BY <1>9 DEF Typed, CallTyped
  <2>2. call.path \in Seq(Seq(STRING)) /\ call.path # << >>
    BY <2>1, DiskAssumption
  <2>3. IsoMounted
    BY <1>0, <1>9 DEF IsoMounted, Typed, MountTyped, CallTyped
  <2>4. QED
    BY <2>2, <2>3, LenProperties
<1>10. CASE iso9660_open
  <2>1. pc \in Serving /\ Enter(mounted.root, mounted.root_size, call.path, 0)
    BY <1>10 DEF iso9660_open, Serving
  <2>2. 1 \in 1..Len(call.path) /\ From(1) = call.path
    <3>1. 1 \in 1..Len(call.path)
      BY <1>9, <2>1, EmptySeq
    <3>2. QED
      BY <1>9, <2>1, <3>1, FromPart
  <2>3. mounted.root \in Nat /\ mounted.root_size \in 0..(Wrap - 1)
    BY <1>9, <2>1, RecordsOf DEF IsoMounted
  <2>4. Way(call.path)[1 - 1] = [extent |-> mounted.root, size |-> mounted.root_size]
    BY <1>9, <2>1, WayIs
  <2>5. QED
    BY <1>0, <2>1, <2>2, <2>3, <2>4, IsoEnterFinds
<1>11. CASE iso9660_find_block
  <2>1. pc = "block" /\ pc \in Serving
    BY <1>11 DEF iso9660_find_block, Serving
  <2>2. PICK k \in 1..Len(call.path) : IsoIn(k, at) /\ at.i = 1
    BY <1>1, <2>1 DEF IsoFinds
  <2>3. CASE ~(at.off < at.size) /\ Give(Unwound, FALSE)
    <3>1. (k = Len(call.path)) \in BOOLEAN
      OBVIOUS
    <3>2. PICK last \in BOOLEAN : last = (k = Len(call.path))
      BY <3>1
    <3>3. /\ IsoMounted /\ Len(call.path) \in Nat /\ at.extent \in Nat /\ at.size \in Nat /\ at.off \in Nat
          /\ IsoSearched(at.extent, at.size, at.off, call.path[k], last)
          /\ Way(call.path)[k] = Within(DirectoryRecords(at.extent, at.size), call.path[k], last)
      BY <1>0, <2>1, <2>2, <3>2, IsoKnows
    <3>4. Within(DirectoryRecords(at.extent, at.size), call.path[k], last) = NotThere
      BY <2>3, <3>3, SearchedAll
    <3>5. Way(call.path)[k] = NotThere /\ k \in 0..Len(call.path)
      BY <3>3, <3>4
    <3>6. IsoEntry(call.path) = NotThere
      BY <3>3, <3>5, NowhereStays
    <3>7. MayRefuse(TheEntry)
      BY <1>0, <3>6 DEF TheEntry, MayRefuse
    <3>8. QED
      BY <2>3, <3>7, FindsGive
  <2>4. CASE Give(Unwound, TRUE)
    BY <2>4, FindsGive
  <2>5. CASE at.off < at.size /\ mounted.block_size # 0 /\ Goto("record", at)
    <3>1. IsoPassed(k, at)
      BY <2>2, <2>5 DEF IsoPassed
    <3>2. OnTheWay("record", at)
      BY <1>0, <2>2, <2>5, <3>1 DEF OnTheWay, IsoFinds
    <3>3. QED
      BY <2>5, <3>2, FindsGoto
  <2>6. QED
    BY <1>3, <1>11, <2>3, <2>4, <2>5 DEF iso9660_find_block
<1>12. CASE iso9660_find_entry
  BY <1>0, <1>12, IsoSearchFinds
<1>13. CASE iso9660_read_file
  BY <1>2, <1>3, <1>4, <1>13 DEF iso9660_read_file
<1>14. CASE iso9660_list_dir
  BY <1>2, <1>5, <1>14 DEF iso9660_list_dir
<1>15. CASE iso9660_list_block
  <2>1. call.op # "info"
    BY <1>15 DEF iso9660_list_block, Typed, CallTyped
  <2>2. QED
    BY <1>2, <1>4, <1>5, <1>15, <2>1 DEF iso9660_list_block
<1>16. CASE iso9660_get_info
  <2> DEFINE b == at.extent \div (mounted.block_size \div SlotSize)
             value == [size |-> at.size, is_dir |-> Records(b)[1].dir]
             first == Records(b)[1]
  <2>1. CASE /\ Return(Ok(value), held) /\ UNCHANGED mounted
             /\ Records(b) # << >> /\ first.extent = at.extent /\ first.size = at.size
    <3>1. at = TheEntry
      BY <1>1, <1>16 DEF iso9660_get_info
    <3>2. b \in DOMAIN vol.blocks /\ first \in Range(vol.blocks[b])
      <4>1. b \in DOMAIN vol.blocks /\ Records(b) = vol.blocks[b]
        BY <2>1 DEF Records
      <4>2. vol.blocks[b] \in Seq(IsoRecords)
        BY <1>0, <4>1, Iso9660Assumption DEF Typed, vol, IsoVolume
      <4>3. 1 \in DOMAIN vol.blocks[b]
        BY <2>1, <4>1, <4>2, LenProperties, EmptySeq
      <4>4. QED
        BY <4>1, <4>3 DEF Range
    <3>3. Tells(value, TheEntry)
      <4>1. value.size = at.size /\ value.is_dir = first.dir
        OBVIOUS
      <4> HIDE DEF value, first, b
      <4>2. QED
        BY <1>0, <2>1, <3>1, <3>2, <4>1 DEF Tells
    <3> HIDE DEF value
    <3>4. QED
      BY <2>1, <3>3, FindsReturn
  <2>2. QED
    BY <1>2, <1>3, <1>16, <2>1 DEF iso9660_get_info
<1>17. QED
  BY <1>6, <1>7, <1>8, <1>10, <1>11, <1>12, <1>13, <1>14, <1>15, <1>16 DEF iso9660_step

-----------------------------------------------------------------------------
(* Every look-up of every driver *)

\* A caller's step begins a call or takes an answer.
LEMMA CallsFind ==
  ASSUME Call \/ Take
  PROVE  Finds'
  BY FindsElse DEF Call, Take, Begin

\* The drivers are always on the way to the entry of the path.
THEOREM VolumesFind == Spec => []Finds
<1>1. Init => Finds
  BY DEF Init, Finds, OnTheWay, FatFinds, Ext2Finds, IsoFinds, LookupEnds, Refuses, Answered
<1>2. Typed /\ Finds /\ [Next]_vars => Finds'
  <2> SUFFICES ASSUME Typed, Finds, [Next]_vars PROVE Finds'
    OBVIOUS
  <2>1. CASE Call \/ Take
    BY <2>1, CallsFind
  <2>2. CASE fat32_step
    BY <2>2, FatStepFinds
  <2>3. CASE ext2_step
    BY <2>3, Ext2StepFinds
  <2>4. CASE iso9660_step
    BY <2>4, IsoStepFinds
  <2>5. CASE UNCHANGED vars
    <3>1. UNCHANGED <<disk, mounted, call, pc, at, ret, refused>>
      BY <2>5 DEF vars
    <3>2. OnTheWay(pc, at)'
      BY <3>1, OnTheWayKept DEF Finds
    <3>3. TheEntry' = TheEntry /\ (MayRefuse(TheEntry)' <=> MayRefuse(TheEntry)) /\ vol' = vol
      BY <3>1, EntryKept DEF vol
    <3>4. Tells(ret.value, TheEntry)' <=> Tells(ret.value, TheEntry)
      <4>1. \A n : Inode(n)' = Inode(n)
        BY <3>1, Ext2Kept
      <4>2. QED
        BY <3>1, <3>3, <4>1 DEF Tells
    <3>5. LookupEnds'
      BY <3>1, <3>3, <3>4 DEF Finds, LookupEnds, Refuses, Answered
    <3>6. QED
      BY <3>2, <3>5 DEF Finds
  <2>6. QED
    BY <2>1, <2>2, <2>3, <2>4, <2>5 DEF Next, Step
<1>3. QED
  BY <1>1, <1>2, VolumesTyped, PTL DEF Spec

-----------------------------------------------------------------------------
(* The entry a path stands for *)

\* w goes part by part from the root.
Goes(w, path) ==
  w = [n \in 0..Len(path) |->
         IF n = 0 THEN TheRoot
         ELSE IF w[n - 1] = NotThere \/ path[n] = << >> THEN w[n - 1]
         ELSE Deeper(w[n - 1], path[n], n = Len(path))]

\* There is only one way.
LEMMA OneWay ==
  ASSUME NEW path, Len(path) \in Nat, NEW w, Goes(w, path)
  PROVE  \A n \in 0..Len(path) : PathWay(path)[n] = w[n]
<1> DEFINE L == Len(path)
           to == CHOOSE f : Goes(f, path)
           Next1(n, p) == IF p = NotThere \/ path[n] = << >> THEN p ELSE Deeper(p, path[n], n = L)
           T == {n \in 0..L : to[n] = w[n]}
<1>1. Goes(to, path)
  BY Zenon
<1>2. PathWay(path) = to
  BY DEF PathWay, Goes
<1> HIDE DEF to
<1>3. ASSUME NEW f, Goes(f, path)
      PROVE  f[0] = TheRoot /\ \A n \in 1..L : f[n] = Next1(n, f[n - 1])
  BY <1>3 DEF Goes
<1> HIDE DEF Next1
<1>4. 0 \in T
  BY <1>1, <1>3
<1>5. ASSUME NEW k \in 0..(L - 1), k \in T PROVE k + 1 \in T
  <2>1. k + 1 \in 1..L /\ (k + 1) - 1 = k /\ to[k] = w[k]
    BY <1>5
  <2>2. to[k + 1] = Next1(k + 1, to[k]) /\ w[k + 1] = Next1(k + 1, w[k])
    BY <1>1, <1>3, <2>1
  <2>3. QED
    BY <2>1, <2>2
<1>6. 0..L \subseteq T
  <2> HIDE DEF T
  <2> QED
    BY <1>4, <1>5, IntervalInduction
<1>7. QED
  BY <1>2, <1>6

\* A path with one name leads to what that name is in the root.
LEMMA OneName ==
  ASSUME NEW path, Len(path) \in Nat \ {0}, \A i \in 1..(Len(path) - 1) : path[i] = << >>,
         TheRoot # NotThere
  PROVE  PathWay(path)[Len(path)] =
           IF path[Len(path)] = << >> THEN TheRoot ELSE Deeper(TheRoot, path[Len(path)], TRUE)
<1> DEFINE L == Len(path)
           end == IF path[L] = << >> THEN TheRoot ELSE Deeper(TheRoot, path[L], TRUE)
           w == [n \in 0..L |-> IF n < L THEN TheRoot ELSE end]
<1>1. L \in Nat /\ 0 < L /\ \A i \in 1..(L - 1) : path[i] = << >>
  OBVIOUS
<1> HIDE DEF L, end
<1>2. w[L] = end /\ \A n \in 0..(L - 1) : w[n] = TheRoot
  BY <1>1
<1> HIDE DEF w
<1>3. ASSUME NEW n \in 0..L
      PROVE  w[n] = IF n = 0 THEN TheRoot
                    ELSE IF w[n - 1] = NotThere \/ path[n] = << >> THEN w[n - 1]
                    ELSE Deeper(w[n - 1], path[n], n = L)
  <2>1. CASE n < L
    <3>1. w[n] = TheRoot /\ (n # 0 => w[n - 1] = TheRoot /\ path[n] = << >>)
      BY <1>1, <1>2, <2>1
    <3>2. QED
      BY <3>1
  <2>2. CASE n = L
    <3>1. w[n] = end /\ w[n - 1] = TheRoot /\ n # 0
      BY <1>1, <1>2, <2>2
    <3>2. (n = L) = TRUE
      BY <2>2
    <3>3. Deeper(w[n - 1], path[n], n = L) = Deeper(TheRoot, path[L], TRUE)
      BY <2>2, <3>1, <3>2, Zenon
    <3>4. QED
      BY <2>2, <3>1, <3>3 DEF end
  <2>3. QED
    BY <1>1, <2>1, <2>2
<1>4. Goes(w, path)
  <2>1. w = [n \in 0..L |-> w[n]]
    BY DEF w
  <2>2. QED
    BY <1>3, <2>1 DEF Goes, L
<1>5. PathWay(path)[L] = w[L]
  BY <1>1, <1>4, OneWay DEF L
<1>6. QED
  BY <1>2, <1>5 DEF L, end

\* FAT32: a name in the root that no volume label has.
LEMMA FatGoesThere ==
  ASSUME vol.driver = "fat32", call.path \in Seq(Seq(STRING)), call.path # << >>, Followed
  PROVE  PathEntry = TheEntry
<1> DEFINE L == Len(call.path)
           part == call.path[L]
           root == Directory(mounted.root_dir_first_cluster)
           hits == {i \in Hits(root, part) : root[i].kind = "dir" \/ (TRUE /\ root[i].kind = "file")}
<1>1. L \in Nat \ {0} /\ DOMAIN call.path = 1..L
  BY LenProperties, EmptySeq
<1>2. (\A i \in 1..(L - 1) : call.path[i] = << >>) /\ \A i \in Hits(root, part) : root[i].kind # "label"
  BY DEF Followed, Last
<1>3. TheRoot = [cluster |-> mounted.root_dir_first_cluster, size |-> 0] /\ TheRoot # NotThere
  BY DEF TheRoot, NotThere
<1>4. PathEntry = IF part = << >> THEN TheRoot ELSE Deeper(TheRoot, part, TRUE)
  BY <1>1, <1>2, <1>3, OneName DEF PathEntry
<1>5. hits = Hits(root, part)
  BY <1>2 DEF Hits, Live
<1>6. Deeper(TheRoot, part, TRUE) = FatDeeper(TheRoot, part, TRUE) /\ TheRoot.cluster = mounted.root_dir_first_cluster
  BY <1>3 DEF Deeper
<1>7. TheEntry = EntryIn(root, call.path)
  BY DEF TheEntry, FatEntry
<1>8. (\E i \in DOMAIN call.path : call.path[i] # << >> /\ (Hits(root, call.path[i]) = {} \/ Len(call.path[i]) > MaxPart))
      <=> part # << >> /\ (Hits(root, part) = {} \/ Len(part) > MaxPart)
  <2> HIDE DEF root, L
  <2>1. L \in DOMAIN call.path /\ \A i \in DOMAIN call.path : i = L \/ call.path[i] = << >>
    BY <1>1, <1>2
  <2>2. QED
    BY <2>1, Zenon
<1> HIDE DEF root
<1>9. QED
  BY <1>3, <1>4, <1>5, <1>6, <1>7, <1>8 DEF FatDeeper, EntryIn, root

\* ext2: the root, or a name in its first block.
LEMMA Ext2GoesThere ==
  ASSUME vol.driver = "ext2", call.path \in Seq(Seq(STRING)), call.path # << >>, Followed
  PROVE  PathEntry = TheEntry
<1> DEFINE part == call.path[1]
           blocks == Inode(RootInode).block
           zeros == {i \in 1..Direct : blocks[i] = 0}
<1>1. TheRoot = [inode |-> RootInode] /\ TheRoot # NotThere
  BY DEF TheRoot, NotThere
<1>2. CASE call.op # "read" /\ call.path = RootPath
  <2>1. Len(RootPath) = 2 /\ RootPath[1] = << >> /\ RootPath[2] = << >>
    BY DEF RootPath
  <2>2. PathEntry = TheRoot
    <3>1. /\ Len(call.path) = 2 /\ call.path[2] = << >>
          /\ \A i \in 1..(Len(call.path) - 1) : call.path[i] = << >>
      BY <1>2, <2>1
    <3>2. Len(call.path) \in Nat \ {0} /\ call.path[Len(call.path)] = << >>
      BY <3>1
    <3>3. TheRoot # NotThere
      BY <1>1
    <3>4. PathWay(call.path)[Len(call.path)] = TheRoot
      BY <3>1, <3>2, <3>3, OneName
    <3>5. QED
      BY <3>4 DEF PathEntry
  <2>3. QED
    BY <1>1, <1>2, <2>2 DEF TheEntry, Ext2Entry
<1>3. CASE Len(call.path) = 1 /\ part # << >> /\ (Exists(RootInode) => InFirstBlock(call.path))
  <2>1. call.path = <<part>> /\ call.path # RootPath
    BY <1>3 DEF RootPath
  <2>2. PathEntry = Ext2Deeper(TheRoot, part)
    <3>1. Len(call.path) \in Nat \ {0} /\ \A i \in 1..(Len(call.path) - 1) : call.path[i] = << >>
      BY <1>3
    <3>2. PathEntry = Deeper(TheRoot, part, TRUE)
      BY <1>1, <1>3, <3>1, OneName DEF PathEntry
    <3>3. QED
      BY <3>2 DEF Deeper
  <2>3. TheEntry = IF ~Exists(RootInode) THEN NotThere ELSE InBlock(blocks[1], <<part>>)
    BY <2>1 DEF TheEntry, Ext2Entry
  <2>4. CASE ~Exists(RootInode)
    BY <1>1, <2>2, <2>3, <2>4 DEF Ext2Deeper
  <2>5. CASE Exists(RootInode)
    <3> DEFINE having == {i \in DirectoryBlocks(blocks) : InBlock(blocks[i], <<part>>) # NotThere}
    <3>1. /\ Inode(RootInode).mode = "dir" /\ blocks[1] # 0
          /\ InBlock(blocks[1], <<part>>) # NotThere \/ DirectoryBlocks(blocks) = {1}
      BY <1>3, <2>1, <2>5 DEF InFirstBlock
    <3>2. 1 \in DirectoryBlocks(blocks) /\ DirectoryBlocks(blocks) \subseteq Nat
      <4>1. zeros \subseteq Nat /\ 1 \notin zeros /\ Direct \in Nat \ {0}
        BY <3>1, Ext2Assumption
      <4>2. LeastOr(zeros, Direct + 1) \in Nat /\ LeastOr(zeros, Direct + 1) > 1
        <5>1. CASE zeros = {}
          BY <4>1, <5>1 DEF LeastOr
        <5>2. CASE zeros # {}
          <6>1. Least(zeros) \in zeros
            BY <4>1, <5>2, LeastExists
          <6>2. Least(zeros) \in Nat /\ Least(zeros) > 1
            <7> HIDE DEF blocks
            <7> QED
              BY <4>1, <6>1
          <6>3. QED
            BY <5>2, <6>2 DEF LeastOr
        <5>3. QED
          BY <5>1, <5>2
      <4>3. QED
        BY <4>2 DEF DirectoryBlocks
    <3>3. PathEntry = IF having = {} THEN NotThere ELSE InBlock(blocks[Least(having)], <<part>>)
      BY <1>1, <2>2, <2>5, <3>1 DEF Ext2Deeper
    <3>4. CASE InBlock(blocks[1], <<part>>) # NotThere
      <4>1. having \subseteq Nat /\ 1 \in having /\ \A i \in having : 1 <= i
        BY <3>2, <3>4 DEF DirectoryBlocks
      <4>2. Least(having) = 1
        <5> HIDE DEF having
        <5> QED
          BY <4>1, LeastIs
      <4>3. QED
        BY <2>3, <2>5, <3>3, <4>1, <4>2
    <3>5. CASE InBlock(blocks[1], <<part>>) = NotThere
      <4>1. having = {}
        BY <3>1, <3>5
      <4>2. QED
        BY <2>3, <2>5, <3>3, <3>5, <4>1
    <3>6. QED
      BY <3>4, <3>5
  <2>6. QED
    BY <2>4, <2>5
<1>4. QED
  BY <1>2, <1>3 DEF Followed

\* ISO 9660: any number of names.
LEMMA IsoGoesThere ==
  ASSUME IsoMounted, call.path \in Seq(Seq(STRING)), Followed
  PROVE  PathEntry = TheEntry
<1> DEFINE path == call.path
           L == Len(path)
           w == [n \in 0..L |-> Way(path)[n]]
<1>1. L \in Nat /\ vol.driver = "iso9660" /\ \A n \in 1..L : path[n] # << >>
  BY LenProperties DEF IsoMounted, Followed
<1>2. /\ Way(path)[0] = [extent |-> mounted.root, size |-> mounted.root_size]
      /\ \A n \in 1..L :
           Way(path)[n] =
             IF Way(path)[n - 1] = NotThere THEN NotThere
             ELSE Within(DirectoryRecords(Way(path)[n - 1].extent, Way(path)[n - 1].size),
                         path[n], n = Len(path))
  BY <1>1, WayIs
<1>3. ASSUME NEW n \in 0..L
      PROVE  w[n] = IF n = 0 THEN TheRoot
                    ELSE IF w[n - 1] = NotThere \/ path[n] = << >> THEN w[n - 1]
                    ELSE Deeper(w[n - 1], path[n], n = L)
  <2>1. CASE n = 0
    BY <1>1, <1>2, <2>1 DEF TheRoot
  <2>2. CASE n # 0
    <3>1. n \in 1..L /\ w[n] = Way(path)[n] /\ w[n - 1] = Way(path)[n - 1]
      BY <1>1, <2>2
    <3> HIDE DEF w
    <3>2. QED
      BY <1>1, <1>2, <2>2, <3>1 DEF Deeper
  <2>3. QED
    BY <2>1, <2>2
<1>4. Goes(w, path)
  BY <1>3 DEF Goes
<1>5. w[L] = Way(path)[L]
  BY <1>1
<1> HIDE DEF w
<1>6. QED
  BY <1>1, <1>4, <1>5, OneWay DEF PathEntry, TheEntry, IsoEntry

\* Where a driver can follow the path it ends at the entry the path stands for.
LEMMA EndsThere ==
  ASSUME Typed, pc \notin {"idle", "undefined"}, call.op \in {"read", "list", "info"}, Followed
  PROVE  PathEntry = TheEntry
<1>1. mounted # Nothing /\ call.path \in Seq(Seq(STRING)) /\ call.path # << >>
  BY DiskAssumption DEF Typed, CallTyped
<1>2. vol.driver \in {"fat32", "ext2", "iso9660"}
  BY DiskAssumption DEF Typed, vol
<1>3. vol.driver = "iso9660" => IsoMounted
  BY <1>1 DEF Typed, MountTyped, IsoMounted
<1>4. QED
  BY <1>1, <1>2, <1>3, FatGoesThere, Ext2GoesThere, IsoGoesThere

\* On a path its driver can follow a look-up ends at the entry the path stands
\* for, refuses only when there is none, and get_info tells of that entry.
THEOREM FindsEntry == Spec => []FindsTheEntry
<1>1. Typed /\ Finds => FindsTheEntry
  <2> SUFFICES ASSUME Typed, Finds PROVE FindsTheEntry
    OBVIOUS
  <2>1. pc = "found" => call.op \in {"read", "list", "info"}
    BY DEF Typed, CallTyped, Serving
  <2>2. ASSUME pc = "found" \/ (pc = "done" /\ call.op \in {"list", "info"}), Followed
        PROVE  PathEntry = TheEntry
    BY <2>1, <2>2, EndsThere
  <2>3. Tells(ret.value, TheEntry) => TellsOf(TheEntry)
    BY DiskAssumption DEF Typed, vol, Tells, TellsOf
  <2>4. QED
    BY <2>2, <2>3 DEF Finds, LookupEnds, FindsTheEntry, Refuses, Answered
<1>2. QED
  BY <1>1, VolumesTyped, VolumesFind, PTL

-----------------------------------------------------------------------------
(* The bytes of a read *)

\* The size that a read is cut to is what there is to give.
LEMMA CutIs ==
  ASSUME call.size \in 0..(Wrap - 1), call.offset \in 0..(Wrap - 1), NEW size \in 0..(Wrap - 1),
         call.offset < size
  PROVE  CutSize(call.size, call.offset, size) = Most(size) /\ Most(size) \in 0..(Wrap - 1)
<1> DEFINE s == call.size
           o == call.offset
<1>1. Wrap \in Nat \ {0} /\ s \in 0..(Wrap - 1) /\ o \in 0..(Wrap - 1) /\ o < size
  BY DiskAssumption
<1>2. CASE ~Wraps
  <2>1. o + s \in Nat /\ o + s < Wrap
    BY <1>1, <1>2 DEF Wraps
  <2>2. U(o + s) = o + s
    <3> DEFINE x == o + s
    <3>1. x \in Nat /\ x < Wrap
      BY <2>1
    <3> HIDE DEF x
    <3>2. x % Wrap = x
      BY <1>1, <3>1, ModSmall
    <3>3. QED
      BY <3>2 DEF U, x
  <2>3. Most(size) = IF s < size - o THEN s ELSE size - o
    BY <1>1, <1>2 DEF Most, Asked, Smaller
  <2>4. CutSize(s, o, size) = IF o + s > size THEN size - o ELSE s
    BY <2>2 DEF CutSize
  <2> HIDE DEF s, o
  <2>5. CutSize(s, o, size) = Most(size) /\ Most(size) \in 0..(Wrap - 1)
    BY <1>1, <2>3, <2>4
  <2>6. QED
    BY <2>5 DEF s, o
<1>3. CASE Wraps
  <2>1. o + s >= Wrap /\ Most(size) = s
    BY <1>1, <1>3 DEF Wraps, Most
  <2> DEFINE x == o + s - Wrap
  <2> HIDE DEF s, o
  <2>2. x \in 0..(Wrap - 1) /\ x < o /\ o + s = Wrap * 1 + x /\ o + s \in Nat
    BY <1>1, <2>1
  <2> HIDE DEF x
  <2>3. (o + s) % Wrap = x
    BY <1>1, <2>2, DivMod
  <2>4. ~(U(o + s) > size)
    BY <1>1, <2>2, <2>3 DEF U
  <2>5. CutSize(s, o, size) = s
    BY <2>4 DEF CutSize
  <2>6. QED
    BY <1>1, <2>1, <2>5 DEF s, o
<1>4. QED
  BY <1>2, <1>3

\* The cluster of a FAT32 file that its k-th byte from the offset on is in, and
\* the n bytes from there.
FatIndex(k) == (call.offset + k) \div mounted.bytes_per_cluster
FatBytes(e, n) ==
  [k \in 0..(n - 1) |->
     <<Links(e.cluster)[FatIndex(k)], (call.offset + k) % mounted.bytes_per_cluster>>]
FatGiven(e, n) == \A k \in 0..(n - 1) : Links(e.cluster)[FatIndex(k)] < Eoc

\* A read of a FAT32 file has something to give.
FatReading(e) ==
  /\ FatMounted /\ mounted.bytes_per_cluster # 0
  /\ call.size \in 0..(Wrap - 1) /\ call.offset \in 0..(Wrap - 1)
  /\ e.cluster \in Nat /\ e.size \in 0..(Wrap - 1) /\ call.offset < e.size

\* It has so many clusters left to skip.
FatSkipping(e, locals) ==
  /\ locals = [cluster |-> locals.cluster, left |-> locals.left,
               from |-> call.offset % mounted.bytes_per_cluster,
               size |-> Most(e.size), bytes_read |-> 0]
  /\ FatReading(e)
  /\ locals.left \in 0..(call.offset \div mounted.bytes_per_cluster)
  /\ locals.cluster = Links(e.cluster)[(call.offset \div mounted.bytes_per_cluster) - locals.left]

\* It is in the i-th cluster of the file, at the next byte to give.
FatAtByte(e, i, locals) ==
  /\ locals.cluster = Links(e.cluster)[i]
  /\ \/ locals.bytes_read = Most(e.size)
     \/ /\ locals.from \in 0..(mounted.bytes_per_cluster - 1)
        /\ call.offset + locals.bytes_read = mounted.bytes_per_cluster * i + locals.from

\* It has given the first bytes of its window, none from behind the chain.
FatCopying(e, locals, bytes) ==
  /\ locals = [cluster |-> locals.cluster, left |-> locals.left, from |-> locals.from,
               size |-> Most(e.size), bytes_read |-> locals.bytes_read]
  /\ FatReading(e)
  /\ locals.bytes_read \in 0..Most(e.size)
  /\ bytes = FatBytes(e, locals.bytes_read)
  /\ FatGiven(e, locals.bytes_read)
  /\ \E i \in Nat : FatAtByte(e, i, locals)

\* What a read of a FAT32 file gives.
FatAnswers(e, value, bytes) ==
  \/ Overflows(e)
  \/ /\ value = LeastOr({k \in 0..(Most(e.size) - 1) : Links(e.cluster)[FatIndex(k)] >= Eoc}, Most(e.size))
     /\ bytes = FatBytes(e, value)

\* The read starts in the cluster of the offset.
LEMMA FatStarts ==
  ASSUME NEW e, NEW locals, FatSkipping(e, locals), locals.left = 0
  PROVE  FatCopying(e, locals, << >>)
<1> DEFINE b == mounted.bytes_per_cluster
           q == call.offset \div b
           r == call.offset % b
<1>1. b \in Nat \ {0} /\ call.offset \in Nat /\ Wrap \in Nat \ {0}
  BY DiskAssumption DEF FatSkipping, FatReading, FatMounted
<1>2. q \in Nat /\ r \in 0..(b - 1) /\ call.offset = b * q + r
  <2> DEFINE o == call.offset
  <2>1. o \in Nat
    BY <1>1
  <2> HIDE DEF o, b
  <2>2. o \div b \in Nat /\ o % b \in 0..(b - 1) /\ o = b * (o \div b) + (o % b)
    BY <1>1, <2>1, DivModIs
  <2>3. QED
    BY <2>2 DEF o
<1>3. /\ locals = [cluster |-> locals.cluster, left |-> locals.left, from |-> r,
                   size |-> Most(e.size), bytes_read |-> 0]
      /\ locals.cluster = Links(e.cluster)[q - 0] /\ FatReading(e)
  BY DEF FatSkipping
<1> HIDE DEF b, q, r
<1>4. locals.from = r /\ locals.bytes_read = 0
  BY <1>3
<1>5. Most(e.size) \in Nat
  <2>1. Most(e.size) \in 0..(Wrap - 1)
    BY <1>3, CutIs DEF FatReading
  <2>2. QED
    BY <1>1, <2>1
<1>6. FatBytes(e, 0) = << >>
  <2> DEFINE f == FatBytes(e, 0)
  <2>1. f = [k \in 0..(0 - 1) |-> f[k]]
    BY DEF FatBytes
  <2> HIDE DEF f
  <2>2. f = << >>
    BY <2>1, NoBytes
  <2>3. QED
    BY <2>2 DEF f
<1>7. FatGiven(e, 0)
  BY DEF FatGiven
<1>8. FatAtByte(e, q, locals)
  <2>1. q - 0 = q /\ call.offset + 0 = call.offset
    BY <1>1, <1>2
  <2>2. QED
    BY <1>2, <1>3, <1>4, <2>1 DEF FatAtByte, b
<1>9. locals = [cluster |-> locals.cluster, left |-> locals.left, from |-> locals.from,
                size |-> Most(e.size), bytes_read |-> locals.bytes_read]
  BY <1>3, <1>4
<1>10. locals.bytes_read \in 0..Most(e.size)
  BY <1>4, <1>5
<1>11. << >> = FatBytes(e, locals.bytes_read) /\ FatGiven(e, locals.bytes_read)
  BY <1>4, <1>6, <1>7
<1>12. QED
  BY <1>2, <1>3, <1>8, <1>9, <1>10, <1>11 DEF FatCopying

\* Where the copy ends the answer is right.
LEMMA FatEnds ==
  ASSUME NEW e, NEW locals, NEW bytes, FatCopying(e, locals, bytes),
         ~(locals.bytes_read < locals.size /\ locals.cluster < Eoc)
  PROVE  FatAnswers(e, locals.bytes_read, bytes)
<1> DEFINE m == locals.bytes_read
           most == Most(e.size)
           b == mounted.bytes_per_cluster
           behind == {k \in 0..(most - 1) : Links(e.cluster)[FatIndex(k)] >= Eoc}
<1>1. b \in Nat \ {0} /\ Wrap \in Nat \ {0} /\ call.offset \in Nat /\ most \in Nat /\ Eoc \in Nat
  <2>1. FatReading(e)
    BY DEF FatCopying
  <2>2. most \in 0..(Wrap - 1)
    BY <2>1, CutIs DEF FatReading
  <2>3. QED
    BY <2>1, <2>2, DiskAssumption, Fat32Assumption DEF FatReading, FatMounted
<1>2. m \in 0..most /\ locals.size = most /\ bytes = FatBytes(e, m) /\ FatGiven(e, m)
  BY DEF FatCopying
<1>3. PICK i \in Nat : FatAtByte(e, i, locals)
  BY DEF FatCopying
<1>4. Links(e.cluster) \in [Nat -> Nat]
  BY FatChain DEF FatCopying, FatReading
<1>5. \A k \in Nat : FatIndex(k) \in Nat
  <2>1. ASSUME NEW k \in Nat PROVE FatIndex(k) \in Nat
    <3> DEFINE a == call.offset + k
    <3>1. a \in Nat
      BY <1>1
    <3> HIDE DEF a, b
    <3>2. a \div b \in Nat
      BY <1>1, <3>1, DivModIs
    <3>3. QED
      BY <3>2 DEF a, b, FatIndex
  <2>2. QED
    BY <2>1
<1>6. \A k \in 0..(m - 1) : k \notin behind
  <2>1. ASSUME NEW k \in 0..(m - 1) PROVE ~(Links(e.cluster)[FatIndex(k)] >= Eoc)
    <3>1. k \in Nat /\ Links(e.cluster)[FatIndex(k)] < Eoc
      BY <1>1, <1>2 DEF FatGiven
    <3>2. Links(e.cluster)[FatIndex(k)] \in Nat
      BY <1>4, <1>5, <3>1
    <3>3. QED
      BY <1>1, <3>1, <3>2
  <2>2. QED
    BY <2>1
<1> HIDE DEF b, m, most
<1>7. CASE m = most
  <2>1. behind = {}
    BY <1>1, <1>6, <1>7
  <2> HIDE DEF behind
  <2>2. LeastOr(behind, most) = m
    BY <1>7, <2>1 DEF LeastOr
  <2>3. QED
    BY <1>2, <2>2 DEF FatAnswers, behind, m, most
<1>8. CASE m # most
  <2>1. m \in Nat /\ m < most
    BY <1>1, <1>2, <1>8
  <2>2. locals.cluster = Links(e.cluster)[i] /\ Links(e.cluster)[i] \in Nat /\ ~(locals.cluster < Eoc)
    BY <1>2, <1>3, <1>4, <2>1 DEF FatAtByte, m
  <2>3. FatIndex(m) = i
    <3> DEFINE a == call.offset + m
               r == locals.from
    <3>1. r \in 0..(b - 1) /\ a = b * i + r
      BY <1>3, <1>8 DEF FatAtByte, b, m, most
    <3>2. a \in Nat
      BY <1>1, <2>1
    <3> HIDE DEF a, r
    <3>3. a \div b = i
      BY <1>1, <3>1, <3>2, DivMod
    <3>4. QED
      BY <3>3 DEF a, b, FatIndex
  <2>4. m \in behind
    BY <1>1, <2>1, <2>2, <2>3
  <2>5. ASSUME NEW k \in behind PROVE m <= k
    <3>1. k \in Nat /\ k \notin 0..(m - 1)
      BY <1>1, <1>6, <2>5
    <3>2. QED
      BY <2>1, <3>1
  <2>6. behind \subseteq Nat
    BY <1>1
  <2> HIDE DEF behind
  <2>7. Least(behind) = m
    BY <2>4, <2>5, <2>6, LeastIs
  <2>8. LeastOr(behind, most) = m
    BY <2>4, <2>7 DEF LeastOr
  <2>9. QED
    BY <1>2, <2>8 DEF FatAnswers, behind, m, most
<1>9. QED
  BY <1>7, <1>8

\* How much of a cluster a turn copies.
FatPiece ==
  LET room == mounted.bytes_per_cluster - at.from
  IN  IF U(at.bytes_read + room) > at.size THEN at.size - at.bytes_read ELSE room

\* The locals after a turn that copies n bytes.
FatCopied(e, n) ==
  [cluster |-> fat32_get_cluster(at.cluster), left |-> at.left, from |-> 0,
   size |-> Most(e.size), bytes_read |-> at.bytes_read + n]

\* The bytes m to m + n - 1 of a read are those from byte from of cluster c on.
FatFollows(e, m, n, c, from) ==
  \A k \in m..(m + n - 1) :
    c = Links(e.cluster)[FatIndex(k)]
    /\ from + k - m = (call.offset + k) % mounted.bytes_per_cluster

\* The bytes of a turn follow those before it.
LEMMA FatWritten ==
  ASSUME NEW e, NEW m \in Nat, NEW n \in Nat, NEW c, NEW from, out = FatBytes(e, m),
         FatFollows(e, m, n, c, from)
  PROVE  Written([k \in m..(m + n - 1) |-> <<c, from + k - m>>]) = FatBytes(e, m + n)
<1> DEFINE bytes == [k \in m..(m + n - 1) |-> <<c, from + k - m>>]
           all == FatBytes(e, m + n)
           Byte(k) == <<Links(e.cluster)[FatIndex(k)], (call.offset + k) % mounted.bytes_per_cluster>>
<1>1. out = [k \in 0..(m - 1) |-> Byte(k)] /\ all = [k \in 0..(m + n - 1) |-> Byte(k)]
  BY DEF FatBytes
<1>2. ASSUME NEW k \in m..(m + n - 1) PROVE bytes[k] = Byte(k)
  BY DEF FatFollows
<1>3. DOMAIN bytes = m..(m + n - 1)
  OBVIOUS
<1> HIDE DEF bytes, Byte, all
<1>4. DOMAIN out = 0..(m - 1)
  BY <1>1
<1>5. DOMAIN out \cup DOMAIN bytes = 0..(m + n - 1)
  BY <1>3, <1>4
<1>6. ASSUME NEW k \in 0..(m + n - 1)
      PROVE  (IF k \in DOMAIN bytes THEN bytes[k] ELSE out[k]) = Byte(k)
  <2>1. CASE k \in m..(m + n - 1)
    BY <1>2, <1>3, <2>1
  <2>2. CASE k \notin m..(m + n - 1)
    <3>1. k \in 0..(m - 1)
      BY <2>2
    <3>2. QED
      BY <1>1, <1>3, <2>2, <3>1
  <2>3. QED
    BY <2>1, <2>2
<1>7. Written(bytes) = [k \in 0..(m + n - 1) |-> Byte(k)]
  BY <1>5, <1>6 DEF Written
<1>8. QED
  BY <1>1, <1>7 DEF bytes, all

\* A turn of the copy goes on where the last one ended.
LEMMA FatCopiesOn ==
  ASSUME NEW e, FatCopying(e, at, out), ~Overflows(e), at.bytes_read < at.size, at.cluster < Eoc
  PROVE  /\ FatCopying(e, FatCopied(e, FatPiece),
                       Written([k \in at.bytes_read..(at.bytes_read + FatPiece - 1) |->
                                  <<at.cluster, at.from + k - at.bytes_read>>]))
         /\ U(at.bytes_read + FatPiece) = at.bytes_read + FatPiece
<1> DEFINE m == at.bytes_read
           most == Most(e.size)
           b == mounted.bytes_per_cluster
           from == at.from
           n == FatPiece
           c == at.cluster
           o == call.offset
<1>1. b \in Nat \ {0} /\ Wrap \in Nat \ {0} /\ o \in Nat /\ most \in 0..(Wrap - 1) /\ Eoc \in Nat
      /\ FatMounted /\ e.cluster \in Nat /\ FatReading(e)
  <2>1. FatReading(e)
    BY DEF FatCopying
  <2>2. most \in 0..(Wrap - 1)
    BY <2>1, CutIs DEF FatReading
  <2>3. QED
    BY <2>1, <2>2, DiskAssumption, Fat32Assumption DEF FatReading, FatMounted
<1>2. m \in 0..most /\ at.size = most /\ out = FatBytes(e, m) /\ FatGiven(e, m) /\ m < most
  BY DEF FatCopying
<1>3. PICK i \in Nat : FatAtByte(e, i, at)
  BY DEF FatCopying
<1>4. /\ c = Links(e.cluster)[i] /\ from \in 0..(b - 1) /\ o + m = b * i + from
  <2>1. at.bytes_read # Most(e.size)
    BY <1>1, <1>2
  <2>2. QED
    BY <1>3, <2>1 DEF FatAtByte
<1>5. b + most <= Wrap
  BY <1>1 DEF Overflows
<1>6. n = IF U(m + (b - from)) > at.size THEN at.size - m ELSE b - from
  BY DEF FatPiece
<1> HIDE DEF m, most, b, from, n, c, o
<1>7. U(m + (b - from)) = m + (b - from)
  <2> DEFINE x == m + (b - from)
  <2>1. x \in Nat /\ x < Wrap
    BY <1>1, <1>2, <1>4, <1>5
  <2> HIDE DEF x
  <2>2. x % Wrap = x
    BY <1>1, <2>1, ModSmall
  <2>3. QED
    BY <2>2 DEF U, x
<1>8. /\ n \in Nat \ {0} /\ n <= b - from /\ m + n <= most /\ m \in Nat
      /\ n = b - from \/ m + n = most
  BY <1>1, <1>2, <1>4, <1>6, <1>7
<1>9. U(m + n) = m + n
  <2> DEFINE x == m + n
  <2>1. x \in Nat /\ x < Wrap
    BY <1>1, <1>8
  <2> HIDE DEF x
  <2>2. x % Wrap = x
    BY <1>1, <2>1, ModSmall
  <2>3. QED
    BY <2>2 DEF U, x
<1>10. ASSUME NEW k \in m..(m + n - 1)
       PROVE  FatIndex(k) = i /\ (o + k) % b = from + k - m
  <2> DEFINE a == o + k
             r == from + k - m
  <2>1. a \in Nat /\ r \in 0..(b - 1) /\ a = b * i + r
    <3> DEFINE p == b * i
    <3>1. p \in Nat /\ o + m = p + from
      BY <1>1, <1>4
    <3> HIDE DEF p
    <3>2. a \in Nat /\ r \in 0..(b - 1) /\ a = p + r
      BY <1>1, <1>4, <1>8, <3>1
    <3>3. QED
      BY <3>2 DEF p
  <2> HIDE DEF a, r
  <2>2. a \div b = i /\ a % b = r
    BY <1>1, <1>3, <2>1, DivModOf
  <2>3. QED
    BY <2>2 DEF a, r, FatIndex, o, b
<1>11. Written([k \in m..(m + n - 1) |-> <<c, from + k - m>>]) = FatBytes(e, m + n)
  <2>1. FatFollows(e, m, n, c, from)
    BY <1>4, <1>10 DEF o, b, FatFollows
  <2>2. QED
    BY <1>2, <1>8, <2>1, FatWritten
<1>12. FatGiven(e, m + n)
  <2> DEFINE l == m + n
  <2>1. ASSUME NEW k \in 0..(l - 1) PROVE Links(e.cluster)[FatIndex(k)] < Eoc
    <3>1. CASE k \in 0..(m - 1)
      BY <1>2, <3>1 DEF FatGiven
    <3>2. CASE k \in m..(m + n - 1)
      <4>1. Links(e.cluster)[FatIndex(k)] = c
        BY <1>4, <1>10, <3>2
      <4>2. c < Eoc
        BY DEF c
      <4>3. QED
        BY <4>1, <4>2
    <3>3. QED
      BY <1>8, <3>1, <3>2
  <2> HIDE DEF l
  <2>2. FatGiven(e, l)
    BY <2>1 DEF FatGiven
  <2>3. QED
    BY <2>2 DEF l
<1> DEFINE next == FatCopied(e, n)
<1>13. next = [cluster |-> fat32_get_cluster(c), left |-> at.left, from |-> 0, size |-> most, bytes_read |-> m + n]
  BY DEF FatCopied, c, most, m
<1> HIDE DEF next
<1>14. next.cluster = Links(e.cluster)[i + 1]
  <2>1. Links(e.cluster)[i + 1] = fat32_get_cluster(Links(e.cluster)[i])
    BY <1>1, FatChain
  <2>2. QED
    BY <1>4, <1>13, <2>1
<1>15. FatAtByte(e, i + 1, next)
  <2>1. CASE m + n = most
    BY <1>13, <1>14, <2>1 DEF FatAtByte, most
  <2>2. CASE n = b - from
    <3> DEFINE p == b * i
               p1 == b * (i + 1)
    <3>1. p \in Nat /\ p1 = p + b /\ o + m = p + from
      BY <1>1, <1>4, Multiples
    <3> HIDE DEF p, p1
    <3>2. o + (m + n) = p1 + 0 /\ 0 \in 0..(b - 1)
      BY <1>1, <1>4, <1>8, <2>2, <3>1
    <3>3. next.from = 0 /\ next.bytes_read = m + n
      BY <1>13
    <3>4. o + next.bytes_read = p1 + next.from /\ next.from \in 0..(b - 1)
      BY <3>2, <3>3
    <3>5. QED
      BY <1>14, <3>4 DEF FatAtByte, o, b, p1
  <2>3. QED
    BY <1>8, <2>1, <2>2
<1>16. FatCopying(e, next, FatBytes(e, m + n))
  <2>1. next.bytes_read = m + n /\ m + n \in 0..most
    BY <1>1, <1>2, <1>8, <1>13
  <2>2. next = [cluster |-> next.cluster, left |-> next.left, from |-> next.from,
                size |-> Most(e.size), bytes_read |-> next.bytes_read]
    BY <1>13 DEF most
  <2>3. i + 1 \in Nat
    OBVIOUS
  <2>4. QED
    BY <1>1, <1>12, <1>15, <2>1, <2>2, <2>3 DEF FatCopying, most
<1>17. QED
  BY <1>9, <1>11, <1>16 DEF next, n, m, c, from

-----------------------------------------------------------------------------
(* ext2: a read block by block *)

\* An inode read is one, or zeros.
LEMMA InodeIs ==
  ASSUME Ext2Mounted, NEW n
  PROVE  Inode(n) \in Ext2Inodes /\ Inode(n).block[1] \in Nat
<1>1. Ext2Volume(vol)
  BY Ext2Assumption DEF Ext2Mounted, vol
<1>2. ASSUME NEW b, NEW slot PROVE InodeAt(b, slot) \in Ext2Inodes
  <2>1. CASE b \in DOMAIN vol.inodes /\ slot \in DOMAIN vol.inodes[b]
    <3>1. vol.inodes[b] \in Seq(Ext2Inodes)
      BY <1>1, <2>1 DEF Ext2Volume
    <3> DEFINE s == vol.inodes[b]
    <3>2. s \in Seq(Ext2Inodes) /\ slot \in DOMAIN s
      BY <2>1, <3>1
    <3> HIDE DEF s
    <3>3. s[slot] \in Ext2Inodes
      BY <3>2, LenProperties, ElementOfSeq
    <3>4. QED
      BY <2>1, <3>3 DEF InodeAt, s
  <2>2. CASE ~(b \in DOMAIN vol.inodes /\ slot \in DOMAIN vol.inodes[b])
    <3>1. NoInode \in Ext2Inodes
      BY DiskAssumption, Ext2Assumption DEF NoInode, Ext2Inodes
    <3>2. QED
      BY <2>2, <3>1 DEF InodeAt
  <2>3. QED
    BY <2>1, <2>2
<1>3. Inode(n) \in Ext2Inodes
  BY <1>2 DEF Inode
<1>4. 1 \in 1..Direct
  BY Ext2Assumption
<1>5. QED
  BY <1>3, <1>4 DEF Ext2Inodes

\* A file that has no first block.
NoBlock(e) == Inode(e.inode).size = 0 \/ Inode(e.inode).block[1] = 0

\* The first n bytes that a read writes.
Ext2Bytes(e, n) ==
  IF NoBlock(e) THEN << >>
  ELSE [k \in 0..(n - 1) |-> <<Inode(e.inode).block[1], k % mounted.block_size>>]

\* It has written q blocks.
Ext2AtBlock(e, q, locals, bytes) ==
  /\ locals.pos = Smaller(mounted.block_size * q, call.size)
  /\ locals.remaining = call.size - locals.pos
  /\ q = 0 \/ mounted.block_size * (q - 1) < call.size
  /\ bytes = Ext2Bytes(e, mounted.block_size * q)

\* A read of an ext2 file is at one of its blocks.
Ext2Copying(e, locals, bytes) ==
  /\ locals = [inode |-> e.inode, pos |-> locals.pos, remaining |-> locals.remaining]
  /\ Ext2Mounted /\ call.size \in 0..(Wrap - 1) /\ call.offset \in 0..(Wrap - 1)
  /\ \E q \in Nat : Ext2AtBlock(e, q, locals, bytes)

\* What a read of an ext2 file gives.
Ext2Answers(e, value, bytes) ==
  LET file == Inode(e.inode)
      bs == mounted.block_size
  IN  /\ value = call.size
      /\ bytes = Ext2Bytes(e, bs * ((call.size + bs - 1) \div bs))
      /\ call.offset = 0 /\ file.block[1] # 0 /\ call.size <= Smaller(bs, file.size) =>
           /\ value = Asked(file.size)
           /\ \A k \in 0..(value - 1) : bytes[k] = <<file.block[(call.offset + k) \div bs + 1], (call.offset + k) % bs>>

\* The read starts with all of it to give.
LEMMA Ext2Starts ==
  ASSUME NEW e, Ext2Mounted, call.size \in 0..(Wrap - 1), call.offset \in 0..(Wrap - 1)
  PROVE  Ext2Copying(e, [inode |-> e.inode, pos |-> 0, remaining |-> call.size], << >>)
<1> DEFINE b == mounted.block_size
           s == call.size
           locals == [inode |-> e.inode, pos |-> 0, remaining |-> call.size]
<1>1. b \in Nat \ {0} /\ s \in Nat /\ b * 0 = 0
  BY DiskAssumption DEF Ext2Mounted
<1>2. Smaller(b * 0, s) = 0
  <2>1. Smaller(0, s) = 0
    BY <1>1 DEF Smaller
  <2>2. QED
    BY <1>1, <2>1
<1>3. Ext2Bytes(e, b * 0) = << >>
  <2>1. CASE NoBlock(e)
    BY <2>1 DEF Ext2Bytes
  <2>2. CASE ~NoBlock(e)
    <3> DEFINE f == Ext2Bytes(e, 0)
    <3>1. f = [k \in 0..(0 - 1) |-> f[k]]
      BY <2>2 DEF Ext2Bytes
    <3> HIDE DEF f
    <3>2. f = << >>
      BY <3>1, NoBytes
    <3>3. QED
      BY <1>1, <3>2 DEF f
  <2>3. QED
    BY <2>1, <2>2
<1>4. Ext2AtBlock(e, 0, locals, << >>)
  <2>1. locals.pos = 0 /\ locals.remaining = s /\ s - 0 = s
    BY <1>1
  <2>2. QED
    BY <1>2, <1>3, <2>1 DEF Ext2AtBlock
<1>5. QED
  BY <1>4 DEF Ext2Copying

\* Where the read is while there is some left: at a block.
LEMMA Ext2Here ==
  ASSUME NEW e, NEW locals, NEW bytes, Ext2Copying(e, locals, bytes)
  PROVE  /\ mounted.block_size \in Nat \ {0} /\ call.size \in Nat
         /\ locals.remaining \in Nat /\ locals.pos \in Nat /\ locals.pos + locals.remaining = call.size
         /\ \E q \in Nat : /\ Ext2AtBlock(e, q, locals, bytes)
                           /\ locals.remaining # 0 => locals.pos = mounted.block_size * q
<1> DEFINE b == mounted.block_size
           s == call.size
<1>1. b \in Nat \ {0} /\ s \in Nat
  BY DiskAssumption DEF Ext2Copying, Ext2Mounted
<1>2. PICK q \in Nat : Ext2AtBlock(e, q, locals, bytes)
  BY DEF Ext2Copying
<1> DEFINE p == b * q
<1>3. p \in Nat
  BY <1>1
<1>4. locals.pos = Smaller(p, s) /\ locals.remaining = s - locals.pos
  BY <1>2 DEF Ext2AtBlock
<1> HIDE DEF b, s, p
<1>5. locals.pos \in Nat /\ locals.remaining \in Nat /\ locals.pos + locals.remaining = s
      /\ (locals.remaining # 0 => locals.pos = p)
  BY <1>1, <1>3, <1>4 DEF Smaller
<1>6. QED
  BY <1>1, <1>2, <1>5 DEF b, s, p

\* A turn gives one block more.
LEMMA Ext2CopiesOn ==
  ASSUME NEW e, Ext2Copying(e, at, out), at.remaining > 0,
         NEW n, n = IF at.remaining > mounted.block_size THEN mounted.block_size ELSE at.remaining,
         NEW bytes,
         bytes = IF NoBlock(e) THEN out
                 ELSE Written([k \in at.pos..(at.pos + mounted.block_size - 1) |->
                                 <<Inode(e.inode).block[1], k - at.pos>>])
  PROVE  Ext2Copying(e, [inode |-> e.inode, pos |-> at.pos + n, remaining |-> at.remaining - n], bytes)
<1> DEFINE b == mounted.block_size
           s == call.size
           c == Inode(e.inode).block[1]
           pos == at.pos
           left == at.remaining
<1>1. b \in Nat \ {0} /\ s \in Nat /\ left \in Nat \ {0} /\ pos \in Nat /\ pos + left = s
  BY Ext2Here
<1>2. PICK q \in Nat : Ext2AtBlock(e, q, at, out) /\ pos = b * q
  BY <1>1, Ext2Here
<1> DEFINE p == b * q
           p1 == b * (q + 1)
           locals == [inode |-> e.inode, pos |-> pos + n, remaining |-> left - n]
<1>3. p \in Nat /\ p1 = p + b /\ p1 \in Nat
  BY <1>1, Multiples
<1>4. out = Ext2Bytes(e, p) /\ pos = p
  BY <1>2 DEF Ext2AtBlock
<1>5. n = IF left > b THEN b ELSE left
  OBVIOUS
<1>6. locals.pos = pos + n /\ locals.remaining = left - n
  OBVIOUS
<1> HIDE DEF b, s, pos, left, p, p1
<1>7. locals.pos = Smaller(p1, s) /\ locals.remaining = s - locals.pos /\ p < s
  BY <1>1, <1>3, <1>4, <1>5, <1>6 DEF Smaller
<1>8. bytes = Ext2Bytes(e, p1)
  <2>1. CASE NoBlock(e)
    BY <1>4, <2>1 DEF Ext2Bytes
  <2>2. CASE ~NoBlock(e)
    <3> DEFINE block == [k \in p..(p + b - 1) |-> <<c, k - p>>]
    <3>1. bytes = Written(block)
      BY <1>4, <2>2 DEF b, pos
    <3>2. out = [k \in 0..(p - 1) |-> <<c, k % b>>] /\ Ext2Bytes(e, p1) = [k \in 0..(p1 - 1) |-> <<c, k % b>>]
      BY <1>4, <2>2 DEF Ext2Bytes, b
    <3>3. ASSUME NEW k \in p..(p + b - 1) PROVE block[k] = <<c, k % b>>
      <4> DEFINE r == k - p
      <4>1. r \in 0..(b - 1) /\ k = p + r /\ k \in Nat
        BY <1>1, <1>3
      <4>2. k % b = r
        <5> HIDE DEF r
        <5>1. k = b * q + r
          BY <4>1 DEF p
        <5>2. QED
          BY <1>1, <1>2, <4>1, <5>1, DivModOf
      <4>3. QED
        BY <4>2
    <3>4. DOMAIN block = p..(p + b - 1) /\ DOMAIN out = 0..(p - 1)
      BY <3>2
    <3> HIDE DEF block, c
    <3>5. DOMAIN out \cup DOMAIN block = 0..(p1 - 1)
      BY <1>1, <1>3, <3>4
    <3>6. ASSUME NEW k \in 0..(p1 - 1)
          PROVE  (IF k \in DOMAIN block THEN block[k] ELSE out[k]) = <<c, k % b>>
      <4>1. CASE k \in p..(p + b - 1)
        BY <3>3, <3>4, <4>1
      <4>2. CASE k \notin p..(p + b - 1)
        <5>1. k \in 0..(p - 1)
          BY <1>1, <1>3, <4>2
        <5>2. QED
          BY <3>2, <3>4, <4>2, <5>1
      <4>3. QED
        BY <4>1, <4>2
    <3>7. Written(block) = [k \in 0..(p1 - 1) |-> <<c, k % b>>]
      BY <3>5, <3>6 DEF Written
    <3>8. QED
      BY <3>1, <3>2, <3>7
  <2>3. QED
    BY <2>1, <2>2
<1>9. Ext2AtBlock(e, q + 1, locals, bytes)
  <2>1. (q + 1) - 1 = q /\ q + 1 # 0
    BY <1>2
  <2>2. b * ((q + 1) - 1) < s
    BY <1>7, <2>1 DEF p
  <2> HIDE DEF locals
  <2>3. QED
    BY <1>7, <1>8, <2>2 DEF Ext2AtBlock, b, s, p1
<1>10. locals = [inode |-> e.inode, pos |-> locals.pos, remaining |-> locals.remaining]
  OBVIOUS
<1> HIDE DEF locals
<1>11. Ext2Copying(e, locals, bytes)
  <2>1. q + 1 \in Nat
    BY <1>2
  <2>2. QED
    BY <1>9, <1>10, <2>1 DEF Ext2Copying
<1>12. QED
  BY <1>11 DEF locals, pos, left

\* Where the read ends the answer is right.
LEMMA Ext2Ends ==
  ASSUME NEW e, NEW locals, NEW bytes, Ext2Copying(e, locals, bytes), locals.remaining = 0
  PROVE  Ext2Answers(e, locals.pos, bytes)
<1> DEFINE b == mounted.block_size
           s == call.size
           file == Inode(e.inode)
<1>1. b \in Nat \ {0} /\ s \in Nat /\ locals.pos = s
  <2>1. locals.pos \in Nat /\ locals.pos + 0 = s /\ b \in Nat \ {0} /\ s \in Nat
    BY Ext2Here
  <2>2. QED
    BY <2>1
<1>2. PICK q \in Nat : Ext2AtBlock(e, q, locals, bytes)
  BY DEF Ext2Copying
<1> DEFINE p == b * q
           ceil == (s + b - 1) \div b
<1>3. /\ p \in Nat /\ s = Smaller(p, s) /\ bytes = Ext2Bytes(e, p)
      /\ q = 0 \/ b * (q - 1) < s
  BY <1>1, <1>2 DEF Ext2AtBlock
<1>4. ceil = q
  <2>1. s <= p
    <3> HIDE DEF p, s
    <3> QED
      BY <1>1, <1>3 DEF Smaller
  <2> HIDE DEF b, s
  <2>2. QED
    BY <1>1, <1>2, <1>3, <2>1, RoundedUp
<1>5. ASSUME call.offset = 0, file.block[1] # 0, s <= Smaller(b, file.size)
      PROVE  /\ s = Asked(file.size)
             /\ \A k \in 0..(s - 1) :
                  bytes[k] = <<file.block[(call.offset + k) \div b + 1], (call.offset + k) % b>>
  <2>1. file.size \in Nat
    <3>1. file \in Ext2Inodes /\ Wrap \in Nat \ {0}
      BY InodeIs, DiskAssumption DEF Ext2Copying
    <3>2. QED
      BY <3>1 DEF Ext2Inodes
  <2>2. s <= b /\ s <= file.size
    <3> HIDE DEF b, s, file
    <3> QED
      BY <1>1, <1>5, <2>1 DEF Smaller
  <2>3. s = Asked(file.size)
    <3>1. Asked(file.size) = IF 0 >= file.size THEN 0 ELSE Smaller(s, file.size - 0)
      BY <1>5 DEF Asked
    <3> HIDE DEF s, file
    <3>2. QED
      BY <1>1, <2>1, <2>2, <3>1 DEF Smaller
  <2>4. ASSUME NEW k \in 0..(s - 1)
        PROVE  bytes[k] = <<file.block[(call.offset + k) \div b + 1], (call.offset + k) % b>>
    <3>1. k \in Nat /\ k < b /\ k <= p - 1 /\ file.size # 0
      <4> HIDE DEF b, s, p, file
      <4> QED
        BY <1>1, <1>3, <2>1, <2>2 DEF Smaller
    <3>2. call.offset + k = k
      BY <1>5, <3>1
    <3>3. k \div b = 0 /\ k % b = k
      <4> HIDE DEF b
      <4>1. b \in Nat \ {0} /\ k \in 0..(b - 1)
        BY <1>1, <3>1
      <4>2. QED
        BY <4>1, WithinOne
    <3>4. ~NoBlock(e)
      BY <1>5, <3>1 DEF NoBlock
    <3>5. bytes = [j \in 0..(p - 1) |-> <<file.block[1], j % b>>]
      BY <1>3, <3>4 DEF Ext2Bytes
    <3> HIDE DEF b, p, file
    <3>6. bytes[k] = <<file.block[1], k % b>>
      BY <1>3, <3>1, <3>5
    <3>7. QED
      BY <3>2, <3>3, <3>6
  <2>5. QED
    BY <2>3, <2>4
<1>6. bytes = Ext2Bytes(e, b * ceil)
  BY <1>3, <1>4
<1> HIDE DEF b, s, file, ceil
<1>7. QED
  BY <1>1, <1>5, <1>6 DEF Ext2Answers, b, s, file, ceil

-----------------------------------------------------------------------------
(* ISO 9660: a read in one piece *)

\* What a read of an ISO 9660 file gives.
IsoByte(e, k) ==
  <<U(e.extent + ((call.offset + k) \div mounted.block_size)), (call.offset + k) % mounted.block_size>>
IsoAnswers(e, value, bytes) ==
  value = Most(e.size) /\ bytes = [k \in 0..(value - 1) |-> IsoByte(e, k)]

\* The byte that iso9660_read_file takes as the k-th: it counts from the first
\* block of the window on.
IsoTaken(e, k) ==
  LET bs == mounted.block_size
      byte == (call.offset % bs) + k
  IN  <<U(U(e.extent + (call.offset \div bs)) + (byte \div bs)), byte % bs>>

\* A read behind the end gives nothing.
LEMMA IsoBehind ==
  ASSUME NEW e, call.offset >= e.size, call.offset \in Nat, e.size \in Nat
  PROVE  IsoAnswers(e, 0, << >>)
<1>1. Most(e.size) = 0
  BY DEF Most, Asked
<1> DEFINE f == [k \in 0..(0 - 1) |-> IsoByte(e, k)]
<1>2. f = [k \in 0..(0 - 1) |-> f[k]]
  OBVIOUS
<1> HIDE DEF f
<1>3. f = << >>
  BY <1>2, NoBytes
<1>4. QED
  BY <1>1, <1>3 DEF IsoAnswers, f

\* The block of a byte, whether it is counted from the file's first block or
\* from the window's.
LEMMA IsoSameByte ==
  ASSUME mounted.block_size \in Nat \ {0}, NEW e, e.extent \in Nat, call.offset \in Nat, NEW k \in Nat
  PROVE  IsoTaken(e, k) = IsoByte(e, k)
<1> DEFINE bs == mounted.block_size
           o == call.offset
           x == e.extent
           byte == (o % bs) + k
           q == o \div bs
           j == byte \div bs
<1>0. bs \in Nat \ {0} /\ o \in Nat /\ x \in Nat /\ Wrap \in Nat \ {0}
  BY DiskAssumption
<1> HIDE DEF bs, o, x
<1>1. o \div bs \in Nat /\ o % bs \in Nat
  BY <1>0, DivModIs
<1>2. q \in Nat /\ byte \in Nat
  BY <1>0, <1>1
<1>3. (o + k) \div bs = q + j /\ (o + k) % bs = byte % bs
  BY <1>0, DivAdd
<1>4. j \in Nat
  <2> HIDE DEF byte
  <2>1. byte \div bs \in Nat
    BY <1>0, <1>2, DivModIs
  <2>2. QED
    BY <2>1
<1>5. U(U(x + q) + j) = U(x + (q + j))
  <2> HIDE DEF q, j
  <2> DEFINE a == x + q
  <2>1. a \in Nat /\ a + j = x + (q + j)
    BY <1>0, <1>2, <1>4
  <2> HIDE DEF a
  <2>2. ((a % Wrap) + j) % Wrap = (a + j) % Wrap
    BY <1>0, <1>4, <2>1, ModAdd
  <2>3. QED
    BY <2>1, <2>2 DEF U, a
<1>6. IsoByte(e, k) = <<U(x + (q + j)), byte % bs>>
  <2> HIDE DEF q, j, byte
  <2>1. IsoByte(e, k) = <<U(x + ((o + k) \div bs)), (o + k) % bs>>
    BY DEF IsoByte, x, o, bs
  <2>2. QED
    BY <1>3, <2>1
<1>7. IsoTaken(e, k) = <<U(U(x + q) + j), byte % bs>>
  BY DEF IsoTaken, x, o, bs
<1> HIDE DEF q, j, byte
<1>8. QED
  BY <1>5, <1>6, <1>7

\* The piece holds the bytes of the window.
LEMMA IsoAnswered ==
  ASSUME mounted.block_size \in Nat \ {0}, NEW e \in Somewhere,
         call.size \in 0..(Wrap - 1), call.offset \in 0..(Wrap - 1), call.offset < e.size,
         NEW size, size = CutSize(call.size, call.offset, e.size)
  PROVE  IsoAnswers(e, size, [k \in 0..(size - 1) |-> IsoTaken(e, k)])
<1>1. e.extent \in Nat /\ e.size \in 0..(Wrap - 1) /\ call.offset \in Nat /\ Wrap \in Nat \ {0}
  BY DiskAssumption DEF Somewhere
<1>2. size = Most(e.size) /\ size \in Nat
  <2>1. CutSize(call.size, call.offset, e.size) = Most(e.size) /\ Most(e.size) \in 0..(Wrap - 1)
    BY <1>1, CutIs
  <2>2. QED
    BY <1>1, <2>1
<1>3. ASSUME NEW k \in 0..(size - 1) PROVE IsoTaken(e, k) = IsoByte(e, k)
  <2>1. k \in Nat
    BY <1>2
  <2>2. QED
    BY <1>1, <2>1, IsoSameByte
<1>4. [k \in 0..(size - 1) |-> IsoTaken(e, k)] = [k \in 0..(size - 1) |-> IsoByte(e, k)]
  BY <1>3
<1>5. QED
  BY <1>2, <1>4 DEF IsoAnswers

-----------------------------------------------------------------------------
(* Every read gives the bytes of its window *)

\* The loops in which nothing has been given yet.
Before == {"idle", "detect", "mount", "unmount", "open", "part", "search", "found", "skip", "entry"}

FatFile == [cluster : Nat, size : 0..(Wrap - 1)]

\* How far the read of a driver is, in its loop, locals and bytes given.
Reading(loop, locals, bytes) ==
  /\ loop \in Before => bytes = << >>
  /\ vol.driver # "ext2" /\ loop \in {"block", "record"} => bytes = << >>
  /\ loop = "found" /\ vol.driver = "fat32" => locals \in FatFile
  /\ loop = "found" /\ vol.driver = "iso9660" => locals \in Somewhere
  /\ loop = "skip" => FatSkipping(TheEntry, locals)
  /\ loop = "copy" => Overflows(TheEntry) \/ FatCopying(TheEntry, locals, bytes)
  /\ loop = "chunk" => Ext2Copying(TheEntry, locals, bytes)

\* What a read answers.
Gives(value, bytes, e) ==
  /\ vol.driver = "fat32" => FatAnswers(e, value, bytes)
  /\ vol.driver = "ext2" => Ext2Answers(e, value, bytes)
  /\ vol.driver = "iso9660" => IsoAnswers(e, value, bytes)

ReadEnds == Answered("read") => Gives(ret.value, out, TheEntry)

Reads == Reading(pc, at, out) /\ ReadEnds

\* What is known of a read stays during a call.
LEMMA ReadingKept ==
  ASSUME UNCHANGED <<disk, mounted, call>>
  PROVE  /\ Reading(pc, at, out)' <=> Reading(pc', at', out')
         /\ \A value, bytes, e : Gives(value, bytes, e)' <=> Gives(value, bytes, e)
<1>1. vol' = vol /\ TheEntry' = TheEntry
  BY EntryKept DEF vol
<1>2. \A c : Links(c)' = Links(c)
  BY FatKept
<1>3. \A n : Inode(n)' = Inode(n)
  BY Ext2Kept
<1>4. /\ \A size : Most(size)' = Most(size) /\ Asked(size)' = Asked(size)
      /\ \A k : FatIndex(k)' = FatIndex(k)
      /\ \A e : Overflows(e)' <=> Overflows(e)
  BY DEF Most, Asked, Wraps, FatIndex, Overflows
<1>5. /\ \A e, n : FatBytes(e, n)' = FatBytes(e, n)
      /\ \A e, n : FatGiven(e, n)' <=> FatGiven(e, n)
      /\ \A e : FatReading(e)' <=> FatReading(e)
      /\ \A e, i, locals : FatAtByte(e, i, locals)' <=> FatAtByte(e, i, locals)
  BY <1>1, <1>2, <1>4 DEF FatBytes, FatGiven, FatReading, FatMounted, FatAtByte
<1>6. \A e, locals : FatSkipping(e, locals)' <=> FatSkipping(e, locals)
  BY <1>2, <1>4, <1>5 DEF FatSkipping
<1>7. \A e, locals, bytes : FatCopying(e, locals, bytes)' <=> FatCopying(e, locals, bytes)
  BY <1>2, <1>4, <1>5 DEF FatCopying
<1>8. \A e, n : Ext2Bytes(e, n)' = Ext2Bytes(e, n)
  BY <1>3 DEF Ext2Bytes, NoBlock
<1>9. \A e, q, locals, bytes : Ext2AtBlock(e, q, locals, bytes)' <=> Ext2AtBlock(e, q, locals, bytes)
  BY <1>8 DEF Ext2AtBlock
<1>10. \A e, locals, bytes : Ext2Copying(e, locals, bytes)' <=> Ext2Copying(e, locals, bytes)
  BY <1>1, <1>9 DEF Ext2Copying, Ext2Mounted
<1>11. Reading(pc, at, out)' <=> Reading(pc', at', out')
  BY <1>1, <1>4, <1>6, <1>7, <1>10 DEF Reading
<1>12. \A e, value, bytes : FatAnswers(e, value, bytes)' <=> FatAnswers(e, value, bytes)
  BY <1>2, <1>4, <1>5 DEF FatAnswers
<1>13. \A e, value, bytes : Ext2Answers(e, value, bytes)' <=> Ext2Answers(e, value, bytes)
  BY <1>3, <1>4, <1>8 DEF Ext2Answers
<1>14. \A e, value, bytes : IsoAnswers(e, value, bytes)' <=> IsoAnswers(e, value, bytes)
  <2>1. \A e, k : IsoByte(e, k)' = IsoByte(e, k)
    BY DEF IsoByte
  <2>2. QED
    BY <1>4, <2>1 DEF IsoAnswers
<1>15. \A value, bytes, e : Gives(value, bytes, e)' <=> Gives(value, bytes, e)
  BY <1>1, <1>12, <1>13, <1>14 DEF Gives
<1>16. QED
  BY <1>11, <1>15

\* A turn goes on.
LEMMA ReadsGoto ==
  ASSUME NEW loop, NEW locals, Goto(loop, locals), loop # "done", Reading(loop, locals, out')
  PROVE  Reads'
<1>1. UNCHANGED <<disk, mounted, call>> /\ pc' = loop /\ at' = locals
  BY DEF Goto
<1>2. Reading(pc, at, out)'
  BY <1>1, ReadingKept
<1>3. QED
  BY <1>1, <1>2 DEF Reads, ReadEnds, Answered

\* A call that ends, but a read that answers.
LEMMA ReadsEnd ==
  ASSUME pc' \in {"done", "undefined"}, pc' = "done" => call'.op # "read" \/ ~ret'.ok
  PROVE  Reads'
  BY DEF Reads, Reading, ReadEnds, Answered, Before

\* A call fails.
LEMMA ReadsGive ==
  ASSUME NEW memory, NEW tells, Give(memory, tells)
  PROVE  Reads'
  BY ReadsEnd DEF Give, Return, Fail

\* A call that is no read succeeds.
LEMMA ReadsReturn ==
  ASSUME NEW value, NEW memory, Return(Ok(value), memory), call.op # "read"
  PROVE  Reads'
  BY ReadsEnd DEF Return

\* A read succeeds.
LEMMA ReadsAnswer ==
  ASSUME Typed, NEW value, NEW memory, Return(Ok(value), memory), UNCHANGED mounted,
         Gives(value, out', TheEntry)
  PROVE  Reads'
<1>1. UNCHANGED <<disk, mounted, call>> /\ pc' = "done" /\ ret'.value = value
  BY DEF Return, Ok
<1>2. vol.driver \in {"fat32", "ext2", "iso9660"} /\ vol' = vol /\ TheEntry' = TheEntry
  BY <1>1, DiskAssumption, EntryKept DEF Typed, vol
<1>3. Gives(ret.value, out, TheEntry)'
  BY <1>1, <1>2, ReadingKept
<1>4. QED
  BY <1>1, <1>2, <1>3 DEF Reads, Reading, ReadEnds, Before

-----------------------------------------------------------------------------
(* FAT32: every step of a read *)

\* An entry of a cluster that a search reads is a file as the driver takes it.
LEMMA FatFileIs ==
  ASSUME FatMounted, NEW c \in Nat, c < Eoc, NEW i \in DOMAIN vol.dir[c]
  PROVE  [cluster |-> vol.dir[c][i].first, size |-> vol.dir[c][i].size] \in FatFile
<1>1. vol.dir \in [0..(Eoc - 1) -> Seq(FatEntries)] /\ Eoc \in Nat
  BY FatVol, Fat32Assumption DEF FatVolume
<1> DEFINE s == vol.dir[c]
<1>2. s \in Seq(FatEntries) /\ i \in DOMAIN s
  BY <1>1
<1> HIDE DEF s
<1>3. s[i] \in FatEntries
  BY <1>2, LenProperties, ElementOfSeq
<1>4. s[i].first \in Nat /\ s[i].size \in 0..(Wrap - 1)
  BY <1>3 DEF FatEntries
<1>5. QED
  BY <1>4 DEF FatFile, s

\* A look-up starts in the root or is there.
LEMMA FatLookReads ==
  ASSUME Typed, vol.driver = "fat32", pc \in Serving, out = << >>, NEW path, Look(path)
  PROVE  Reads'
<1>1. mounted.root_dir_first_cluster \in Nat /\ 0 \in 0..(Wrap - 1)
  BY DiskAssumption DEF Typed, MountTyped, CallTyped
<1>2. CASE Goto("found", [cluster |-> mounted.root_dir_first_cluster, size |-> 0]) /\ UNCHANGED out
  <2>1. Reading("found", [cluster |-> mounted.root_dir_first_cluster, size |-> 0], out')
    BY <1>1, <1>2 DEF Reading, Before, FatFile
  <2>2. QED
    BY <1>2, <2>1, ReadsGoto
<1>3. CASE \E locals : Goto("search", locals) /\ UNCHANGED out
  <2>1. PICK locals : Goto("search", locals) /\ UNCHANGED out
    BY <1>3
  <2>2. Reading("search", locals, out')
    BY <2>1 DEF Reading, Before
  <2>3. QED
    BY <2>1, <2>2, ReadsGoto
<1>4. CASE \E memory, tells : Give(memory, tells)
  BY <1>4, ReadsGive
<1>5. QED
  BY <1>2, <1>3, <1>4 DEF Look

\* One cluster of the root searched.
LEMMA FatSearchReads ==
  ASSUME Typed, vol.driver = "fat32", FatFinds(pc, at), out = << >>, fat32_find_file
  PROVE  Reads'
<1>1. pc = "search" /\ FatMounted
  BY DEF fat32_find_file, FatMounted, Typed, MountTyped, CallTyped, Serving
<1>2. at.cluster \in Nat
  <2>1. PICK k \in 1..Len(call.path) : \E n \in Nat : FatAt(k, n, at)
    BY <1>1 DEF FatFinds
  <2>2. PICK n \in Nat : FatAt(k, n, at)
    BY <2>1
  <2>3. at.cluster = FatCluster(n)
    BY <2>2 DEF FatAt
  <2>4. Links(mounted.root_dir_first_cluster) \in [Nat -> Nat]
    BY <1>1, FatChain DEF FatMounted
  <2>5. QED
    BY <2>3, <2>4 DEF FatCluster
<1>3. CASE \E memory, tells : Give(memory, tells)
  BY <1>3, ReadsGive
<1>4. CASE Undefine
  BY <1>4, ReadsEnd DEF Undefine
<1>5. CASE \E loop \in {"search", "part"} : \E locals : Goto(loop, locals) /\ UNCHANGED out
  <2>1. PICK loop \in {"search", "part"} : \E locals : Goto(loop, locals) /\ UNCHANGED out
    BY <1>5
  <2>2. PICK locals : Goto(loop, locals) /\ UNCHANGED out
    BY <2>1
  <2>3. Reading(loop, locals, out')
    BY <2>2 DEF Reading, Before
  <2>4. QED
    BY <2>1, <2>2, <2>3, ReadsGoto
<1> DEFINE c == at.cluster
           name == fatname(at.rest[1])
<1>6. CASE /\ Loads(c) /\ UNCHANGED out
           /\ \E i \in FirstOf(vol.dir[c], name) :
                Goto("found", [cluster |-> vol.dir[c][i].first, size |-> vol.dir[c][i].size])
  <2>1. PICK i \in FirstOf(vol.dir[c], name) :
          Goto("found", [cluster |-> vol.dir[c][i].first, size |-> vol.dir[c][i].size])
    BY <1>6
  <2>2. i \in DOMAIN vol.dir[c] /\ c < Eoc
    BY <1>6, <2>1 DEF FirstOf, Loads
  <2> DEFINE file == [cluster |-> vol.dir[c][i].first, size |-> vol.dir[c][i].size]
  <2>3. file \in FatFile
    BY <1>1, <1>2, <2>2, FatFileIs
  <2>4. Goto("found", file)
    BY <2>1
  <2> HIDE DEF file
  <2>5. Reading("found", file, out')
    BY <1>6, <2>3 DEF Reading, Before
  <2>6. QED
    BY <2>4, <2>5, ReadsGoto
<1> HIDE DEF c, name
<1>7. QED
  BY <1>3, <1>4, <1>5, <1>6 DEF fat32_find_file, c, name

\* A read starts, or has nothing to give.
LEMMA FatReadStarts ==
  ASSUME Typed, vol.driver = "fat32", at = TheEntry, at \in FatFile, out = << >>, fat32_read
  PROVE  Reads'
<1> DEFINE e == at
           b == mounted.bytes_per_cluster
           o == call.offset
<1>1. /\ FatMounted /\ call.size \in 0..(Wrap - 1) /\ o \in 0..(Wrap - 1) /\ Wrap \in Nat \ {0}
      /\ e.cluster \in Nat /\ e.size \in 0..(Wrap - 1) /\ o \in Nat /\ e.size \in Nat /\ b \in Nat
      /\ call.op = "read" /\ pc = "found"
  BY DiskAssumption DEF fat32_read, FatMounted, Typed, MountTyped, CallTyped, Serving, FatFile
<1>2. CASE Undefine
  BY <1>2, ReadsEnd DEF Undefine
<1>3. CASE o >= e.size /\ Return(Ok(0), held) /\ UNCHANGED <<mounted, out>>
  <2>1. Most(e.size) = 0
    BY <1>1, <1>3 DEF Most, Asked
  <2>2. {k \in 0..(Most(e.size) - 1) : Links(e.cluster)[FatIndex(k)] >= Eoc} = {}
    BY <2>1
  <2>3. LeastOr({k \in 0..(Most(e.size) - 1) : Links(e.cluster)[FatIndex(k)] >= Eoc}, Most(e.size)) = 0
    BY <2>1, <2>2 DEF LeastOr
  <2>4. FatBytes(e, 0) = << >>
    <3> DEFINE f == FatBytes(e, 0)
    <3>1. f = [k \in 0..(0 - 1) |-> f[k]]
      BY DEF FatBytes
    <3> HIDE DEF f
    <3>2. f = << >>
      BY <3>1, NoBytes
    <3>3. QED
      BY <3>2 DEF f
  <2>5. FatAnswers(e, 0, << >>)
    BY <2>3, <2>4 DEF FatAnswers
  <2>6. Gives(0, out', TheEntry)
    BY <1>3, <2>5 DEF Gives
  <2>7. QED
    BY <1>3, <2>6, ReadsAnswer
<1>4. CASE /\ o < e.size /\ ~Hollow /\ UNCHANGED out
           /\ Goto("skip", [cluster |-> e.cluster, left |-> o \div b, from |-> o % b,
                            size |-> CutSize(call.size, o, e.size), bytes_read |-> 0])
  <2> DEFINE locals == [cluster |-> e.cluster, left |-> o \div b, from |-> o % b,
                        size |-> CutSize(call.size, o, e.size), bytes_read |-> 0]
  <2>1. b # 0 /\ FatReading(e)
    BY <1>1, <1>4 DEF FatReading, Hollow
  <2>2. CutSize(call.size, o, e.size) = Most(e.size)
    BY <1>1, <1>4, CutIs
  <2>3. o \div b \in Nat
    <3> HIDE DEF o, b
    <3>1. QED
      BY <1>1, <2>1, DivModIs
  <2>4. Links(e.cluster)[(o \div b) - (o \div b)] = e.cluster
    <3>1. Links(e.cluster)[0] = e.cluster
      BY <1>1, FatChain
    <3>2. (o \div b) - (o \div b) = 0
      BY <2>3
    <3>3. QED
      BY <3>1, <3>2
  <2>5. /\ locals.left = o \div b /\ locals.cluster = e.cluster
        /\ locals = [cluster |-> locals.cluster, left |-> locals.left, from |-> o % b,
                     size |-> Most(e.size), bytes_read |-> 0]
    BY <2>2
  <2>6. Goto("skip", locals)
    BY <1>4
  <2> HIDE DEF locals
  <2>7. locals.left \in 0..(o \div b)
    BY <2>3, <2>5
  <2>8. FatSkipping(e, locals)
    BY <2>1, <2>4, <2>5, <2>7 DEF FatSkipping
  <2>9. Reading("skip", locals, out')
    BY <1>4, <2>8 DEF Reading, Before
  <2>10. QED
    BY <2>6, <2>9, ReadsGoto
<1>5. QED
  BY <1>2, <1>3, <1>4 DEF fat32_read

\* One cluster skipped.
LEMMA FatSkipReads ==
  ASSUME Typed, FatSkipping(TheEntry, at), out = << >>, fat32_skip
  PROVE  Reads'
<1> DEFINE e == TheEntry
           q == call.offset \div mounted.bytes_per_cluster
<1>1. /\ at = [cluster |-> at.cluster, left |-> at.left,
               from |-> call.offset % mounted.bytes_per_cluster,
               size |-> Most(e.size), bytes_read |-> 0]
      /\ FatReading(e) /\ at.left \in 0..q /\ at.cluster = Links(e.cluster)[q - at.left]
  BY DEF FatSkipping
<1>2. /\ FatMounted /\ e.cluster \in Nat /\ q \in Nat
  <2> DEFINE o == call.offset
             b == mounted.bytes_per_cluster
  <2>1. o \in Nat /\ b \in Nat \ {0} /\ FatMounted /\ e.cluster \in Nat
    BY <1>1, DiskAssumption DEF FatReading, FatMounted
  <2> HIDE DEF o, b
  <2>2. o \div b \in Nat
    BY <2>1, DivModIs
  <2>3. QED
    BY <2>1, <2>2 DEF o, b
<1> HIDE DEF e, q
<1>3. CASE \E memory, tells : Give(memory, tells)
  BY <1>3, ReadsGive
<1>4. CASE at.left = 0 /\ Goto("copy", at) /\ UNCHANGED out
  <2>1. FatCopying(TheEntry, at, << >>)
    BY <1>4, FatStarts
  <2>2. Reading("copy", at, out')
    BY <1>4, <2>1 DEF Reading, Before
  <2>3. QED
    BY <1>4, <2>2, ReadsGoto
<1>5. CASE /\ at.left > 0 /\ UNCHANGED out
           /\ Goto("skip", [at EXCEPT !.cluster = fat32_get_cluster(@), !.left = @ - 1])
  <2> DEFINE locals == [at EXCEPT !.cluster = fat32_get_cluster(@), !.left = @ - 1]
             l == at.left
             n == q - l
  <2>1. l \in 0..q /\ l > 0 /\ at.cluster = Links(e.cluster)[n]
    BY <1>1, <1>5
  <2>2. locals = [cluster |-> fat32_get_cluster(at.cluster), left |-> l - 1,
                  from |-> call.offset % mounted.bytes_per_cluster,
                  size |-> Most(e.size), bytes_read |-> 0]
    <3> DEFINE one == [at EXCEPT !.cluster = fat32_get_cluster(@)]
    <3>1. one = [cluster |-> fat32_get_cluster(at.cluster), left |-> l,
                 from |-> call.offset % mounted.bytes_per_cluster,
                 size |-> Most(e.size), bytes_read |-> 0]
      BY <1>1
    <3>2. locals = [one EXCEPT !.left = @ - 1]
      OBVIOUS
    <3> HIDE DEF one, locals
    <3>3. [one EXCEPT !.left = @ - 1]
            = [cluster |-> fat32_get_cluster(at.cluster), left |-> l - 1,
               from |-> call.offset % mounted.bytes_per_cluster,
               size |-> Most(e.size), bytes_read |-> 0]
      BY <3>1
    <3>4. QED
      BY <3>2, <3>3, Zenon
  <2>3. Goto("skip", locals)
    BY <1>5
  <2> HIDE DEF locals, l
  <2>4. n \in Nat /\ q - (l - 1) = n + 1 /\ l - 1 \in 0..q
    BY <1>2, <2>1
  <2> HIDE DEF n
  <2>5. Links(e.cluster)[n + 1] = fat32_get_cluster(Links(e.cluster)[n])
    BY <1>2, <2>4, FatChain
  <2>6. locals.left = l - 1 /\ locals.cluster = Links(e.cluster)[q - (l - 1)]
    BY <2>1, <2>2, <2>4, <2>5
  <2>7. FatSkipping(e, locals)
    BY <1>1, <2>2, <2>4, <2>6 DEF FatSkipping, q
  <2>8. Reading("skip", locals, out')
    BY <1>5, <2>7 DEF Reading, Before, e
  <2>9. QED
    BY <2>3, <2>8, ReadsGoto
<1>6. QED
  BY <1>3, <1>4, <1>5 DEF fat32_skip

\* One cluster copied.
LEMMA FatCopyReads ==
  ASSUME Typed, vol.driver = "fat32", call.op = "read",
         Overflows(TheEntry) \/ FatCopying(TheEntry, at, out), fat32_copy
  PROVE  Reads'
<1> DEFINE e == TheEntry
           n == FatPiece
           more == at.bytes_read < at.size /\ at.cluster < Eoc
           bytes == Written([k \in at.bytes_read..(at.bytes_read + n - 1) |->
                               <<at.cluster, at.from + k - at.bytes_read>>])
           locals == [at EXCEPT !.cluster = fat32_get_cluster(@), !.from = 0, !.bytes_read = U(@ + n)]
<1>1. CASE \E memory, tells : Give(memory, tells)
  BY <1>1, ReadsGive
<1>2. CASE ~more /\ Return(Ok(at.bytes_read), held) /\ UNCHANGED <<mounted, out>>
  <2>1. FatAnswers(TheEntry, at.bytes_read, out)
    BY <1>2, FatEnds DEF FatAnswers
  <2>2. Gives(at.bytes_read, out', TheEntry)
    BY <1>2, <2>1 DEF Gives
  <2>3. QED
    BY <1>2, <2>2, ReadsAnswer
<1>3. CASE more /\ out' = bytes /\ Goto("copy", locals)
  <2>1. CASE Overflows(TheEntry)
    <3>1. Reading("copy", locals, out')
      BY <2>1 DEF Reading, Before
    <3>2. QED
      BY <1>3, <3>1, ReadsGoto
  <2>2. CASE ~Overflows(TheEntry)
    <3>1. FatCopying(TheEntry, at, out)
      BY <2>2
    <3>2. FatCopying(e, FatCopied(e, n), bytes) /\ U(at.bytes_read + n) = at.bytes_read + n
      BY <1>3, <2>2, <3>1, FatCopiesOn
    <3>3. locals = FatCopied(e, n)
      <4>1. at = [cluster |-> at.cluster, left |-> at.left, from |-> at.from,
                  size |-> Most(e.size), bytes_read |-> at.bytes_read]
        BY <3>1 DEF FatCopying
      <4> DEFINE r == at
                 c == at.cluster
                 l == at.left
                 f == at.from
                 s == Most(e.size)
                 m == at.bytes_read
                 x == fat32_get_cluster(c)
                 z == m + n
      <4>2. locals = [r EXCEPT !.cluster = x, !.from = 0, !.bytes_read = z]
        BY <3>2
      <4>3. FatCopied(e, n) = [cluster |-> x, left |-> l, from |-> 0, size |-> s, bytes_read |-> z]
        BY DEF FatCopied
      <4>4. r = [cluster |-> c, left |-> l, from |-> f, size |-> s, bytes_read |-> m]
        BY <4>1
      <4> HIDE DEF r, c, l, f, s, m, x, z, locals, e, n
      <4> DEFINE one == [r EXCEPT !.cluster = x]
                 two == [one EXCEPT !.from = 0]
      <4>5. [r EXCEPT !.cluster = x, !.from = 0, !.bytes_read = z] = [two EXCEPT !.bytes_read = z]
        OBVIOUS
      <4>6. one = [cluster |-> x, left |-> l, from |-> f, size |-> s, bytes_read |-> m]
        BY <4>4
      <4> HIDE DEF one
      <4>7. two = [cluster |-> x, left |-> l, from |-> 0, size |-> s, bytes_read |-> m]
        BY <4>6
      <4> HIDE DEF two
      <4>8. [two EXCEPT !.bytes_read = z]
              = [cluster |-> x, left |-> l, from |-> 0, size |-> s, bytes_read |-> z]
        BY <4>7
      <4>9. QED
        BY <4>2, <4>3, <4>5, <4>8, Zenon
    <3>4. Goto("copy", locals) /\ out' = bytes
      BY <1>3
    <3> HIDE DEF locals, bytes, n
    <3>5. Reading("copy", locals, out')
      BY <3>2, <3>3, <3>4 DEF Reading, Before
    <3>6. QED
      BY <3>4, <3>5, ReadsGoto
  <2>3. QED
    BY <2>1, <2>2
<1>4. QED
  BY <1>1, <1>2, <1>3 DEF fat32_copy, FatPiece

\* Every step of the FAT32 driver.
LEMMA FatStepReads ==
  ASSUME Typed, fat32_step, Finds, Reads
  PROVE  Reads'
<1>0. vol.driver = "fat32"
  BY DEF fat32_step
<1>1. FatFinds(pc, at) /\ (pc = "found" => at = TheEntry) /\ Reading(pc, at, out)
  BY <1>0 DEF Finds, OnTheWay, Reads
<1>2. CASE \E memory, tells : Give(memory, tells)
  BY <1>2, ReadsGive
<1>3. CASE Undefine
  BY <1>3, ReadsEnd DEF Undefine
<1>4. CASE call.op # "read" /\ \E value, memory : Return(Ok(value), memory)
  BY <1>4, ReadsReturn
<1>5. CASE \E locals : Goto("list", locals)
  <2>1. PICK locals : Goto("list", locals)
    BY <1>5
  <2>2. Reading("list", locals, out')
    BY DEF Reading, Before
  <2>3. QED
    BY <2>1, <2>2, ReadsGoto
<1>6. CASE fat32_detect
  BY <1>4, <1>6 DEF fat32_detect, Typed, CallTyped
<1>7. CASE fat32_mount
  <2>1. call.op # "read"
    BY <1>7 DEF fat32_mount, Typed, CallTyped
  <2>2. QED
    BY <1>2, <1>3, <1>4, <1>7, <2>1 DEF fat32_mount
<1>8. CASE fat32_unmount
  BY <1>4, <1>8 DEF fat32_unmount, Typed, CallTyped
<1>9. CASE fat32_open
  <2>1. pc \in Serving /\ out = << >>
    BY <1>1, <1>9 DEF fat32_open, Serving, Reading, Before
  <2>2. QED
    BY <1>0, <1>9, <2>1, FatLookReads DEF fat32_open
<1>10. CASE fat32_next_part
  <2>1. pc \in Serving /\ out = << >>
    BY <1>1, <1>10 DEF fat32_next_part, Serving, Reading, Before
  <2>2. QED
    BY <1>0, <1>10, <2>1, FatLookReads DEF fat32_next_part
<1>11. CASE fat32_find_file
  <2>1. out = << >>
    BY <1>1, <1>11 DEF fat32_find_file, Reading, Before
  <2>2. QED
    BY <1>0, <1>1, <1>11, <2>1, FatSearchReads
<1>12. CASE fat32_get_info
  BY <1>4, <1>12 DEF fat32_get_info
<1>13. CASE fat32_read
  <2>1. at = TheEntry /\ at \in FatFile /\ out = << >>
    BY <1>0, <1>1, <1>13 DEF fat32_read, Reading, Before
  <2>2. QED
    BY <1>0, <1>13, <2>1, FatReadStarts
<1>14. CASE fat32_skip
  <2>1. FatSkipping(TheEntry, at) /\ out = << >>
    BY <1>1, <1>14 DEF fat32_skip, Reading, Before
  <2>2. QED
    BY <1>14, <2>1, FatSkipReads
<1>15. CASE fat32_copy
  <2>1. (Overflows(TheEntry) \/ FatCopying(TheEntry, at, out)) /\ call.op = "read"
    BY <1>1, <1>15 DEF fat32_copy, Reading, Before, Typed, CallTyped
  <2>2. QED
    BY <1>0, <1>15, <2>1, FatCopyReads
<1>16. CASE fat32_read_dir
  BY <1>2, <1>5, <1>16 DEF fat32_read_dir
<1>17. CASE fat32_list
  <2>1. call.op # "read"
    BY <1>17 DEF fat32_list, Typed, CallTyped
  <2>2. QED
    BY <1>2, <1>3, <1>4, <1>5, <1>17, <2>1 DEF fat32_list
<1>18. QED
  BY <1>6, <1>7, <1>8, <1>9, <1>10, <1>11, <1>12, <1>13, <1>14, <1>15, <1>16, <1>17 DEF fat32_step

-----------------------------------------------------------------------------
(* ext2 and ISO 9660: every step of a read *)

\* Every step of the ext2 driver.
LEMMA Ext2StepReads ==
  ASSUME Typed, ext2_step, Finds, Reads
  PROVE  Reads'
<1>0. vol.driver = "ext2"
  BY DEF ext2_step
<1>1. Ext2Finds(pc, at) /\ (pc = "found" => at = TheEntry) /\ Reading(pc, at, out)
  BY <1>0 DEF Finds, OnTheWay, Reads
<1>2. CASE \E memory, tells : Give(memory, tells)
  BY <1>2, ReadsGive
<1>3. CASE Undefine
  BY <1>3, ReadsEnd DEF Undefine
<1>4. CASE call.op # "read" /\ \E value, memory : Return(Ok(value), memory)
  BY <1>4, ReadsReturn
<1>5. CASE \E n : ext2_read_inode(n)
  BY <1>2, <1>3, <1>5 DEF ext2_read_inode
<1>6. CASE \E loop \in {"found", "entry"} : \E locals : Goto(loop, locals) /\ out' = << >>
  <2>1. PICK loop \in {"found", "entry"} : \E locals : Goto(loop, locals) /\ out' = << >>
    BY <1>6
  <2>2. PICK locals : Goto(loop, locals) /\ out' = << >>
    BY <2>1
  <2>3. Reading(loop, locals, out')
    BY <1>0, <2>2 DEF Reading, Before
  <2>4. QED
    BY <2>1, <2>2, <2>3, ReadsGoto
<1>7. CASE \E loop \in {"block", "record"} : \E locals : Goto(loop, locals)
  <2>1. PICK loop \in {"block", "record"} : \E locals : Goto(loop, locals)
    BY <1>7
  <2>2. PICK locals : Goto(loop, locals)
    BY <2>1
  <2>3. Reading(loop, locals, out')
    BY <1>0 DEF Reading, Before
  <2>4. QED
    BY <2>1, <2>2, <2>3, ReadsGoto
<1>8. CASE ext2_detect
  BY <1>4, <1>8 DEF ext2_detect, Typed, CallTyped
<1>9. CASE ext2_mount
  <2>1. call.op # "read"
    BY <1>9 DEF ext2_mount, Typed, CallTyped
  <2>2. QED
    BY <1>2, <1>3, <1>4, <1>9, <2>1 DEF ext2_mount
<1>10. CASE ext2_unmount
  BY <1>4, <1>10 DEF ext2_unmount, Typed, CallTyped
<1>11. CASE ext2_open
  <2>1. out = << >>
    BY <1>1, <1>11 DEF ext2_open, Reading, Before
  <2>2. QED
    BY <1>2, <1>5, <1>6, <1>11, <2>1 DEF ext2_open, EnterRoot
<1>12. CASE ext2_find_file
  <2>1. out = << >>
    BY <1>1, <1>12 DEF ext2_find_file, Reading, Before
  <2>2. QED
    BY <1>2, <1>6, <1>12, <2>1 DEF ext2_find_file
<1>13. CASE ext2_get_info
  BY <1>4, <1>5, <1>13 DEF ext2_get_info, Tell
<1>14. CASE ext2_fs_read_file
  <2> DEFINE locals == [inode |-> at.inode, pos |-> 0, remaining |-> call.size]
  <2>1. pc = "found" /\ at = TheEntry /\ out = << >> /\ out' = out /\ Goto("chunk", locals)
    BY <1>1, <1>14 DEF ext2_fs_read_file, Reading, Before
  <2>2. Ext2Mounted /\ call.size \in 0..(Wrap - 1) /\ call.offset \in 0..(Wrap - 1)
    BY <1>0, <2>1, Ext2Assumption DEF Ext2Mounted, Ext2Volume, Typed, MountTyped, CallTyped, Serving, vol
  <2>3. Ext2Copying(at, locals, << >>)
    BY <2>2, Ext2Starts
  <2> HIDE DEF locals
  <2>4. Reading("chunk", locals, out')
    BY <2>1, <2>3 DEF Reading, Before
  <2>5. QED
    BY <2>1, <2>4, ReadsGoto
<1>15. CASE ext2_read_file
  <2>1. Ext2Copying(TheEntry, at, out)
    BY <1>1, <1>15 DEF ext2_read_file, Reading
  <2>2. CASE at.remaining = 0 /\ Return(Ok(at.pos), held) /\ UNCHANGED <<mounted, out>>
    <3>1. Ext2Answers(TheEntry, at.pos, out)
      BY <2>1, <2>2, Ext2Ends
    <3>2. Gives(at.pos, out', TheEntry)
      BY <1>0, <2>2, <3>1 DEF Gives
    <3>3. QED
      BY <2>2, <3>2, ReadsAnswer
  <2>3. CASE at.remaining > 0 /\ Chunk(Inode(at.inode))
    <3> DEFINE n == IF at.remaining > mounted.block_size THEN mounted.block_size ELSE at.remaining
               locals == [at EXCEPT !.pos = @ + n, !.remaining = @ - n]
               next == [inode |-> at.inode, pos |-> at.pos + n, remaining |-> at.remaining - n]
               written == Written([k \in at.pos..(at.pos + mounted.block_size - 1) |->
                                     <<Inode(at.inode).block[1], k - at.pos>>])
               bytes == IF NoBlock(at) THEN out ELSE written
    <3>1. at = [inode |-> TheEntry.inode, pos |-> at.pos, remaining |-> at.remaining]
      BY <2>1 DEF Ext2Copying
    <3>2. locals = next
      <4> DEFINE one == [at EXCEPT !.pos = @ + n]
                 p == at.pos + n
                 l == at.remaining - n
      <4>1. one = [inode |-> at.inode, pos |-> p, remaining |-> at.remaining]
        BY <3>1
      <4>2. locals = [one EXCEPT !.remaining = l]
        BY <3>1
      <4>3. next = [inode |-> at.inode, pos |-> p, remaining |-> l]
        OBVIOUS
      <4> HIDE DEF one, locals, n, p, l, next
      <4>4. [one EXCEPT !.remaining = l] = [inode |-> at.inode, pos |-> p, remaining |-> l]
        BY <4>1
      <4>5. QED
        BY <4>2, <4>3, <4>4, Zenon
    <3>3. at.inode = TheEntry.inode
      BY <3>1
    <3>4. Inode(at.inode).size \in Nat /\ Inode(at.inode).block[1] \in Nat
      <4>1. Ext2Mounted
        BY <2>1 DEF Ext2Copying
      <4>2. Inode(at.inode) \in Ext2Inodes /\ Inode(at.inode).block[1] \in Nat
        BY <4>1, InodeIs
      <4>3. QED
        BY <4>2, DiskAssumption DEF Ext2Inodes
    <3>5. NoBlock(at) <=> ~(Inode(at.inode).size > 0 /\ Inode(at.inode).block[1] # 0)
      BY <3>4 DEF NoBlock
    <3>6. Give(held, TRUE) \/ (Goto("chunk", locals) /\ out' = bytes)
      BY <2>3, <3>5 DEF Chunk
    <3>7. NoBlock(at) <=> NoBlock(TheEntry)
      BY <3>3 DEF NoBlock
    <3>8. CASE Goto("chunk", locals) /\ out' = bytes
      <4>1. bytes = IF NoBlock(TheEntry) THEN out
                    ELSE Written([k \in at.pos..(at.pos + mounted.block_size - 1) |->
                                    <<Inode(TheEntry.inode).block[1], k - at.pos>>])
        BY <3>3, <3>7
      <4>2. n = IF at.remaining > mounted.block_size THEN mounted.block_size ELSE at.remaining
        OBVIOUS
      <4>3. next = [inode |-> TheEntry.inode, pos |-> at.pos + n, remaining |-> at.remaining - n]
        BY <3>3
      <4> HIDE DEF n, bytes, locals, next
      <4>4. Ext2Copying(TheEntry, next, bytes)
        BY <2>1, <2>3, <4>1, <4>2, <4>3, Ext2CopiesOn
      <4>5. Reading("chunk", locals, out')
        BY <3>2, <3>8, <4>4 DEF Reading, Before
      <4>6. QED
        BY <3>8, <4>5, ReadsGoto
    <3>9. QED
      BY <1>2, <3>6, <3>8
  <2>4. QED
    BY <1>5, <1>15, <2>2, <2>3 DEF ext2_read_file
<1>16. CASE ext2_list_dir
  BY <1>2, <1>5, <1>7, <1>16 DEF ext2_list_dir, EnterDir
<1>17. CASE ext2_list_block
  <2>1. call.op # "read"
    BY <1>0, <1>17 DEF ext2_list_block, Typed, CallTyped
  <2>2. QED
    BY <1>2, <1>4, <1>7, <1>17, <2>1 DEF ext2_list_block
<1>18. CASE ext2_list_record
  BY <1>7, <1>18 DEF ext2_list_record
<1>19. QED
  BY <1>8, <1>9, <1>10, <1>11, <1>12, <1>13, <1>14, <1>15, <1>16, <1>17, <1>18 DEF ext2_step

\* A call for a directory of an ISO 9660 volume.
LEMMA IsoEnterReads ==
  ASSUME vol.driver = "iso9660", out = << >>, NEW extent, NEW size, NEW rest, NEW depth,
         Enter(extent, size, rest, depth)
  PROVE  Reads'
<1>1. CASE Undefine
  BY <1>1, ReadsEnd DEF Undefine
<1>2. CASE \E memory : Give(memory, TRUE)
  BY <1>2, ReadsGive
<1>3. CASE \E locals : Goto("block", locals) /\ UNCHANGED out
  <2>1. PICK locals : Goto("block", locals) /\ UNCHANGED out
    BY <1>3
  <2>2. Reading("block", locals, out')
    BY <1>3 DEF Reading, Before
  <2>3. QED
    BY <2>1, <2>2, ReadsGoto
<1>4. QED
  BY <1>1, <1>2, <1>3 DEF Enter

\* Every step of the ISO 9660 driver.
LEMMA IsoStepReads ==
  ASSUME Typed, iso9660_step, Finds, Reads
  PROVE  Reads'
<1>0. vol.driver = "iso9660"
  BY DEF iso9660_step
<1>1. IsoFinds(pc, at) /\ (pc = "found" => at = TheEntry) /\ Reading(pc, at, out)
  BY <1>0 DEF Finds, OnTheWay, Reads
<1>2. CASE \E memory, tells : Give(memory, tells)
  BY <1>2, ReadsGive
<1>3. CASE Undefine
  BY <1>3, ReadsEnd DEF Undefine
<1>4. CASE call.op # "read" /\ \E value, memory : Return(Ok(value), memory)
  BY <1>4, ReadsReturn
<1>5. CASE \E locals : Goto("listing", locals)
  <2>1. PICK locals : Goto("listing", locals)
    BY <1>5
  <2>2. Reading("listing", locals, out')
    BY DEF Reading, Before
  <2>3. QED
    BY <2>1, <2>2, ReadsGoto
<1>6. CASE out = << >> /\ UNCHANGED out /\ \E loop \in {"block", "record"} : \E locals : Goto(loop, locals)
  <2>1. PICK loop \in {"block", "record"} : \E locals : Goto(loop, locals)
    BY <1>6
  <2>2. PICK locals : Goto(loop, locals)
    BY <2>1
  <2>3. Reading(loop, locals, out')
    BY <1>6 DEF Reading, Before
  <2>4. QED
    BY <2>1, <2>2, <2>3, ReadsGoto
<1>7. ASSUME pc \in Serving
      PROVE  IsoMounted
  BY <1>0, <1>7 DEF IsoMounted, Typed, MountTyped, CallTyped
<1>8. CASE iso9660_detect
  BY <1>4, <1>8 DEF iso9660_detect, Typed, CallTyped
<1>9. CASE iso9660_mount
  <2>1. call.op # "read"
    BY <1>9 DEF iso9660_mount, Typed, CallTyped
  <2>2. QED
    BY <1>2, <1>3, <1>4, <1>9, <2>1 DEF iso9660_mount
<1>10. CASE iso9660_unmount
  BY <1>4, <1>10 DEF iso9660_unmount, Typed, CallTyped
<1>11. CASE iso9660_open
  <2>1. out = << >>
    BY <1>1, <1>11 DEF iso9660_open, Reading, Before
  <2>2. QED
    BY <1>0, <1>11, <2>1, IsoEnterReads DEF iso9660_open
<1>12. CASE iso9660_find_block
  <2>1. out = << >>
    BY <1>0, <1>1, <1>12 DEF iso9660_find_block, Reading
  <2>2. QED
    BY <1>2, <1>3, <1>6, <1>12, <2>1 DEF iso9660_find_block
<1>13. CASE iso9660_find_entry
  <2> DEFINE records == RecordsAt(at.extent, at.off)
             r == records[at.i]
             hit == at.i <= Len(records) /\ Same(r, at.rest[1])
  <2>1. out = << >> /\ pc = "record" /\ pc \in Serving
    BY <1>0, <1>1, <1>13 DEF iso9660_find_entry, Reading, Serving
  <2>2. CASE \E loop \in {"block", "record"} : \E locals : Goto(loop, locals) /\ UNCHANGED out
    BY <1>6, <2>1, <2>2
  <2>3. CASE hit /\ Goto("found", [extent |-> r.extent, size |-> r.size]) /\ UNCHANGED out
    <3>1. records \in Seq(IsoRecords) /\ Len(records) \in Nat
      <4>1. IsoMounted
        BY <1>7, <2>1
      <4>2. QED
        BY <4>1, RecordsOf, LenProperties DEF RecordsAt
    <3>2. at.i \in Nat \ {0}
      <4>1. PICK k \in 1..Len(call.path) : IsoIn(k, at) /\ IsoPassed(k, at)
        BY <1>1, <2>1 DEF IsoFinds
      <4>2. QED
        BY <4>1 DEF IsoIn
    <3>3. r \in IsoRecords
      <4>1. at.i \in 1..Len(records)
        BY <2>3, <3>1, <3>2
      <4> HIDE DEF records
      <4>2. QED
        BY <3>1, <4>1, ElementOfSeq
    <3> DEFINE place == [extent |-> r.extent, size |-> r.size]
    <3>4. place \in Somewhere
      <4> HIDE DEF r
      <4> QED
        BY <3>3 DEF IsoRecords, Somewhere
    <3>5. Goto("found", place)
      BY <2>3
    <3> HIDE DEF place
    <3>6. Reading("found", place, out')
      BY <1>0, <2>1, <2>3, <3>4 DEF Reading, Before
    <3>7. QED
      BY <3>5, <3>6, ReadsGoto
  <2>4. CASE \E extent, size, rest, depth : Enter(extent, size, rest, depth)
    BY <1>0, <2>1, <2>4, IsoEnterReads
  <2> HIDE DEF r, records
  <2>5. QED
    BY <1>13, <2>2, <2>3, <2>4 DEF iso9660_find_entry, r, records, RecordsAt
<1>14. CASE iso9660_read_file
  <2> DEFINE bs == mounted.block_size
             size == CutSize(call.size, call.offset, at.size)
  <2>1. /\ pc = "found" /\ at = TheEntry /\ at \in Somewhere /\ out = << >> /\ pc \in Serving
        /\ mounted.block_size # 0
    BY <1>0, <1>1, <1>14 DEF iso9660_read_file, Reading, Before, Serving, IsoFinds
  <2>2. /\ mounted.block_size \in Nat \ {0} /\ Wrap \in Nat \ {0}
        /\ call.size \in 0..(Wrap - 1) /\ call.offset \in 0..(Wrap - 1)
    <3>1. IsoMounted
      BY <1>7, <2>1
    <3>2. QED
      BY <2>1, <3>1, RecordsOf DEF Typed, CallTyped
  <2>3. call.offset \in Nat /\ at.size \in Nat
    BY <2>1, <2>2 DEF Somewhere
  <2>4. CASE call.offset >= at.size /\ Return(Ok(0), held) /\ UNCHANGED <<mounted, out>>
    <3>1. IsoAnswers(at, 0, << >>)
      BY <2>3, <2>4, IsoBehind
    <3>2. Gives(0, out', TheEntry)
      BY <1>0, <2>1, <2>4, <3>1 DEF Gives
    <3>3. QED
      BY <2>4, <3>2, ReadsAnswer
  <2>5. CASE /\ call.offset < at.size /\ Return(Ok(size), held) /\ UNCHANGED mounted
             /\ out' = [k \in 0..(size - 1) |-> IsoTaken(at, k)]
    <3>1. IsoAnswers(at, size, [k \in 0..(size - 1) |-> IsoTaken(at, k)])
      BY <2>1, <2>2, <2>5, IsoAnswered
    <3> HIDE DEF size
    <3>2. Gives(size, out', TheEntry)
      BY <1>0, <2>1, <2>5, <3>1 DEF Gives
    <3>3. QED
      BY <2>5, <3>2, ReadsAnswer
  <2>6. QED
    BY <1>2, <1>3, <1>14, <2>4, <2>5 DEF iso9660_read_file, IsoTaken
<1>15. CASE iso9660_list_dir
  BY <1>2, <1>5, <1>15 DEF iso9660_list_dir
<1>16. CASE iso9660_list_block
  <2>1. call.op # "read"
    BY <1>16 DEF iso9660_list_block, Typed, CallTyped
  <2>2. QED
    BY <1>2, <1>4, <1>5, <1>16, <2>1 DEF iso9660_list_block
<1>17. CASE iso9660_get_info
  BY <1>2, <1>3, <1>4, <1>17 DEF iso9660_get_info
<1>18. QED
  BY <1>8, <1>9, <1>10, <1>11, <1>12, <1>13, <1>14, <1>15, <1>16, <1>17 DEF iso9660_step

\* A caller's step begins a call with nothing given, or takes an answer.
LEMMA CallsRead ==
  ASSUME Typed, Reads, Call \/ Take
  PROVE  Reads'
<1>1. CASE Take
  BY <1>1 DEF Take, Reads, Reading, Before, ReadEnds, Answered
<1>2. ASSUME NEW op \in {"detect", "mount", "unmount", "read", "list", "info"},
             NEW path, NEW size, NEW offset, Begin(op, path, size, offset)
      PROVE  Reads'
  <2>1. pc' \in {"open", "detect", "mount", "unmount"} /\ out' = << >>
    BY <1>2 DEF Begin, Reads, Reading, Before
  <2>2. QED
    BY <2>1 DEF Reads, Reading, Before, ReadEnds, Answered
<1>3. QED
  BY <1>1, <1>2 DEF Call

\* The drivers are always giving the bytes of the window.
THEOREM VolumesRead == Spec => []Reads
<1>1. Init => Reads
  BY DEF Init, Reads, Reading, Before, ReadEnds, Answered
<1>2. Typed /\ Finds /\ Reads /\ [Next]_vars => Reads'
  <2> SUFFICES ASSUME Typed, Finds, Reads, [Next]_vars PROVE Reads'
    OBVIOUS
  <2>1. CASE Call \/ Take
    BY <2>1, CallsRead
  <2>2. CASE fat32_step
    BY <2>2, FatStepReads
  <2>3. CASE ext2_step
    BY <2>3, Ext2StepReads
  <2>4. CASE iso9660_step
    BY <2>4, IsoStepReads
  <2>5. CASE UNCHANGED vars
    <3>1. UNCHANGED <<disk, mounted, call, pc, at, out, ret, refused>>
      BY <2>5 DEF vars
    <3>2. Reading(pc, at, out)'
      BY <3>1, ReadingKept DEF Reads
    <3>3. vol' = vol /\ TheEntry' = TheEntry
      BY <3>1, EntryKept DEF vol
    <3>4. Gives(ret.value, out, TheEntry)' <=> Gives(ret.value, out, TheEntry)
      BY <3>1, <3>3, ReadingKept
    <3>5. QED
      BY <3>1, <3>2, <3>4 DEF Reads, ReadEnds, Answered
  <2>6. QED
    BY <2>1, <2>2, <2>3, <2>4, <2>5 DEF Next, Step
<1>3. QED
  BY <1>1, <1>2, VolumesTyped, VolumesFind, PTL DEF Spec

\* A read of n bytes gives the n bytes of the file its path stands for, from
\* the offset on, where ReadsTheWindow does not except it.
THEOREM ReadsWindow == Spec => []ReadsTheWindow
<1>1. Typed /\ Reads => ReadsTheWindow
  <2> SUFFICES ASSUME Typed, Reads, Answered("read"), Followed PROVE GivesTheBytes(PathEntry)
    BY DEF ReadsTheWindow
  <2> DEFINE e == TheEntry
  <2>1. PathEntry = e
    BY EndsThere DEF Answered
  <2>2. vol.driver \in {"fat32", "ext2", "iso9660"} /\ Gives(ret.value, out, e)
    BY DiskAssumption DEF Typed, vol, Reads, ReadEnds
  <2> HIDE DEF e
  <2>3. ~Wraps => Most(e.size) = Asked(e.size)
    BY DEF Most
  <2>4. CASE vol.driver = "fat32"
    <3>1. FatAnswers(e, ret.value, out)
      BY <2>2, <2>4 DEF Gives
    <3>2. ~Wraps /\ ~Overflows(e) => FatReads(e)
      BY <2>3, <3>1 DEF FatAnswers, FatReads, FatBytes, FatIndex, Window
    <3>3. QED
      BY <2>1, <2>4, <3>2 DEF GivesTheBytes
  <2>5. CASE vol.driver = "ext2"
    <3>1. Ext2Answers(e, ret.value, out)
      BY <2>2, <2>5 DEF Gives
    <3>2. InTheFirstBlock(Inode(e.inode)) => Ext2Reads(Inode(e.inode))
      BY <3>1 DEF Ext2Answers, Ext2Reads, InTheFirstBlock, Window
    <3>3. QED
      BY <2>1, <2>5, <3>2 DEF GivesTheBytes
  <2>6. CASE vol.driver = "iso9660"
    <3>1. IsoAnswers(e, ret.value, out)
      BY <2>2, <2>6 DEF Gives
    <3>2. ~Wraps => IsoReads(e)
      BY <2>3, <3>1 DEF IsoAnswers, IsoReads, IsoByte, Window
    <3>3. QED
      BY <2>1, <2>6, <3>2 DEF GivesTheBytes
  <2>7. QED
    BY <2>2, <2>4, <2>5, <2>6
<1>2. QED
  BY <1>1, VolumesTyped, VolumesRead, PTL

-----------------------------------------------------------------------------
(* What a listing shows of its entries *)

\* The names that a listing shows are picked.
LEMMA NamesLive ==
  ASSUME NEW s \in Seq(FatEntries)
  PROVE  NamesOf(s, Live) = Picked(s, {e \in FatEntries : Live(e)})
<1> DEFINE H == {e \in FatEntries : Live(e)}
           Made(f) == f = [i \in 0..Len(s) |-> IF i = 0 THEN << >>
                             ELSE IF Live(s[i]) THEN Append(f[i - 1], s[i].name) ELSE f[i - 1]]
           names == CHOOSE f : Made(f)
<1>1. AllNamed(FatEntries, FatNames)
  BY DEF AllNamed, FatEntries
<1>2. PICK f \in [0..Len(s) -> Seq(FatNames)] : Collects(f, s, H)
  BY <1>1, CollectExists
<1>3. Len(s) \in Nat /\ \A i \in 1..Len(s) : s[i] \in H <=> Live(s[i])
  BY LenProperties, ElementOfSeq
<1>4. \A i \in 0..Len(s) : i = 0 \/ (i # 0 /\ i \in 1..Len(s))
  BY <1>3
<1> HIDE DEF H
<1>5. Made(f)
  <2>1. \A i \in 0..Len(s) : f[i] = IF i = 0 THEN << >> ELSE IF Live(s[i]) THEN Append(f[i - 1], s[i].name) ELSE f[i - 1]
    BY <1>2, <1>3, <1>4 DEF Collects
  <2>2. QED
    BY <2>1
<1>6. Made(names)
  <2> HIDE DEF Made
  <2> QED
    BY <1>5, Zenon
<1>7. NamesOf(s, Live) = names[Len(s)]
  BY DEF NamesOf
<1> HIDE DEF names
<1>8. Collects(names, s, H)
  <2>1. \A i \in 0..Len(s) : names[i] = IF i = 0 THEN << >>
           ELSE IF Live(s[i]) THEN Append(names[i - 1], s[i].name) ELSE names[i - 1]
    BY <1>6
  <2>2. 0 \in 0..Len(s) /\ \A i \in 1..Len(s) : i # 0 /\ i \in 0..Len(s)
    BY <1>3
  <2>3. QED
    BY <1>3, <2>1, <2>2 DEF Collects
<1>9. QED
  BY <1>1, <1>7, <1>8, PickedBy DEF H

\* The names that a listing of used entries or of shown records gives are picked.
LEMMA NamesUsed ==
  ASSUME NEW s \in Seq(Ext2Entries)
  PROVE  NamesOf(s, Used) = Picked(s, {e \in Ext2Entries : Used(e)})
<1> DEFINE H == {e \in Ext2Entries : Used(e)}
           Made(f) == f = [i \in 0..Len(s) |-> IF i = 0 THEN << >>
                             ELSE IF Used(s[i]) THEN Append(f[i - 1], s[i].name) ELSE f[i - 1]]
           names == CHOOSE f : Made(f)
<1>1. AllNamed(Ext2Entries, Seq(STRING))
  BY DEF AllNamed, Ext2Entries
<1>2. PICK f \in [0..Len(s) -> Seq(Seq(STRING))] : Collects(f, s, H)
  BY <1>1, CollectExists
<1>3. Len(s) \in Nat /\ \A i \in 1..Len(s) : s[i] \in H <=> Used(s[i])
  BY LenProperties, ElementOfSeq
<1>4. \A i \in 0..Len(s) : i = 0 \/ (i # 0 /\ i \in 1..Len(s))
  BY <1>3
<1> HIDE DEF H
<1>5. Made(f)
  <2>1. \A i \in 0..Len(s) : f[i] = IF i = 0 THEN << >> ELSE IF Used(s[i]) THEN Append(f[i - 1], s[i].name) ELSE f[i - 1]
    BY <1>2, <1>3, <1>4 DEF Collects
  <2>2. QED
    BY <2>1
<1>6. Made(names)
  <2> HIDE DEF Made
  <2> QED
    BY <1>5, Zenon
<1>7. NamesOf(s, Used) = names[Len(s)]
  BY DEF NamesOf
<1> HIDE DEF names
<1>8. Collects(names, s, H)
  <2>1. \A i \in 0..Len(s) : names[i] = IF i = 0 THEN << >>
           ELSE IF Used(s[i]) THEN Append(names[i - 1], s[i].name) ELSE names[i - 1]
    BY <1>6
  <2>2. 0 \in 0..Len(s) /\ \A i \in 1..Len(s) : i # 0 /\ i \in 0..Len(s)
    BY <1>3
  <2>3. QED
    BY <1>3, <2>1, <2>2 DEF Collects
<1>9. QED
  BY <1>1, <1>7, <1>8, PickedBy DEF H

\* So are those of the shown records of an ISO 9660 directory.
LEMMA NamesShown ==
  ASSUME NEW s \in Seq(IsoRecords)
  PROVE  NamesOf(s, Shown) = Picked(s, {r \in IsoRecords : Shown(r)})
<1> DEFINE H == {e \in IsoRecords : Shown(e)}
           Made(f) == f = [i \in 0..Len(s) |-> IF i = 0 THEN << >>
                             ELSE IF Shown(s[i]) THEN Append(f[i - 1], s[i].name) ELSE f[i - 1]]
           names == CHOOSE f : Made(f)
<1>1. AllNamed(IsoRecords, Seq(STRING))
  BY DEF AllNamed, IsoRecords
<1>2. PICK f \in [0..Len(s) -> Seq(Seq(STRING))] : Collects(f, s, H)
  BY <1>1, CollectExists
<1>3. Len(s) \in Nat /\ \A i \in 1..Len(s) : s[i] \in H <=> Shown(s[i])
  BY LenProperties, ElementOfSeq
<1>4. \A i \in 0..Len(s) : i = 0 \/ (i # 0 /\ i \in 1..Len(s))
  BY <1>3
<1> HIDE DEF H
<1>5. Made(f)
  <2>1. \A i \in 0..Len(s) : f[i] = IF i = 0 THEN << >> ELSE IF Shown(s[i]) THEN Append(f[i - 1], s[i].name) ELSE f[i - 1]
    BY <1>2, <1>3, <1>4 DEF Collects
  <2>2. QED
    BY <2>1
<1>6. Made(names)
  <2> HIDE DEF Made
  <2> QED
    BY <1>5, Zenon
<1>7. NamesOf(s, Shown) = names[Len(s)]
  BY DEF NamesOf
<1> HIDE DEF names
<1>8. Collects(names, s, H)
  <2>1. \A i \in 0..Len(s) : names[i] = IF i = 0 THEN << >>
           ELSE IF Shown(s[i]) THEN Append(names[i - 1], s[i].name) ELSE names[i - 1]
    BY <1>6
  <2>2. 0 \in 0..Len(s) /\ \A i \in 1..Len(s) : i # 0 /\ i \in 0..Len(s)
    BY <1>3
  <2>3. QED
    BY <1>3, <2>1, <2>2 DEF Collects
<1>9. QED
  BY <1>1, <1>7, <1>8, PickedBy DEF H

-----------------------------------------------------------------------------
(* A sequence cut to the room there is *)

CutTo(s, k) == SubSeq(s, 1, Smaller(Len(s), k))

\* What is cut is the first elements, as many as there are and as fit.
LEMMA CutToIs ==
  ASSUME NEW N, NEW s \in Seq(N), NEW k \in Nat
  PROVE  /\ CutTo(s, k) \in Seq(N)
         /\ Len(CutTo(s, k)) = Smaller(Len(s), k)
         /\ \A i \in 1..Smaller(Len(s), k) : CutTo(s, k)[i] = s[i]
<1> DEFINE n == Smaller(Len(s), k)
<1>1. Len(s) \in Nat
  BY LenProperties
<1>2. n \in Nat /\ n <= Len(s)
  BY <1>1 DEF Smaller
<1> HIDE DEF n
<1>3. \A i \in 1..n : s[i] \in N
  BY <1>1, <1>2, ElementOfSeq
<1>4. /\ SubSeq(s, 1, n) \in Seq(N)
      /\ Len(SubSeq(s, 1, n)) = IF 1 <= n THEN n - 1 + 1 ELSE 0
      /\ \A i \in 1..(n - 1 + 1) : SubSeq(s, 1, n)[i] = s[1 + i - 1]
  BY <1>2, <1>3, SubSeqProperties
<1>5. Len(SubSeq(s, 1, n)) = n /\ \A i \in 1..n : SubSeq(s, 1, n)[i] = s[i]
  BY <1>2, <1>4
<1>6. QED
  BY <1>4, <1>5 DEF CutTo, n

\* What has room is not cut.
LEMMA CutToAll ==
  ASSUME NEW N, NEW s \in Seq(N), NEW k \in Nat, Len(s) <= k
  PROVE  CutTo(s, k) = s
<1>1. Len(s) \in Nat
  BY LenProperties
<1>2. Smaller(Len(s), k) = Len(s)
  BY <1>1 DEF Smaller
<1>3. QED
  BY <1>2, SubSeqFull DEF CutTo

\* Cutting before more is added or after it is the same.
LEMMA CutOn ==
  ASSUME NEW N, NEW s \in Seq(N), NEW t \in Seq(N), NEW k \in Nat
  PROVE  /\ CutTo(s, k) \o t \in Seq(N)
         /\ CutTo(CutTo(s, k) \o t, k) = CutTo(s \o t, k)
<1> DEFINE c == CutTo(s, k)
           a == c \o t
           b == s \o t
<1>1. Len(s) \in Nat /\ Len(t) \in Nat
  BY LenProperties
<1>2. c \in Seq(N) /\ Len(c) = Smaller(Len(s), k) /\ \A i \in 1..Smaller(Len(s), k) : c[i] = s[i]
  BY CutToIs
<1> HIDE DEF c
<1>3. /\ a \in Seq(N) /\ Len(a) = Len(c) + Len(t)
      /\ \A i \in 1..(Len(c) + Len(t)) : a[i] = IF i <= Len(c) THEN c[i] ELSE t[i - Len(c)]
  BY <1>2, ConcatProperties
<1>4. /\ b \in Seq(N) /\ Len(b) = Len(s) + Len(t)
      /\ \A i \in 1..(Len(s) + Len(t)) : b[i] = IF i <= Len(s) THEN s[i] ELSE t[i - Len(s)]
  BY ConcatProperties
<1> HIDE DEF a, b
<1>5. /\ CutTo(a, k) \in Seq(N) /\ Len(CutTo(a, k)) = Smaller(Len(a), k)
      /\ \A i \in 1..Smaller(Len(a), k) : CutTo(a, k)[i] = a[i]
  BY <1>3, CutToIs
<1>6. /\ CutTo(b, k) \in Seq(N) /\ Len(CutTo(b, k)) = Smaller(Len(b), k)
      /\ \A i \in 1..Smaller(Len(b), k) : CutTo(b, k)[i] = b[i]
  BY <1>4, CutToIs
<1>7. Smaller(Len(a), k) = Smaller(Len(b), k)
  BY <1>1, <1>2, <1>3, <1>4 DEF Smaller
<1>8. \A i \in 1..Smaller(Len(b), k) : a[i] = b[i]
  <2>1. ASSUME NEW i \in 1..Smaller(Len(b), k) PROVE a[i] = b[i]
    <3>1. i \in 1..(Len(s) + Len(t)) /\ i \in 1..(Len(c) + Len(t)) /\ i <= k
      BY <1>1, <1>2, <1>3, <1>4, <1>7, <2>1 DEF Smaller
    <3>2. CASE i <= Len(s)
      <4>1. i \in 1..Smaller(Len(s), k) /\ i <= Len(c)
        BY <1>1, <1>2, <3>1, <3>2 DEF Smaller
      <4>2. a[i] = c[i] /\ b[i] = s[i]
        BY <1>3, <1>4, <3>1, <3>2, <4>1
      <4>3. QED
        BY <1>2, <4>1, <4>2
    <3>3. CASE ~(i <= Len(s))
      <4>1. Len(c) = Len(s) /\ ~(i <= Len(c))
        BY <1>1, <1>2, <3>1, <3>3 DEF Smaller
      <4>2. a[i] = t[i - Len(c)] /\ b[i] = t[i - Len(s)]
        BY <1>3, <1>4, <3>1, <3>3, <4>1
      <4>3. QED
        BY <4>1, <4>2
    <3>4. QED
      BY <3>2, <3>3
  <2>2. QED
    BY <2>1
<1>9. CutTo(a, k) = CutTo(b, k)
  <2> DEFINE x == CutTo(a, k)
             y == CutTo(b, k)
  <2>1. x \in Seq(N) /\ y \in Seq(N) /\ Len(x) = Len(y) /\ \A i \in 1..Len(x) : x[i] = y[i]
    BY <1>5, <1>6, <1>7, <1>8
  <2> HIDE DEF x, y
  <2>2. x = y
    BY <2>1, SeqEqual
  <2>3. QED
    BY <2>2 DEF x, y
<1>10. QED
  BY <1>3, <1>9 DEF a, b, c

\* Where there is no room for more, more changes nothing.
LEMMA CutFull ==
  ASSUME NEW N, NEW s \in Seq(N), NEW t \in Seq(N), NEW k \in Nat, Len(CutTo(s, k)) >= k
  PROVE  CutTo(s \o t, k) = CutTo(s, k)
<1> DEFINE b == s \o t
<1>1. Len(s) \in Nat /\ Len(t) \in Nat
  BY LenProperties
<1>2. /\ b \in Seq(N) /\ Len(b) = Len(s) + Len(t)
      /\ \A i \in 1..(Len(s) + Len(t)) : b[i] = IF i <= Len(s) THEN s[i] ELSE t[i - Len(s)]
  BY ConcatProperties
<1> HIDE DEF b
<1>3. CutTo(s, k) \in Seq(N) /\ Len(CutTo(s, k)) = Smaller(Len(s), k) /\ \A i \in 1..Smaller(Len(s), k) : CutTo(s, k)[i] = s[i]
  BY CutToIs
<1>4. CutTo(b, k) \in Seq(N) /\ Len(CutTo(b, k)) = Smaller(Len(b), k) /\ \A i \in 1..Smaller(Len(b), k) : CutTo(b, k)[i] = b[i]
  BY <1>2, CutToIs
<1>5. Smaller(Len(s), k) = k /\ Smaller(Len(b), k) = k /\ k <= Len(s)
  BY <1>1, <1>2, <1>3 DEF Smaller
<1>6. \A i \in 1..k : b[i] = s[i]
  BY <1>1, <1>2, <1>5
<1>7. CutTo(b, k) = CutTo(s, k)
  <2> DEFINE x == CutTo(b, k)
             y == CutTo(s, k)
  <2>1. x \in Seq(N) /\ y \in Seq(N) /\ Len(x) = Len(y) /\ \A i \in 1..Len(x) : x[i] = y[i]
    BY <1>3, <1>4, <1>5, <1>6
  <2> HIDE DEF x, y
  <2>2. x = y
    BY <2>1, SeqEqual
  <2>3. QED
    BY <2>2 DEF x, y
<1>8. QED
  BY <1>7 DEF b

-----------------------------------------------------------------------------
(* ISO 9660: the listing of a directory *)

IsoShown == {r \in IsoRecords : Shown(r)}

\* The shown names of two lists of records in a row.
LEMMA IsoPicked ==
  ASSUME NEW a \in Seq(IsoRecords), NEW b \in Seq(IsoRecords)
  PROVE  /\ Picked(a, IsoShown) \in Seq(Seq(STRING)) /\ Picked(b, IsoShown) \in Seq(Seq(STRING))
         /\ Picked(a \o b, IsoShown) = Picked(a, IsoShown) \o Picked(b, IsoShown)
<1> DEFINE N == Seq(STRING)
           S == IsoRecords
           H == IsoShown
<1>1. AllNamed(S, N) /\ a \in Seq(S) /\ b \in Seq(S)
  BY DEF AllNamed, IsoRecords
<1> HIDE DEF N, S, H
<1>2. PickedInARow(a, b, H, N)
  BY <1>1, PickedConcat
<1>3. QED
  BY <1>2 DEF N, H, PickedInARow

\* The names of the first m blocks of a directory, as many as there is room for.
IsoNames(e, m) == CutTo(Picked(BlocksFrom(e.extent, m), IsoShown), call.size)

\* The listing of directory e has come behind the first m blocks, unless the
\* offset of its blocks wraps.
IsoListing(e, locals, names) ==
  /\ IsoMounted /\ mounted.block_size # 0 /\ e \in Somewhere /\ call.size \in Nat
  /\ \/ OffsetWraps(e.size)
     \/ \E m \in 0..BlocksOf(e.size) :
          /\ locals = [extent |-> e.extent, size |-> e.size, off |-> mounted.block_size * m]
          /\ names = IsoNames(e, m)

\* What a listing answers.
IsoLists(e, value, names) ==
  \/ OffsetWraps(e.size)
  \/ /\ names = CutTo(NamesOf(DirectoryRecords(e.extent, e.size), Shown), call.size)
     /\ value = Len(names)

\* It begins before the first.
LEMMA IsoListingStarts ==
  ASSUME IsoMounted, mounted.block_size # 0, NEW e \in Somewhere, call.size \in Nat
  PROVE  IsoListing(e, [extent |-> e.extent, size |-> e.size, off |-> 0], << >>)
<1>1. e.size \in Nat /\ mounted.block_size \in Nat
  BY RecordsOf DEF Somewhere
<1>2. 0 \in 0..BlocksOf(e.size) /\ mounted.block_size * 0 = 0
  BY <1>1, BlockCount
<1>3. BlocksFrom(e.extent, 0) = << >>
  <2>1. AllLists(From9660(e.extent), 0, IsoRecords)
    BY DEF AllLists
  <2>2. QED
    BY <2>1, JoinedLists DEF BlocksFrom
<1>4. IsoNames(e, 0) = << >>
  <2>1. AllNamed(IsoRecords, Seq(STRING))
    BY DEF AllNamed, IsoRecords
  <2>2. Picked(<< >>, IsoShown) = << >>
    BY <2>1, PickedNone
  <2> DEFINE none == << >>
             k == call.size
             Names == Seq(STRING)
  <2>3. none \in Seq(Names) /\ Len(none) = 0 /\ k \in Nat
    BY EmptySeq
  <2> HIDE DEF none, k, Names
  <2>4. Len(none) <= k
    BY <2>3
  <2>5. CutTo(none, k) = none
    BY <2>3, <2>4, CutToAll
  <2>6. CutTo(<< >>, call.size) = << >>
    BY <2>5 DEF none, k
  <2>7. QED
    BY <1>3, <2>2, <2>6 DEF IsoNames
<1>5. QED
  BY <1>2, <1>4 DEF IsoListing

\* The names of the first blocks, and what is picked of all of them.
LEMMA IsoNamesOn ==
  ASSUME IsoMounted, NEW e \in Somewhere, call.size \in Nat, NEW m \in 0..BlocksOf(e.size)
  PROVE  /\ IsoNames(e, m) \in Seq(Seq(STRING))
         /\ IsoNames(e, BlocksOf(e.size))
              = CutTo(NamesOf(DirectoryRecords(e.extent, e.size), Shown), call.size)
         /\ Len(IsoNames(e, m)) >= call.size => IsoNames(e, BlocksOf(e.size)) = IsoNames(e, m)
         /\ m < BlocksOf(e.size) =>
              IsoNames(e, m + 1)
                = CutTo(IsoNames(e, m) \o NamesOf(Records(U(e.extent + m)), Shown), call.size)
<1> DEFINE N == BlocksOf(e.size)
           h == From9660(e.extent)
           S == Seq(STRING)
           k == call.size
<1>1. e.size \in Nat /\ N \in Nat /\ m \in Nat /\ AllNamed(IsoRecords, S)
  BY BlockCount DEF Somewhere, AllNamed, IsoRecords
<1>2. /\ DirectoryRecords(e.extent, e.size) = BlocksFrom(e.extent, N)
      /\ AllLists(h, N, IsoRecords) /\ BlocksFrom(e.extent, N) \in Seq(IsoRecords)
  BY <1>1, DirectoryJoined
<1>3. \A n \in 0..N : AllLists(h, n, IsoRecords) /\ n \in Nat
  BY <1>1, <1>2 DEF AllLists
<1> HIDE DEF N, S
<1>4. \A n \in 0..N : BlocksFrom(e.extent, n) \in Seq(IsoRecords)
  BY <1>3, JoinedLists DEF BlocksFrom
<1>5. \A n \in 0..N : Picked(BlocksFrom(e.extent, n), IsoShown) \in Seq(S)
  <2>1. << >> \in Seq(IsoRecords)
    BY EmptySeq
  <2>2. QED
    BY <1>4, <2>1, IsoPicked DEF S
<1>6. IsoNames(e, m) \in Seq(S)
  BY <1>5, CutToIs DEF IsoNames, N
<1>7. IsoNames(e, N) = CutTo(NamesOf(DirectoryRecords(e.extent, e.size), Shown), k)
  <2>1. NamesOf(BlocksFrom(e.extent, N), Shown) = Picked(BlocksFrom(e.extent, N), IsoShown)
    BY <1>2, NamesShown DEF IsoShown
  <2>2. QED
    BY <1>2, <2>1 DEF IsoNames
<1>8. ASSUME Len(IsoNames(e, m)) >= k PROVE IsoNames(e, N) = IsoNames(e, m)
  <2>1. PICK r \in Seq(IsoRecords) : BlocksFrom(e.extent, N) = BlocksFrom(e.extent, m) \o r
    <3>1. Continues(Joined(h, N), Joined(h, m), IsoRecords)
      BY <1>1, <1>2, JoinedPrefix DEF N
    <3>2. QED
      BY <3>1 DEF Continues, BlocksFrom
  <2> DEFINE x == BlocksFrom(e.extent, m)
             a == Picked(x, IsoShown)
             b == Picked(r, IsoShown)
  <2>2. a \in Seq(S) /\ b \in Seq(S) /\ Picked(BlocksFrom(e.extent, N), IsoShown) = a \o b
    <3>1. x \in Seq(IsoRecords)
      BY <1>4 DEF N
    <3> HIDE DEF x
    <3>2. Picked(x, IsoShown) \in Seq(S) /\ Picked(r, IsoShown) \in Seq(S)
          /\ Picked(x \o r, IsoShown) = Picked(x, IsoShown) \o Picked(r, IsoShown)
      BY <2>1, <3>1, IsoPicked DEF S
    <3>3. QED
      BY <2>1, <3>2 DEF x
  <2>3. Len(CutTo(a, k)) >= k
    BY <1>8 DEF IsoNames
  <2> HIDE DEF a, b
  <2>4. CutTo(a \o b, k) = CutTo(a, k)
    BY <2>2, <2>3, CutFull
  <2>5. QED
    BY <2>2, <2>4 DEF IsoNames, a
<1>9. ASSUME m < N
      PROVE  IsoNames(e, m + 1) = CutTo(IsoNames(e, m) \o NamesOf(Records(U(e.extent + m)), Shown), k)
  <2> DEFINE rest == Records(U(e.extent + m))
  <2>1. rest \in Seq(IsoRecords)
    BY RecordsOf
  <2>2. h[m + 1] = rest
    <3>1. m + 1 \in Nat \ {0} /\ e.extent \in Nat /\ e.extent + (m + 1) - 1 = e.extent + m
      BY <1>1 DEF Somewhere
    <3>2. h[m + 1] = Records(U(e.extent + (m + 1) - 1))
      BY <3>1 DEF From9660
    <3>3. QED
      BY <3>1, <3>2
  <2> HIDE DEF rest, h
  <2>3. BlocksFrom(e.extent, m + 1) = BlocksFrom(e.extent, m) \o rest
    <3>1. m + 1 \in 0..N /\ m + 1 > 0 /\ (m + 1) - 1 = m /\ m + 1 \in Nat
      BY <1>1, <1>9
    <3>2. Joined(h, m + 1) = Joined(h, (m + 1) - 1) \o h[m + 1]
      BY <1>3, <3>1, JoinedLists
    <3>3. QED
      BY <2>2, <3>1, <3>2 DEF BlocksFrom, h
  <2> DEFINE x == BlocksFrom(e.extent, m)
             a == Picked(x, IsoShown)
             b == Picked(rest, IsoShown)
  <2>4. a \in Seq(S) /\ b \in Seq(S) /\ Picked(BlocksFrom(e.extent, m + 1), IsoShown) = a \o b
    <3>1. x \in Seq(IsoRecords)
      BY <1>4 DEF N
    <3> HIDE DEF x
    <3>2. Picked(x, IsoShown) \in Seq(S) /\ Picked(rest, IsoShown) \in Seq(S)
          /\ Picked(x \o rest, IsoShown) = Picked(x, IsoShown) \o Picked(rest, IsoShown)
      BY <2>1, <3>1, IsoPicked DEF S
    <3>3. QED
      BY <2>3, <3>2 DEF x
  <2>5. NamesOf(rest, Shown) = b
    BY <2>1, NamesShown DEF IsoShown
  <2> HIDE DEF a, b
  <2>6. CutTo(CutTo(a, k) \o b, k) = CutTo(a \o b, k)
    BY <2>4, CutOn
  <2>7. QED
    BY <2>4, <2>5, <2>6 DEF IsoNames, a, rest
<1>10. QED
  BY <1>6, <1>7, <1>8, <1>9 DEF N, S

\* One block more.
LEMMA IsoListsOn ==
  ASSUME NEW e, IsoListing(e, at, out), at.off < at.size \/ OffsetWraps(e.size)
  PROVE  LET records == Records(U(at.extent + at.off \div mounted.block_size))
         IN  IsoListing(e, [at EXCEPT !.off = U(@ + mounted.block_size)],
                        CutTo(out \o NamesOf(records, Shown), call.size))
<1> DEFINE bs == mounted.block_size
           N == BlocksOf(e.size)
           records == Records(U(at.extent + at.off \div bs))
           locals == [at EXCEPT !.off = U(@ + bs)]
           names == CutTo(out \o NamesOf(records, Shown), call.size)
<1>1. /\ IsoMounted /\ bs \in Nat \ {0} /\ e \in Somewhere /\ call.size \in Nat
      /\ e.size \in 0..(Wrap - 1) /\ e.extent \in Nat /\ Wrap \in Nat \ {0} /\ e.size \in Nat
  BY RecordsOf DEF IsoListing, Somewhere
<1>2. CASE OffsetWraps(e.size)
  BY <1>1, <1>2 DEF IsoListing
<1>3. CASE at.off < at.size /\ ~OffsetWraps(e.size)
  <2>1. PICK m \in 0..N : /\ at = [extent |-> e.extent, size |-> e.size, off |-> bs * m]
                          /\ out = IsoNames(e, m)
    BY <1>3 DEF IsoListing
  <2>2. at.off = bs * m /\ at.size = e.size /\ at.extent = e.extent /\ bs * m < e.size
    BY <1>3, <2>1
  <2>3. N \in Nat /\ m \in Nat /\ m < N
    <3>1. N \in Nat /\ \A q \in Nat : bs * q < e.size <=> q < N
      BY <1>1, BlockCount
    <3>2. QED
      BY <2>2, <3>1
  <2>4. (bs * m) \div bs = m
    <3>1. bs * m \in Nat
      BY <1>1, <2>3
    <3>2. QED
      BY <1>1, <2>2, <2>3, <3>1, BlockAt
  <2>5. names = IsoNames(e, m + 1)
    <3>1. records = Records(U(e.extent + m))
      BY <2>2, <2>4
    <3>2. IsoNames(e, m + 1) = CutTo(IsoNames(e, m) \o NamesOf(Records(U(e.extent + m)), Shown), call.size)
      BY <1>1, <2>3, IsoNamesOn
    <3> HIDE DEF records
    <3>3. QED
      BY <2>1, <3>1, <3>2
  <2>6. U(bs * m + bs) = bs * (m + 1)
    <3>1. bs * m \in Nat /\ bs * (m + 1) = bs * m + bs
      BY <1>1, <2>3
    <3>2. bs * m + bs \in Nat /\ bs * m + bs < Wrap
      <4>1. e.size + bs <= Wrap
        BY <1>1, <1>3 DEF OffsetWraps
      <4>2. QED
        BY <1>1, <2>2, <3>1, <4>1
    <3>3. QED
      BY <1>1, <3>1, <3>2, ModSmall DEF U
  <2>7. locals = [extent |-> e.extent, size |-> e.size, off |-> bs * (m + 1)]
    <3>1. locals = [extent |-> e.extent, size |-> e.size, off |-> U(bs * m + bs)]
      BY <2>1
    <3>2. QED
      BY <2>6, <3>1
  <2>8. m + 1 \in 0..N
    BY <2>3
  <2> HIDE DEF locals, names, records
  <2>9. IsoListing(e, locals, names)
    BY <1>1, <2>5, <2>7, <2>8 DEF IsoListing
  <2>10. QED
    BY <2>9 DEF locals, names, records
<1>4. QED
  BY <1>2, <1>3

\* The listing ends behind the last block or where there is no room.
LEMMA IsoListsAll ==
  ASSUME NEW e, IsoListing(e, at, out), ~(at.off < at.size /\ Len(out) < call.size)
  PROVE  IsoLists(e, Len(out), out)
<1> DEFINE bs == mounted.block_size
           N == BlocksOf(e.size)
<1>1. /\ IsoMounted /\ bs \in Nat \ {0} /\ e \in Somewhere /\ call.size \in Nat
      /\ e.size \in Nat
  BY RecordsOf DEF IsoListing, Somewhere
<1>2. CASE OffsetWraps(e.size)
  BY <1>2 DEF IsoLists
<1>3. CASE ~OffsetWraps(e.size)
  <2>1. PICK m \in 0..N : /\ at = [extent |-> e.extent, size |-> e.size, off |-> bs * m]
                          /\ out = IsoNames(e, m)
    BY <1>3 DEF IsoListing
  <2>2. at.off = bs * m /\ at.size = e.size
    BY <2>1
  <2>3. N \in Nat /\ m \in Nat /\ (bs * m < e.size <=> m < N)
    <3>1. N \in Nat /\ \A q \in Nat : bs * q < e.size <=> q < N
      BY <1>1, BlockCount
    <3>2. m \in Nat
      BY <3>1
    <3>3. QED
      BY <3>1, <3>2
  <2>4. Len(out) \in Nat
    <3>1. out \in Seq(Seq(STRING))
      BY <1>1, <2>1, IsoNamesOn
    <3>2. QED
      BY <3>1, LenProperties
  <2>5. out = IsoNames(e, N)
    <3>1. CASE ~(m < N)
      BY <2>1, <2>3, <3>1
    <3>2. CASE Len(out) >= call.size
      <4>1. Len(IsoNames(e, m)) >= call.size => IsoNames(e, N) = IsoNames(e, m)
        BY <1>1, IsoNamesOn
      <4>2. QED
        BY <2>1, <3>2, <4>1
    <3>3. QED
      BY <1>1, <2>2, <2>3, <2>4, <3>1, <3>2
  <2>6. IsoNames(e, N) = CutTo(NamesOf(DirectoryRecords(e.extent, e.size), Shown), call.size)
    BY <1>1, <2>3, IsoNamesOn
  <2>7. QED
    BY <2>5, <2>6 DEF IsoLists
<1>4. QED
  BY <1>2, <1>3

-----------------------------------------------------------------------------
(* A list and the first of another behind it *)

Onward(b, d, j) == b \o SubSeq(d, 1, j)

\* It grows by one element at a time from the one list to both.
LEMMA OnwardGrows ==
  ASSUME NEW S, NEW b \in Seq(S), NEW d \in Seq(S), NEW j \in 0..Len(d)
  PROVE  /\ Onward(b, d, j) \in Seq(S)
         /\ j = 0 => Onward(b, d, j) = b
         /\ j = Len(d) => Onward(b, d, j) = b \o d
         /\ j < Len(d) => /\ d[j + 1] \in S
                          /\ Onward(b, d, j + 1) = Append(Onward(b, d, j), d[j + 1])
         /\ Continues(b \o d, Onward(b, d, j), S)
<1>1. Len(d) \in Nat /\ j \in Nat
  BY LenProperties
<1>2. \A i \in 0..Len(d) : SubSeq(d, 1, i) \in Seq(S)
  <2>1. ASSUME NEW i \in 0..Len(d) PROVE SubSeq(d, 1, i) \in Seq(S)
    <3>1. \A n \in 1..i : d[n] \in S
      BY <1>1, ElementOfSeq
    <3>2. QED
      BY <1>1, <3>1, SubSeqProperties
  <2>2. QED
    BY <2>1
<1>3. Onward(b, d, j) \in Seq(S)
  BY <1>2, ConcatProperties DEF Onward
<1>4. ASSUME j = 0 PROVE Onward(b, d, j) = b
  <2>1. SubSeq(d, 1, j) = << >>
    BY <1>4, SubSeqEmpty
  <2>2. QED
    BY <2>1, ConcatEmptySeq DEF Onward
<1>5. ASSUME j = Len(d) PROVE Onward(b, d, j) = b \o d
  BY <1>5, SubSeqFull DEF Onward
<1>6. ASSUME j < Len(d)
      PROVE  d[j + 1] \in S /\ Onward(b, d, j + 1) = Append(Onward(b, d, j), d[j + 1])
  <2> DEFINE x == SubSeq(d, 1, j)
             e == d[j + 1]
  <2>1. j + 1 \in 1..Len(d) /\ 1 \in 1..Len(d) /\ (j + 1) - 1 = j /\ j + 1 \in 1..Len(d) /\ j + 1 \in 0..Len(d)
    BY <1>1, <1>6
  <2>2. e \in S
    BY <2>1, ElementOfSeq
  <2>3. SubSeq(d, 1, j + 1) = x \o << e >>
    <3>1. SubSeq(d, 1, j + 1) = SubSeq(d, 1, (j + 1) - 1) \o << d[j + 1] >>
      BY <2>1, SubSeqRecursiveSecond
    <3>2. QED
      BY <2>1, <3>1
  <2>4. x \in Seq(S) /\ << e >> \in Seq(S)
    BY <1>2, <2>2
  <2>5. Onward(b, d, j + 1) = b \o (x \o << e >>) /\ Onward(b, d, j) = b \o x
    BY <2>3 DEF Onward
  <2> HIDE DEF x, e
  <2>6. b \o (x \o << e >>) = (b \o x) \o << e >>
    BY <2>4, ConcatAssociative
  <2>7. Append(b \o x, e) = (b \o x) \o << e >>
    <3>1. b \o x \in Seq(S)
      BY <2>4, ConcatProperties
    <3>2. QED
      BY <2>2, <3>1, AppendIsConcat
  <2>8. QED
    BY <2>2, <2>5, <2>6, <2>7 DEF e
<1>7. Continues(b \o d, Onward(b, d, j), S)
  <2> DEFINE x == SubSeq(d, 1, j)
             r == SubSeq(d, j + 1, Len(d))
  <2>1. r \in Seq(S)
    <3>1. \A n \in (j + 1)..Len(d) : d[n] \in S
      BY <1>1, ElementOfSeq
    <3>2. QED
      BY <1>1, <3>1, SubSeqProperties
  <2>2. x \o r = d
    <3>1. 1 \in 1..(Len(d) + 1) /\ j \in (1 - 1)..Len(d) /\ Len(d) \in j..Len(d)
      BY <1>1
    <3>2. SubSeq(d, 1, j) \o SubSeq(d, j + 1, Len(d)) = SubSeq(d, 1, Len(d))
      BY <3>1, ConcatAdjacentSubSeq
    <3>3. QED
      BY <3>2, SubSeqFull
  <2>3. x \in Seq(S)
    BY <1>2
  <2>4. Onward(b, d, j) = b \o x
    BY DEF Onward
  <2> HIDE DEF x, r
  <2>5. (b \o x) \o r = b \o (x \o r)
    BY <2>1, <2>3, ConcatAssociative
  <2>6. QED
    BY <2>1, <2>2, <2>4, <2>5 DEF Continues
<1>8. QED
  BY <1>3, <1>4, <1>5, <1>6, <1>7

\* The names picked there, as many as there is room for.
Gathered(b, d, j, H, k) == CutTo(Picked(Onward(b, d, j), H), k)

\* All of them once there is no room for more.
GathersAll(b, d, j, H, k) ==
  Len(Gathered(b, d, j, H, k)) >= k => Gathered(b, d, j, H, k) = CutTo(Picked(b \o d, H), k)

\* One more, where there is room.
GathersOn(b, d, j, H, k) ==
  j < Len(d) /\ Len(Gathered(b, d, j, H, k)) < k =>
    Gathered(b, d, j + 1, H, k)
      = IF d[j + 1] \in H THEN Append(Gathered(b, d, j, H, k), d[j + 1].name)
        ELSE Gathered(b, d, j, H, k)

\* The names are gathered entry by entry.
LEMMA GatherNames ==
  ASSUME NEW S, NEW N, NEW H, AllNamed(S, N), NEW b \in Seq(S), NEW d \in Seq(S), NEW k \in Nat,
         NEW j \in 0..Len(d)
  PROVE  /\ Gathered(b, d, j, H, k) \in Seq(N)
         /\ GathersAll(b, d, j, H, k) /\ GathersOn(b, d, j, H, k)
<1> DEFINE w == Onward(b, d, j)
           p == Picked(w, H)
<1>1. w \in Seq(S) /\ j \in Nat
  BY LenProperties, OnwardGrows
<1>2. p \in Seq(N)
  <2> HIDE DEF w
  <2>1. PICK f : Collects(f, w, H)
    BY <1>1, PickedIs
  <2>2. QED
    BY <1>1, <2>1, PickedBy
<1>3. Gathered(b, d, j, H, k) = CutTo(p, k)
  BY DEF Gathered
<1>4. CutTo(p, k) \in Seq(N) /\ Len(CutTo(p, k)) = Smaller(Len(p), k) /\ Len(p) \in Nat
  <2> HIDE DEF p
  <2> QED
    BY <1>2, CutToIs, LenProperties
<1>5. GathersAll(b, d, j, H, k)
  <2>1. SUFFICES ASSUME Len(CutTo(p, k)) >= k PROVE CutTo(p, k) = CutTo(Picked(b \o d, H), k)
    BY <1>3 DEF GathersAll
  <2>2. PICK r \in Seq(S) : b \o d = w \o r
    <3>1. Continues(b \o d, w, S)
      BY OnwardGrows
    <3>2. QED
      BY <3>1 DEF Continues
  <2> HIDE DEF w
  <2>3. PickedInARow(w, r, H, N)
    BY <1>1, <2>2, PickedConcat
  <2>4. Picked(r, H) \in Seq(N) /\ Picked(b \o d, H) = p \o Picked(r, H)
    BY <2>2, <2>3 DEF PickedInARow
  <2> DEFINE t == Picked(r, H)
  <2> HIDE DEF p, t
  <2>5. CutTo(p \o t, k) = CutTo(p, k)
    BY <1>2, <2>1, <2>4, CutFull DEF t
  <2>6. QED
    BY <2>4, <2>5 DEF t
<1>6. GathersOn(b, d, j, H, k)
  <2>1. SUFFICES ASSUME j < Len(d), Len(CutTo(p, k)) < k
                 PROVE  Gathered(b, d, j + 1, H, k)
                          = IF d[j + 1] \in H THEN Append(CutTo(p, k), d[j + 1].name) ELSE CutTo(p, k)
    BY <1>3 DEF GathersOn
  <2> DEFINE e == d[j + 1]
  <2>2. e \in S /\ Onward(b, d, j + 1) = Append(w, e)
    BY <2>1, OnwardGrows
  <2>3. Len(p) < k /\ Len(p) <= k
    <3> HIDE DEF p
    <3> QED
      BY <1>4, <2>1 DEF Smaller
  <2> HIDE DEF e, w
  <2>4. Picked(Append(w, e), H) = IF e \in H THEN Append(p, e.name) ELSE p
    <3>1. PickedWith(w, e, H, N)
      BY <1>1, <2>2, PickedAppend
    <3>2. QED
      BY <3>1 DEF PickedWith
  <2> HIDE DEF p
  <2>5. CutTo(p, k) = p
    BY <1>2, <2>3, CutToAll
  <2>6. Gathered(b, d, j + 1, H, k) = CutTo(IF e \in H THEN Append(p, e.name) ELSE p, k)
    BY <2>2, <2>4 DEF Gathered
  <2>7. CASE e \in H
    <3> DEFINE q == Append(p, e.name)
    <3>1. e.name \in N
      BY <2>2 DEF AllNamed
    <3>2. q \in Seq(N) /\ Len(q) = Len(p) + 1
      BY <1>2, <3>1, AppendProperties
    <3>3. Len(q) <= k
      BY <1>4, <2>3, <3>2
    <3> HIDE DEF q
    <3>4. CutTo(q, k) = q
      BY <3>2, <3>3, CutToAll
    <3>5. QED
      BY <2>5, <2>6, <2>7, <3>4 DEF q, e
  <2>8. CASE e \notin H
    BY <2>5, <2>6, <2>8 DEF e
  <2>9. QED
    BY <2>7, <2>8
<1>7. QED
  BY <1>3, <1>4, <1>5, <1>6

-----------------------------------------------------------------------------
(* ext2: the listing of a directory *)

Ext2Shown == {e \in Ext2Entries : Used(e)}

\* An entry of a block is one, or zeros.
LEMMA EntryIs ==
  ASSUME Ext2Mounted, NEW b, NEW o \in 0..(mounted.block_size - 1)
  PROVE  Entry(b, o) \in Ext2Entries
<1>1. Ext2Volume(vol)
  BY Ext2Assumption DEF Ext2Mounted, vol
<1>2. CASE b \in DOMAIN vol.dirs
  <2>1. vol.dirs[b] \in [0..(vol.block_size - 1) -> Ext2Entries]
    BY <1>1, <1>2 DEF Ext2Volume
  <2>2. vol.dirs[b][o] \in Ext2Entries
    BY <2>1 DEF Ext2Mounted
  <2>3. QED
    BY <1>2, <2>2 DEF Entry
<1>3. CASE b \notin DOMAIN vol.dirs
  <2>1. << >> \in Seq(STRING)
    BY EmptySeq
  <2>2. QED
    BY <1>3, <2>1 DEF Entry, NoEntry, Ext2Entries
<1>4. QED
  BY <1>2, <1>3

\* A block of a directory is a list of entries.
LEMMA Ext2DirectoryIs ==
  ASSUME Ext2Mounted, NEW b
  PROVE  Ext2Directory(b) \in Seq(Ext2Entries) /\ Len(Ext2Directory(b)) = Len(Places(b))
<1> DEFINE d == Ext2Directory(b)
           n == Len(Places(b))
<1>1. n \in Nat /\ DOMAIN Places(b) = 1..n
  BY DirectoryOf
<1>2. \A i \in 1..n : d[i] = Entry(b, Places(b)[i]) /\ Places(b)[i] \in 0..(mounted.block_size - 1)
  BY DirectoryOf
<1>3. \A i \in 1..n : d[i] \in Ext2Entries
  BY <1>2, EntryIs
<1>4. d = [i \in 1..n |-> d[i]]
  BY <1>1 DEF Ext2Directory
<1> HIDE DEF d, n
<1>5. d \in [1..n -> Ext2Entries]
  BY <1>3, <1>4
<1>6. d \in Seq(Ext2Entries) /\ Len(d) = n
  BY <1>1, <1>5
<1>7. QED
  BY <1>6 DEF d, n

\* The entries of the first n blocks, and their names.
Ext2Blocks(block) == [i \in Nat \ {0} |-> Ext2Directory(block[i])]
Ext2First(block, n) == Joined(Ext2Blocks(block), n)

\* They are entries, block by block, and named.
LEMMA Ext2FirstIs ==
  ASSUME Ext2Mounted, NEW block, NEW n \in Nat
  PROVE  /\ n = 0 => Ext2First(block, n) = << >>
         /\ Ext2First(block, n) \in Seq(Ext2Entries)
         /\ Ext2First(block, n + 1) = Ext2First(block, n) \o Ext2Directory(block[n + 1])
         /\ Ext2Directory(block[n + 1]) \in Seq(Ext2Entries)
<1> DEFINE h == Ext2Blocks(block)
<1>1. \A i \in Nat \ {0} : h[i] = Ext2Directory(block[i])
  BY DEF Ext2Blocks
<1>2. \A i \in Nat \ {0} : h[i] \in Seq(Ext2Entries)
  BY <1>1, Ext2DirectoryIs
<1> HIDE DEF h
<1>3. AllLists(h, n, Ext2Entries) /\ AllLists(h, n + 1, Ext2Entries)
  BY <1>2 DEF AllLists
<1>4. n = 0 => Joined(h, n) = << >>
  BY <1>3, JoinedLists
<1>5. Joined(h, n) \in Seq(Ext2Entries)
  BY <1>3, JoinedLists
<1>6. Joined(h, n + 1) = Joined(h, n) \o h[n + 1]
  <2>1. n + 1 \in Nat /\ n + 1 > 0 /\ (n + 1) - 1 = n
    OBVIOUS
  <2>2. Joined(h, n + 1) = Joined(h, (n + 1) - 1) \o h[n + 1]
    BY <1>3, <2>1, JoinedLists
  <2>3. QED
    BY <2>1, <2>2
<1>7. h[n + 1] = Ext2Directory(block[n + 1]) /\ h[n + 1] \in Seq(Ext2Entries)
  BY <1>1, <1>2
<1>8. QED
  BY <1>4, <1>5, <1>6, <1>7 DEF Ext2First, h

\* The listing is behind the first n blocks.
Ext2Behind(block, n, locals, names) ==
  /\ n \in 0..Direct /\ \A i \in 1..n : block[i] # 0
  /\ \E o \in Nat : locals = [block |-> block, i |-> n + 1, offset |-> o]
  /\ names = CutTo(Picked(Ext2First(block, n), Ext2Shown), call.size)

\* It is in the block behind them, behind its j-th entry.
Ext2Within(block, n, j, locals, names) ==
  LET b == block[n + 1]
      p == Places(b)
  IN  /\ n \in 0..(Direct - 1) /\ \A i \in 1..(n + 1) : block[i] # 0
      /\ j \in 0..Len(p)
      /\ \E o \in Nat : /\ locals = [block |-> block, i |-> n + 1, offset |-> o]
                        /\ j < Len(p) => o = p[j + 1]
                        /\ j = Len(p) => o >= mounted.block_size
      /\ names = Gathered(Ext2First(block, n), Ext2Directory(b), j, Ext2Shown, call.size)

\* The listing of directory e.
Ext2ListingIn(e, loop, locals, names) ==
  LET block == Inode(e.inode).block
  IN  /\ Ext2Mounted /\ call.size \in Nat
      /\ loop = "block" => \E n : Ext2Behind(block, n, locals, names)
      /\ loop = "record" => \E n, j : Ext2Within(block, n, j, locals, names)

\* What it answers.
Ext2Lists(e, value, names) ==
  /\ names = CutTo(NamesOf(Ext2Listing(Inode(e.inode).block), Used), call.size)
  /\ value = Len(names)

\* It begins before the first block.
LEMMA Ext2ListingStarts ==
  ASSUME Ext2Mounted, NEW e, call.size \in Nat
  PROVE  Ext2ListingIn(e, "block", [block |-> Inode(e.inode).block, i |-> 1, offset |-> 0], << >>)
<1> DEFINE block == Inode(e.inode).block
           k == call.size
           none == << >>
           N == Seq(STRING)
<1>1. Ext2First(block, 0) = none
  BY Ext2FirstIs
<1>2. Picked(none, Ext2Shown) = none
  <2>1. AllNamed(Ext2Entries, Seq(STRING))
    BY DEF AllNamed, Ext2Entries
  <2>2. QED
    BY <2>1, PickedNone
<1>3. none \in Seq(N) /\ Len(none) = 0 /\ k \in Nat
  BY EmptySeq
<1>4. CutTo(none, k) = none
  <2> HIDE DEF none, k, N
  <2>1. Len(none) <= k
    BY <1>3
  <2>2. QED
    BY <1>3, <2>1, CutToAll
<1>5. 0 \in 0..Direct /\ 1..0 = {} /\ 0 + 1 = 1 /\ 0 \in Nat
  BY Ext2Assumption
<1> HIDE DEF block
<1>6. Ext2Behind(block, 0, [block |-> block, i |-> 1, offset |-> 0], none)
  BY <1>1, <1>2, <1>4, <1>5 DEF Ext2Behind
<1>7. QED
  BY <1>6 DEF Ext2ListingIn, block

\* A block is entered before its first entry.
LEMMA Ext2ListsBlock ==
  ASSUME NEW e, Ext2ListingIn(e, "block", at, out), at.i <= Direct, at.block[at.i] # 0
  PROVE  Ext2ListingIn(e, "record", [at EXCEPT !.offset = 0], out)
<1> DEFINE block == Inode(e.inode).block
<1>1. Ext2Mounted /\ call.size \in Nat /\ Direct \in Nat \ {0}
  BY Ext2Assumption DEF Ext2ListingIn
<1>2. PICK n : Ext2Behind(block, n, at, out)
  BY DEF Ext2ListingIn
<1> HIDE DEF block
<1>3. PICK o \in Nat : at = [block |-> block, i |-> n + 1, offset |-> o]
  BY <1>2 DEF Ext2Behind
<1>4. /\ n \in 0..Direct /\ (\A i \in 1..n : block[i] # 0) /\ at.i = n + 1 /\ at.block = block
      /\ out = CutTo(Picked(Ext2First(block, n), Ext2Shown), call.size)
  BY <1>2, <1>3 DEF Ext2Behind
<1>5. n \in 0..(Direct - 1) /\ n \in Nat /\ \A i \in 1..(n + 1) : block[i] # 0
  <2>1. n \in 0..(Direct - 1) /\ n \in Nat /\ block[n + 1] # 0
    BY <1>1, <1>4
  <2>2. \A i \in 1..(n + 1) : i \in 1..n \/ i = n + 1
    BY <2>1
  <2>3. QED
    BY <1>4, <2>1, <2>2
<1> DEFINE b == block[n + 1]
           d == Ext2Directory(b)
<1>6. /\ Len(Places(b)) \in Nat /\ Len(Places(b)) >= 1 /\ Places(b)[1] = 0
      /\ d \in Seq(Ext2Entries) /\ Len(d) = Len(Places(b))
  BY <1>1, DirectoryOf, PlacesComplete, Ext2DirectoryIs DEF Complete, Follow
<1>7. out = Gathered(Ext2First(block, n), d, 0, Ext2Shown, call.size)
  <2>1. Ext2First(block, n) \in Seq(Ext2Entries)
    BY <1>1, <1>5, Ext2FirstIs
  <2> HIDE DEF d
  <2>2. 0 \in 0..Len(d)
    BY <1>6
  <2>3. Onward(Ext2First(block, n), d, 0) = Ext2First(block, n)
    BY <1>6, <2>1, <2>2, OnwardGrows
  <2>4. QED
    BY <1>4, <2>3 DEF Gathered
<1>8. [at EXCEPT !.offset = 0] = [block |-> block, i |-> n + 1, offset |-> 0]
  BY <1>3
<1>9. Ext2Within(block, n, 0, [at EXCEPT !.offset = 0], out)
  <2>1. 0 \in 0..Len(Places(b)) /\ 0 # Len(Places(b)) /\ Places(b)[0 + 1] = 0 /\ 0 \in Nat
    BY <1>6
  <2>2. QED
    BY <1>5, <1>7, <1>8, <2>1 DEF Ext2Within
<1>10. QED
  BY <1>1, <1>9 DEF Ext2ListingIn, block

\* The listing ends behind the last block.
LEMMA Ext2ListsAll ==
  ASSUME NEW e, Ext2ListingIn(e, "block", at, out), ~(at.i <= Direct /\ at.block[at.i] # 0)
  PROVE  Ext2Lists(e, Len(out), out)
<1> DEFINE block == Inode(e.inode).block
           zeros == {i \in 1..Direct : block[i] = 0}
<1>1. Ext2Mounted /\ call.size \in Nat /\ Direct \in Nat \ {0}
  BY Ext2Assumption DEF Ext2ListingIn
<1>2. PICK n : Ext2Behind(block, n, at, out)
  BY DEF Ext2ListingIn
<1> HIDE DEF block
<1>3. /\ n \in 0..Direct /\ (\A i \in 1..n : block[i] # 0) /\ at.i = n + 1 /\ at.block = block
      /\ out = CutTo(Picked(Ext2First(block, n), Ext2Shown), call.size)
  BY <1>2 DEF Ext2Behind
<1>4. n \in Nat /\ LeastOr(zeros, Direct + 1) = n + 1
  <2>1. CASE n = Direct
    <3>1. zeros = {}
      BY <1>3, <2>1
    <3>2. QED
      BY <1>1, <2>1, <3>1 DEF LeastOr
  <2>2. CASE n # Direct
    <3>1. n + 1 \in 1..Direct /\ block[n + 1] = 0 /\ n \in Nat
      BY <1>1, <1>3, <2>2
    <3>2. n + 1 \in zeros /\ zeros \subseteq Nat
      BY <3>1
    <3>3. \A i \in zeros : n + 1 <= i
      BY <1>1, <1>3, <3>1
    <3> HIDE DEF zeros
    <3>4. Least(zeros) = n + 1 /\ zeros # {}
      BY <3>2, <3>3, LeastIs
    <3>5. QED
      BY <3>1, <3>4 DEF LeastOr
  <2>3. QED
    BY <2>1, <2>2
<1>5. Ext2Listing(block) = Ext2First(block, n)
  <2>1. LeastOr(zeros, Direct + 1) - 1 = n
    BY <1>4
  <2>2. Ext2Listing(block) = FlattenSeq([i \in 1..n |-> Ext2Directory(block[i])])
    BY <2>1 DEF Ext2Listing, DirectoryBlocks
  <2>3. [i \in 1..n |-> Ext2Blocks(block)[i]] = [i \in 1..n |-> Ext2Directory(block[i])]
    <3>1. \A i \in 1..n : i \in Nat \ {0}
      BY <1>4
    <3>2. QED
      BY <3>1 DEF Ext2Blocks
  <2>4. QED
    BY <2>2, <2>3 DEF Ext2First, Joined
<1>6. NamesOf(Ext2First(block, n), Used) = Picked(Ext2First(block, n), Ext2Shown)
  <2>1. Ext2First(block, n) \in Seq(Ext2Entries)
    BY <1>1, <1>4, Ext2FirstIs
  <2>2. QED
    BY <2>1, NamesUsed DEF Ext2Shown
<1>7. QED
  BY <1>3, <1>5, <1>6 DEF Ext2Lists, block

\* The next block is next where the block ends or the room.
LEMMA Ext2ListsNext ==
  ASSUME NEW e, NEW block, NEW n, NEW j, Ext2Mounted, call.size \in Nat, block = Inode(e.inode).block,
         NEW names, Ext2Within(block, n, j, at, names),
         j = Len(Places(block[n + 1])) \/ Len(names) >= call.size
  PROVE  Ext2ListingIn(e, "block", [at EXCEPT !.i = @ + 1], names)
<1> DEFINE b == block[n + 1]
           d == Ext2Directory(b)
           f == Ext2First(block, n)
           k == call.size
<1>1. Direct \in Nat \ {0}
  BY Ext2Assumption
<1>2. /\ n \in 0..(Direct - 1) /\ (\A i \in 1..(n + 1) : block[i] # 0)
      /\ j \in 0..Len(Places(b))
      /\ names = Gathered(f, d, j, Ext2Shown, k)
  BY DEF Ext2Within
<1>3. PICK o \in Nat : at = [block |-> block, i |-> n + 1, offset |-> o]
  BY DEF Ext2Within
<1>4. [at EXCEPT !.i = @ + 1] = [block |-> block, i |-> (n + 1) + 1, offset |-> o]
  BY <1>3
<1>5. n \in Nat /\ n + 1 \in 0..Direct
  BY <1>1, <1>2
<1>6. Ext2First(block, n + 1) = f \o d /\ f \in Seq(Ext2Entries) /\ d \in Seq(Ext2Entries)
  BY <1>5, Ext2FirstIs
<1>7. Len(d) = Len(Places(b)) /\ AllNamed(Ext2Entries, Seq(STRING))
  BY Ext2DirectoryIs DEF AllNamed, Ext2Entries
<1>8. names = CutTo(Picked(f \o d, Ext2Shown), k)
  <2> HIDE DEF f, d, k, b
  <2>1. CASE j = Len(Places(b))
    <3>1. Onward(f, d, j) = f \o d
      <4>1. j \in 0..Len(d) /\ j = Len(d)
        BY <1>2, <1>7, <2>1
      <4>2. f \in Seq(Ext2Entries) /\ d \in Seq(Ext2Entries)
        BY <1>6
      <4>3. QED
        BY <4>1, <4>2, SubSeqFull DEF Onward
    <3>2. QED
      BY <1>2, <3>1 DEF Gathered
  <2>2. CASE Len(names) >= k
    <3>1. GathersAll(f, d, j, Ext2Shown, k)
      <4>1. k \in Nat /\ j \in 0..Len(d)
        BY <1>2, <1>7 DEF k
      <4>2. QED
        BY <1>6, <1>7, <4>1, GatherNames
    <3>2. QED
      BY <1>2, <2>2, <3>1 DEF GathersAll
  <2>3. QED
    BY <2>1, <2>2 DEF b, k
<1>9. Ext2Behind(block, n + 1, [at EXCEPT !.i = @ + 1], names)
  BY <1>2, <1>4, <1>5, <1>6, <1>8 DEF Ext2Behind
<1>10. QED
  BY <1>9 DEF Ext2ListingIn

\* One entry of a block.
LEMMA Ext2ListsEntry ==
  ASSUME NEW e, Ext2ListingIn(e, "record", at, out)
  PROVE  LET more == at.offset < mounted.block_size /\ Len(out) < call.size
             r == Entry(at.block[at.i], at.offset)
             onward == [at EXCEPT !.offset = @ + r.rec_len]
             next == [at EXCEPT !.i = @ + 1]
         IN  /\ ~more => Ext2ListingIn(e, "block", next, out)
             /\ more /\ r.inode = 0 => Ext2ListingIn(e, "record", onward, out)
             /\ more /\ r.inode # 0 /\ r.rec_len = 0 => Ext2ListingIn(e, "block", next, Append(out, r.name))
             /\ more /\ r.inode # 0 /\ r.rec_len # 0 => Ext2ListingIn(e, "record", onward, Append(out, r.name))
<1> DEFINE block == Inode(e.inode).block
           r == Entry(at.block[at.i], at.offset)
           onward == [at EXCEPT !.offset = @ + r.rec_len]
           next == [at EXCEPT !.i = @ + 1]
           more == at.offset < mounted.block_size /\ Len(out) < call.size
           k == call.size
           B == mounted.block_size
<1>1. Ext2Mounted /\ call.size \in Nat /\ Direct \in Nat \ {0}
  BY Ext2Assumption DEF Ext2ListingIn
<1>2. PICK n, j : Ext2Within(block, n, j, at, out)
  BY DEF Ext2ListingIn
<1> DEFINE b == block[n + 1]
           d == Ext2Directory(b)
           f == Ext2First(block, n)
           p == Places(b)
           m == Len(p)
<1>3. /\ n \in 0..(Direct - 1) /\ (\A i \in 1..(n + 1) : block[i] # 0) /\ j \in 0..m
      /\ out = Gathered(f, d, j, Ext2Shown, k)
  <2> HIDE DEF block
  <2> QED
    BY <1>2 DEF Ext2Within
<1>4. PICK o \in Nat : /\ at = [block |-> block, i |-> n + 1, offset |-> o]
                       /\ j < m => o = p[j + 1]
                       /\ j = m => o >= B
  <2> HIDE DEF block
  <2> QED
    BY <1>2 DEF Ext2Within
<1>5. at.offset = o /\ r = Entry(b, o) /\ B \in Nat /\ m \in Nat /\ m >= 1
  <2>1. m \in Nat /\ m >= 1
    BY <1>1, DirectoryOf
  <2>2. B \in Nat
    BY <1>1 DEF Ext2Mounted
  <2> HIDE DEF block, m
  <2>3. QED
    BY <1>4, <2>1, <2>2
<1>6. /\ f \in Seq(Ext2Entries) /\ d \in Seq(Ext2Entries) /\ Len(d) = m
      /\ AllNamed(Ext2Entries, Seq(STRING))
  <2>1. n \in Nat
    BY <1>3
  <2>2. QED
    BY <1>1, <2>1, Ext2FirstIs, Ext2DirectoryIs DEF AllNamed, Ext2Entries
<1> HIDE DEF block
<1>7. Len(out) \in Nat /\ GathersOn(f, d, j, Ext2Shown, k)
  <2>1. j \in 0..Len(d) /\ k \in Nat
    BY <1>1, <1>3, <1>6
  <2> HIDE DEF f, d, k
  <2>2. Gathered(f, d, j, Ext2Shown, k) \in Seq(Seq(STRING)) /\ GathersOn(f, d, j, Ext2Shown, k)
    BY <1>6, <2>1, GatherNames
  <2>3. QED
    BY <1>3, <2>2, LenProperties
<1>8. ASSUME ~more PROVE Ext2ListingIn(e, "block", next, out)
  <2>1. j = m \/ Len(out) >= k
    <3>1. CASE j = m
      BY <3>1
    <3>2. CASE j < m
      <4>1. o = p[j + 1] /\ j + 1 \in 1..m
        BY <1>3, <1>4, <1>5, <3>2
      <4>2. p[j + 1] \in 0..(B - 1)
        BY <1>1, <4>1, DirectoryOf
      <4>3. o < B
        <5> HIDE DEF p, B
        <5> QED
          BY <1>5, <4>1, <4>2
      <4>4. QED
        BY <1>1, <1>5, <1>7, <1>8, <4>3
    <3>3. QED
      BY <1>3, <1>5, <3>1, <3>2
  <2> HIDE DEF next
  <2>2. QED
    BY <1>1, <1>2, <2>1, Ext2ListsNext DEF next, block
<1>9. ASSUME more
      PROVE  /\ j < m /\ o = p[j + 1] /\ j + 1 \in 0..m /\ d[j + 1] = r /\ r \in Ext2Entries
             /\ Gathered(f, d, j + 1, Ext2Shown, k) = IF r.inode # 0 THEN Append(out, r.name) ELSE out
             /\ r.rec_len \in Nat /\ o + r.rec_len \in Nat
             /\ r.rec_len = 0 => j + 1 = m
             /\ r.rec_len # 0 /\ j + 1 < m => o + r.rec_len = p[j + 2]
             /\ r.rec_len # 0 /\ j + 1 = m => o + r.rec_len >= B
  <2>1. j < m /\ o = p[j + 1] /\ j + 1 \in 1..m /\ j \in Nat
    <3> HIDE DEF m, p, B
    <3>1. ~(o >= B)
      BY <1>5, <1>9 DEF B
    <3>2. QED
      BY <1>3, <1>4, <1>5, <3>1
  <2>2. d[j + 1] = r /\ o \in 0..(B - 1)
    <3>1. p[j + 1] \in 0..(B - 1) /\ d[j + 1] = Entry(b, p[j + 1])
      BY <1>1, <2>1, DirectoryOf
    <3>2. QED
      BY <1>5, <2>1, <3>1
  <2>3. r \in Ext2Entries
    BY <1>1, <1>5, <2>2, EntryIs
  <2>4. r.rec_len \in Nat /\ r.inode \in Nat
    <3> HIDE DEF r
    <3> QED
      BY <2>3 DEF Ext2Entries
  <2>5. /\ \A i \in 1..(m - 1) : p[i] < p[i + 1] /\ p[i + 1] = p[i] + Entry(b, p[i]).rec_len
        /\ p[m] >= p[m] + Entry(b, p[m]).rec_len \/ p[m] + Entry(b, p[m]).rec_len >= B
    BY <1>1, PlacesComplete DEF Complete, Follow
  <2>6. Gathered(f, d, j + 1, Ext2Shown, k) = IF r.inode # 0 THEN Append(out, r.name) ELSE out
    <3>1. r \in Ext2Shown <=> r.inode # 0
      <4> HIDE DEF r
      <4> QED
        BY <2>3 DEF Ext2Shown, Used
    <3>2. j < Len(d) /\ Len(Gathered(f, d, j, Ext2Shown, k)) < k
      BY <1>3, <1>6, <1>9, <2>1
    <3> HIDE DEF f, d, k, r
    <3>3. Gathered(f, d, j + 1, Ext2Shown, k)
            = IF d[j + 1] \in Ext2Shown THEN Append(Gathered(f, d, j, Ext2Shown, k), d[j + 1].name)
              ELSE Gathered(f, d, j, Ext2Shown, k)
      BY <1>7, <3>2 DEF GathersOn
    <3>4. QED
      BY <1>3, <2>2, <3>1, <3>3
  <2>7. Entry(b, p[j + 1]) = r
    BY <1>5, <2>1
  <2> DEFINE len == r.rec_len
  <2>8. CASE j + 1 = m
    <3>1. o >= o + len \/ o + len >= B
      <4> HIDE DEF r, p, m
      <4> QED
        BY <2>1, <2>5, <2>7, <2>8
    <3> HIDE DEF len, m, B, r
    <3>2. len \in Nat
      BY <2>4 DEF len
    <3>3. len # 0 => o + len >= B
      BY <1>5, <3>1, <3>2
    <3>4. QED
      BY <1>5, <2>1, <2>2, <2>3, <2>6, <2>8, <3>2, <3>3 DEF len
  <2>9. CASE j + 1 < m
    <3>1. j + 1 \in 1..(m - 1) /\ (j + 1) + 1 = j + 2
      <4> HIDE DEF m
      <4> QED
        BY <1>5, <2>1, <2>9
    <3>2. o < p[j + 2] /\ p[j + 2] = o + len
      <4> HIDE DEF r, p, m, b
      <4>1. p[j + 1] < p[(j + 1) + 1] /\ p[(j + 1) + 1] = p[j + 1] + Entry(b, p[j + 1]).rec_len
        BY <2>5, <3>1
      <4>2. QED
        BY <2>1, <2>7, <3>1, <4>1
    <3> HIDE DEF len, m, B, r, p
    <3>3. len \in Nat
      BY <2>4 DEF len
    <3>4. len # 0
      BY <3>2, <3>3
    <3>5. QED
      BY <1>5, <2>1, <2>2, <2>3, <2>6, <2>9, <3>2, <3>3, <3>4 DEF len
  <2>10. QED
    <3> HIDE DEF m
    <3> QED
      BY <1>5, <2>1, <2>8, <2>9
<1>10. ASSUME more, r.rec_len # 0, NEW names, names = Gathered(f, d, j + 1, Ext2Shown, k)
       PROVE  Ext2ListingIn(e, "record", onward, names)
  <2>1. onward = [block |-> block, i |-> n + 1, offset |-> o + r.rec_len]
    <3> HIDE DEF r
    <3> QED
      BY <1>4
  <2>2. /\ o + r.rec_len \in Nat /\ j + 1 \in 0..m
        /\ j + 1 < m => o + r.rec_len = p[(j + 1) + 1]
        /\ j + 1 = m => o + r.rec_len >= B
    <3>1. (j + 1) + 1 = j + 2
      BY <1>3
    <3> HIDE DEF r, p, m, B, d, f
    <3>2. QED
      BY <1>9, <1>10, <3>1
  <2> HIDE DEF onward, r
  <2>3. Ext2Within(block, n, j + 1, onward, names)
    BY <1>3, <1>10, <2>1, <2>2 DEF Ext2Within
  <2>4. QED
    BY <1>1, <2>3 DEF Ext2ListingIn, block
<1>11. ASSUME more, r.inode = 0 PROVE Ext2ListingIn(e, "record", onward, out)
  <2>1. CASE r.rec_len # 0
    <3>1. out = Gathered(f, d, j + 1, Ext2Shown, k)
      <4> HIDE DEF r, f, d, p, m, B, k
      <4> QED
        BY <1>9, <1>11
    <3>2. QED
      BY <1>10, <1>11, <2>1, <3>1
  <2>2. CASE r.rec_len = 0
    <3>1. onward = at
      <4>1. onward = [block |-> block, i |-> n + 1, offset |-> o + r.rec_len]
        <5> HIDE DEF r
        <5> QED
          BY <1>4
      <4>2. o + r.rec_len = o
        <5> HIDE DEF r
        <5> QED
          BY <2>2
      <4>3. QED
        BY <1>4, <4>1, <4>2
    <3>2. QED
      BY <3>1
  <2>3. QED
    BY <2>1, <2>2
<1>12. ASSUME more, r.inode # 0, r.rec_len # 0 PROVE Ext2ListingIn(e, "record", onward, Append(out, r.name))
  <2>1. Append(out, r.name) = Gathered(f, d, j + 1, Ext2Shown, k)
    <3> HIDE DEF r, f, d, p, m, B, k
    <3> QED
      BY <1>9, <1>12
  <2> HIDE DEF onward
  <2>2. QED
    BY <1>10, <1>12, <2>1
<1>13. ASSUME more, r.inode # 0, r.rec_len = 0 PROVE Ext2ListingIn(e, "block", next, Append(out, r.name))
  <2> DEFINE names == Append(out, r.name)
  <2>1. names = Gathered(f, d, j + 1, Ext2Shown, k) /\ j + 1 = m
    <3> HIDE DEF r, f, d, p, m, B, k
    <3> QED
      BY <1>9, <1>13
  <2> HIDE DEF names
  <2>2. Ext2Behind(block, n + 1, next, names)
    <3>1. next = [block |-> block, i |-> (n + 1) + 1, offset |-> o]
      BY <1>4
    <3>2. names = CutTo(Picked(f \o d, Ext2Shown), k)
      <4> HIDE DEF f, d, m, k
      <4>1. Onward(f, d, j + 1) = f \o d
        <5>1. j + 1 \in 0..Len(d) /\ j + 1 = Len(d)
          BY <1>5, <1>6, <2>1
        <5>2. QED
          BY <1>6, <5>1, OnwardGrows
      <4>2. QED
        BY <2>1, <4>1 DEF Gathered
    <3>3. n \in Nat /\ n + 1 \in 0..Direct
      BY <1>1, <1>3
    <3>4. Ext2First(block, n + 1) = f \o d
      BY <1>1, <3>3, Ext2FirstIs
    <3> HIDE DEF next
    <3>5. QED
      BY <1>3, <3>1, <3>2, <3>3, <3>4 DEF Ext2Behind
  <2>3. QED
    BY <1>1, <2>2 DEF Ext2ListingIn, block, names
<1>14. QED
  BY <1>8, <1>11, <1>12, <1>13

-----------------------------------------------------------------------------
(* FAT32: the characters of a listing *)

\* How many characters the first names take, each with its newline.
LineEnds(names) ==
  LET ends[n \in 0..Len(names)] == IF n = 0 THEN 0 ELSE ends[n - 1] + Printed(names[n]) + 1
  IN  ends
Lines(names) == LineEnds(names)[Len(names)]

\* f counts them.
Counts(f, names) ==
  f[0] = 0 /\ \A n \in 1..Len(names) : f[n] = f[n - 1] + Printed(names[n]) + 1

\* A name has not many characters.
LEMMA PrintedIs ==
  ASSUME NEW name \in FatNames
  PROVE  Printed(name) \in Nat /\ Printed(name) <= Stem + Ext + 1 /\ Stem \in Nat /\ Ext \in Nat
<1>1. /\ name.stem \in Seq(STRING) /\ name.ext \in Seq(STRING)
      /\ Len(name.stem) <= Stem /\ Len(name.ext) <= Ext
  BY DEF FatNames
<1>2. Len(name.stem) \in Nat /\ Len(name.ext) \in Nat /\ Stem \in Nat /\ Ext \in Nat
  BY <1>1, LenProperties, Fat32Assumption
<1> DEFINE a == Len(name.stem)
           b == Len(name.ext)
           c == IF name.ext = << >> THEN 0 ELSE 1 + b
<1>3. Printed(name) = a + c
  BY DEF Printed
<1>4. c = 0 \/ c = 1 + b
  OBVIOUS
<1> HIDE DEF a, b, c
<1>5. a \in Nat /\ b \in Nat /\ a <= Stem /\ b <= Ext
  BY <1>1, <1>2 DEF a, b
<1>6. QED
  BY <1>2, <1>3, <1>4, <1>5

\* The characters are counted name by name.
LEMMA EndsCount ==
  ASSUME NEW names \in Seq(FatNames)
  PROVE  LineEnds(names) \in [0..Len(names) -> Nat] /\ Counts(LineEnds(names), names)
<1> DEFINE step == [x \in (1..Len(names)) \X Nat |-> x[2] + Printed(names[x[1]]) + 1]
           Made(f) == f = [n \in 0..Len(names) |-> IF n = 0 THEN 0 ELSE f[n - 1] + Printed(names[n]) + 1]
           ends == CHOOSE f : Made(f)
<1>1. Len(names) \in Nat /\ \A n \in 1..Len(names) : Printed(names[n]) \in Nat
  <2>1. \A n \in 1..Len(names) : names[n] \in FatNames
    BY ElementOfSeq
  <2>2. QED
    BY <2>1, PrintedIs, LenProperties
<1>2. step \in [(1..Len(names)) \X Nat -> Nat]
  <2>1. ASSUME NEW n \in 1..Len(names), NEW k \in Nat PROVE k + Printed(names[n]) + 1 \in Nat
    <3> DEFINE p == Printed(names[n])
    <3>1. p \in Nat
      BY <1>1
    <3> HIDE DEF p
    <3>2. k + p + 1 \in Nat
      BY <3>1
    <3>3. QED
      BY <3>2 DEF p
  <2>2. QED
    BY <2>1
<1>3. \A n \in 1..Len(names) : \A k \in Nat : step[<<n, k>>] = k + Printed(names[n]) + 1
  OBVIOUS
<1> HIDE DEF step
<1>4. PICK f \in [0..Len(names) -> Nat] : Unfolds(f, Len(names), 0, step)
  BY <1>1, <1>2, RecursionOverInterval
<1>5. \A n \in 1..Len(names) : f[n] = f[n - 1] + Printed(names[n]) + 1
  <2>1. ASSUME NEW n \in 1..Len(names) PROVE f[n] = f[n - 1] + Printed(names[n]) + 1
    <3>1. n - 1 \in 0..Len(names)
      BY <1>1
    <3>2. f[n - 1] \in Nat /\ f[n] = step[<<n, f[n - 1]>>]
      BY <1>4, <3>1 DEF Unfolds
    <3>3. QED
      BY <1>3, <3>2
  <2>2. QED
    BY <2>1
<1>6. Made(f)
  <2>1. ASSUME NEW n \in 0..Len(names)
        PROVE  f[n] = IF n = 0 THEN 0 ELSE f[n - 1] + Printed(names[n]) + 1
    <3>1. n = 0 \/ (n # 0 /\ n \in 1..Len(names))
      BY <1>1
    <3>2. QED
      BY <1>4, <1>5, <3>1 DEF Unfolds
  <2>2. QED
    BY <2>1
<1>7. Made(ends)
  <2> HIDE DEF Made
  <2> QED
    BY <1>6, Zenon
<1>8. LineEnds(names) = ends
  BY DEF LineEnds
<1> HIDE DEF ends
<1>9. /\ ends[0] = 0 /\ ends = [n \in 0..Len(names) |-> ends[n]]
      /\ \A n \in 1..Len(names) : ends[n] = ends[n - 1] + Printed(names[n]) + 1
  <2>1. \A n \in 0..Len(names) : ends[n] = IF n = 0 THEN 0 ELSE ends[n - 1] + Printed(names[n]) + 1
    BY <1>7
  <2>2. ends = [n \in 0..Len(names) |-> ends[n]]
    BY <1>7
  <2>3. \A n \in 1..Len(names) : n \in 0..Len(names) /\ n # 0
    BY <1>1
  <2>4. 0 \in 0..Len(names)
    BY <1>1
  <2>5. QED
    BY <2>1, <2>2, <2>3, <2>4
<1>10. \A n \in 0..Len(names) : ends[n] \in Nat
  <2> DEFINE T == {n \in 0..Len(names) : ends[n] \in Nat}
  <2>1. 0 \in T
    BY <1>1, <1>9
  <2>2. ASSUME NEW k \in 0..(Len(names) - 1), k \in T PROVE k + 1 \in T
    <3> DEFINE p == Printed(names[k + 1])
    <3>1. k + 1 \in 1..Len(names) /\ (k + 1) - 1 = k /\ k + 1 \in 0..Len(names)
      BY <1>1
    <3>2. p \in Nat /\ ends[k] \in Nat /\ ends[k + 1] = ends[(k + 1) - 1] + p + 1
      BY <1>1, <1>9, <2>2, <3>1
    <3> HIDE DEF p
    <3>3. ends[k + 1] \in Nat
      BY <3>1, <3>2
    <3>4. QED
      BY <3>1, <3>3
  <2> HIDE DEF T
  <2>3. 0..Len(names) \subseteq T
    BY <1>1, <2>1, <2>2, IntervalInduction
  <2>4. QED
    BY <2>3 DEF T
<1>11. QED
  BY <1>8, <1>9, <1>10 DEF Counts

\* There is one way to count.
LEMMA CountsOnce ==
  ASSUME NEW names \in Seq(FatNames), NEW f, Counts(f, names)
  PROVE  \A n \in 0..Len(names) : f[n] = LineEnds(names)[n]
<1> DEFINE g == LineEnds(names)
           T == {n \in 0..Len(names) : f[n] = g[n]}
<1>1. Len(names) \in Nat /\ Counts(g, names)
  BY EndsCount, LenProperties
<1> HIDE DEF g
<1>2. 0 \in T
  BY <1>1 DEF Counts
<1>3. ASSUME NEW k \in 0..(Len(names) - 1), k \in T PROVE k + 1 \in T
  <2>1. k + 1 \in 1..Len(names) /\ (k + 1) - 1 = k /\ k + 1 \in 0..Len(names)
    BY <1>1
  <2>2. f[k + 1] = f[(k + 1) - 1] + Printed(names[k + 1]) + 1
    BY <2>1 DEF Counts
  <2>3. g[k + 1] = g[(k + 1) - 1] + Printed(names[k + 1]) + 1
    BY <1>1, <2>1 DEF Counts
  <2>4. QED
    BY <1>3, <2>1, <2>2, <2>3
<1> HIDE DEF T
<1>4. 0..Len(names) \subseteq T
  BY <1>1, <1>2, <1>3, IntervalInduction
<1>5. QED
  BY <1>4 DEF T, g

\* The counts of the first names are the same whatever follows them.
SameEnds(s, t) == \A n \in 0..Len(s) : LineEnds(s)[n] = LineEnds(t)[n]

\* Names behind them change none of the counts.
LEMMA EndsPrefix ==
  ASSUME NEW s \in Seq(FatNames), NEW r \in Seq(FatNames)
  PROVE  SameEnds(s, s \o r)
<1> DEFINE t == s \o r
<1>1. /\ Len(s) \in Nat /\ Len(r) \in Nat /\ t \in Seq(FatNames) /\ Len(t) = Len(s) + Len(r)
      /\ \A i \in 1..(Len(s) + Len(r)) : t[i] = IF i <= Len(s) THEN s[i] ELSE r[i - Len(s)]
  BY ConcatProperties, LenProperties
<1> HIDE DEF t
<1>2. Counts(LineEnds(t), t)
  BY <1>1, EndsCount
<1>3. Counts(LineEnds(t), s)
  <2>1. ASSUME NEW n \in 1..Len(s) PROVE LineEnds(t)[n] = LineEnds(t)[n - 1] + Printed(s[n]) + 1
    <3>1. n \in 1..Len(t) /\ t[n] = s[n]
      BY <1>1
    <3>2. LineEnds(t)[n] = LineEnds(t)[n - 1] + Printed(t[n]) + 1
      BY <1>2, <3>1 DEF Counts
    <3>3. QED
      BY <3>1, <3>2
  <2>2. QED
    BY <1>2, <2>1 DEF Counts
<1>4. QED
  BY <1>3, CountsOnce DEF SameEnds, t

\* One name more, and one count.
LinesWith(s, x) ==
  /\ Lines(s) \in Nat /\ Lines(Append(s, x)) = Lines(s) + Printed(x) + 1
  /\ SameEnds(s, Append(s, x))

\* A name appended takes its characters and a newline.
LEMMA LinesAppend ==
  ASSUME NEW s \in Seq(FatNames), NEW x \in FatNames
  PROVE  LinesWith(s, x)
<1> DEFINE t == Append(s, x)
           n == Len(s)
           one == << x >>
<1>1. t \in Seq(FatNames) /\ Len(t) = n + 1 /\ t[n + 1] = x /\ n \in Nat
  BY AppendProperties, LenProperties
<1>2. one \in Seq(FatNames) /\ t = s \o one
  BY AppendIsConcat
<1> HIDE DEF t, one
<1>3. SameEnds(s, t)
  BY <1>2, EndsPrefix
<1>4. Counts(LineEnds(t), t) /\ LineEnds(s) \in [0..n -> Nat]
  BY <1>1, EndsCount
<1> HIDE DEF n
<1>5. n + 1 \in 1..Len(t) /\ (n + 1) - 1 = n /\ n \in 0..n
  BY <1>1
<1>6. LineEnds(t)[n + 1] = LineEnds(t)[(n + 1) - 1] + Printed(t[n + 1]) + 1
  BY <1>4, <1>5 DEF Counts
<1>7. LineEnds(s)[n] = LineEnds(t)[n] /\ LineEnds(s)[n] \in Nat
  BY <1>3, <1>4, <1>5 DEF SameEnds, n
<1>8. Lines(t) = LineEnds(t)[n + 1] /\ Lines(s) = LineEnds(s)[n]
  BY <1>1 DEF Lines, n
<1>9. Lines(t) = Lines(s) + Printed(x) + 1
  BY <1>1, <1>5, <1>6, <1>7, <1>8
<1>10. QED
  BY <1>3, <1>7, <1>8, <1>9 DEF LinesWith, t

\* The counts grow, with every name.
LEMMA EndsGrow ==
  ASSUME NEW s \in Seq(FatNames)
  PROVE  /\ Lines(s) \in Nat /\ Len(s) \in Nat /\ Len(s) <= Lines(s)
         /\ \A n \in 0..Len(s) : LineEnds(s)[n] \in Nat /\ LineEnds(s)[n] <= Lines(s)
         /\ Len(s) = 0 => Lines(s) = 0
<1> DEFINE g == LineEnds(s)
           N == Len(s)
           T == {n \in 0..N : n <= g[n]}
           M == {k \in 0..N : g[N - k] <= g[N]}
<1>1. N \in Nat /\ g \in [0..N -> Nat] /\ Counts(g, s)
  BY EndsCount, LenProperties
<1>2. \A n \in 1..N : Printed(s[n]) \in Nat
  <2>1. \A n \in 1..N : s[n] \in FatNames
    BY ElementOfSeq
  <2>2. QED
    BY <2>1, PrintedIs
<1>3. ASSUME NEW n \in 1..N PROVE n - 1 \in 0..N /\ g[n - 1] + 1 <= g[n] /\ g[n] \in Nat /\ g[n - 1] \in Nat
  <2> DEFINE p == Printed(s[n])
  <2>1. p \in Nat /\ g[n] = g[n - 1] + p + 1
    BY <1>1, <1>2 DEF Counts
  <2>2. n - 1 \in 0..N /\ n \in 0..N
    BY <1>1
  <2> HIDE DEF g, p, N
  <2>3. g[n] \in Nat /\ g[n - 1] \in Nat
    BY <1>1, <2>2
  <2>4. QED
    BY <2>1, <2>2, <2>3
<1> HIDE DEF g, N
<1>4. 0 \in T /\ 0 \in M
  BY <1>1 DEF Counts
<1>5. ASSUME NEW k \in 0..(N - 1), k \in T PROVE k + 1 \in T
  <2>1. k + 1 \in 1..N /\ (k + 1) - 1 = k /\ k + 1 \in 0..N
    BY <1>1
  <2>2. g[(k + 1) - 1] + 1 <= g[k + 1] /\ g[k + 1] \in Nat /\ g[(k + 1) - 1] \in Nat
    BY <1>3, <2>1
  <2>3. QED
    BY <1>5, <2>1, <2>2
<1>6. ASSUME NEW k \in 0..(N - 1), k \in M PROVE k + 1 \in M
  <2>1. N - k \in 1..N /\ (N - k) - 1 = N - (k + 1) /\ k + 1 \in 0..N
    BY <1>1
  <2>2. g[(N - k) - 1] + 1 <= g[N - k] /\ g[N - k] \in Nat /\ g[(N - k) - 1] \in Nat
    BY <1>3, <2>1
  <2>3. g[N] \in Nat /\ g[N - k] <= g[N]
    BY <1>1, <1>6
  <2>4. QED
    BY <2>1, <2>2, <2>3
<1> HIDE DEF T, M
<1>7. 0..N \subseteq T /\ 0..N \subseteq M
  <2>1. 0 \in Nat
    OBVIOUS
  <2>2. 0..N \subseteq T
    BY <1>1, <1>4, <1>5, <2>1, IntervalInduction
  <2>3. 0..N \subseteq M
    BY <1>1, <1>4, <1>6, <2>1, IntervalInduction
  <2>4. QED
    BY <2>2, <2>3
<1>8. Lines(s) = g[N]
  BY DEF Lines, g, N
<1>9. g[N] \in Nat /\ N <= g[N]
  BY <1>1, <1>7 DEF T
<1>10. ASSUME NEW n \in 0..N PROVE g[n] \in Nat /\ g[n] <= g[N]
  <2>1. N - n \in 0..N /\ N - (N - n) = n
    BY <1>1
  <2>2. g[N - (N - n)] <= g[N]
    BY <1>7, <2>1 DEF M
  <2>3. QED
    BY <1>1, <2>1, <2>2
<1>11. N = 0 => g[N] = 0
  BY <1>1 DEF Counts
<1>12. QED
  BY <1>1, <1>8, <1>9, <1>10, <1>11 DEF g, N

-----------------------------------------------------------------------------
(* FAT32: a listing has room *)

\* What is listed has room with one character more.
Fitted(names, size) == names # << >> => Lines(names) + 1 <= size

\* Fits, of any answer.
FitsBy(names, size, value, got) ==
  \E n \in 0..Len(names) :
    /\ \A i \in 1..n : LineEnds(names)[i] + 1 <= size
    /\ n < Len(names) => LineEnds(names)[n + 1] + 1 > size
    /\ value = LineEnds(names)[n] /\ got = SubSeq(names, 1, n)

\* It is what the property asks.
LEMMA FitsIs ==
  ASSUME NEW names
  PROVE  Fits(names) <=> FitsBy(names, call.size, ret.value, out)
  BY DEF Fits, FitsBy, LineEnds

\* All names have room, or those before one that has none.
LEMMA FitsAll ==
  ASSUME NEW s \in Seq(FatNames), NEW size \in Nat, Fitted(s, size), NEW r \in Seq(FatNames),
         r = << >> \/ Lines(s) + Printed(r[1]) + 2 > size
  PROVE  FitsBy(s \o r, size, Lines(s), s)
<1> DEFINE t == s \o r
           n == Len(s)
<1>1. /\ n \in Nat /\ Len(r) \in Nat /\ t \in Seq(FatNames) /\ Len(t) = n + Len(r)
      /\ \A i \in 1..(n + Len(r)) : t[i] = IF i <= n THEN s[i] ELSE r[i - n]
  BY ConcatProperties, LenProperties
<1>2. SubSeq(t, 1, n) = s
  <2>1. n \in 0..Len(t)
    BY <1>1
  <2>2. \A i \in 1..n : t[i] = s[i]
    BY <1>1
  <2>3. \A i \in 1..n : t[i] \in FatNames
    BY <2>2, ElementOfSeq
  <2> HIDE DEF t
  <2>4. /\ SubSeq(t, 1, n) \in Seq(FatNames)
        /\ Len(SubSeq(t, 1, n)) = IF 1 <= n THEN n - 1 + 1 ELSE 0
        /\ \A i \in 1..(n - 1 + 1) : SubSeq(t, 1, n)[i] = t[1 + i - 1]
    BY <1>1, <2>3, SubSeqProperties
  <2> HIDE DEF n
  <2>5. Len(SubSeq(t, 1, n)) = n /\ \A i \in 1..n : SubSeq(t, 1, n)[i] = s[i]
    BY <1>1, <2>2, <2>4
  <2>6. QED
    BY <2>4, <2>5, SeqEqual DEF n
<1>3. SameEnds(s, t)
  BY EndsPrefix
<1>4. /\ Lines(s) \in Nat
      /\ \A i \in 0..n : LineEnds(s)[i] \in Nat /\ LineEnds(s)[i] <= Lines(s)
  BY EndsGrow
<1>5. LineEnds(t)[n] = Lines(s)
  BY <1>1, <1>3 DEF SameEnds, Lines
<1> HIDE DEF t
<1>6. ASSUME NEW i \in 1..n PROVE LineEnds(t)[i] + 1 <= size
  <2>1. i \in 0..n /\ n # 0
    BY <1>1
  <2>2. LineEnds(t)[i] = LineEnds(s)[i] /\ LineEnds(s)[i] \in Nat /\ LineEnds(s)[i] <= Lines(s)
    BY <1>3, <1>4, <2>1 DEF SameEnds
  <2>3. s # << >>
    BY <2>1
  <2>4. Lines(s) + 1 <= size
    BY <2>3 DEF Fitted
  <2>5. QED
    BY <1>4, <2>2, <2>4
<1>7. ASSUME n < Len(t) PROVE LineEnds(t)[n + 1] + 1 > size
  <2>1. n + 1 \in 1..Len(t) /\ (n + 1) - 1 = n /\ Len(r) > 0
    BY <1>1, <1>7
  <2>2. t[n + 1] = r[1]
    BY <1>1, <2>1
  <2>3. Counts(LineEnds(t), t)
    BY <1>1, EndsCount
  <2>4. LineEnds(t)[n + 1] = LineEnds(t)[(n + 1) - 1] + Printed(t[n + 1]) + 1
    BY <2>1, <2>3 DEF Counts
  <2>5. r # << >>
    BY <2>1
  <2>6. Lines(s) + Printed(r[1]) + 2 > size
    BY <2>5
  <2>7. Printed(r[1]) \in Nat
    <3>1. r[1] \in FatNames
      <4>1. 1 \in 1..Len(r)
        BY <1>1, <2>1
      <4>2. QED
        BY <4>1, ElementOfSeq
    <3>2. QED
      BY <3>1, PrintedIs
  <2> DEFINE p == Printed(r[1])
  <2>8. LineEnds(t)[n + 1] = Lines(s) + p + 1
    BY <1>5, <2>1, <2>2, <2>4
  <2> HIDE DEF p, n
  <2>9. p \in Nat /\ Lines(s) + p + 2 > size
    BY <2>6, <2>7 DEF p
  <2>10. QED
    BY <1>4, <2>8, <2>9
<1>8. n \in 0..Len(t)
  BY <1>1
<1>9. \E m \in 0..Len(t) :
        /\ \A i \in 1..m : LineEnds(t)[i] + 1 <= size
        /\ m < Len(t) => LineEnds(t)[m + 1] + 1 > size
        /\ Lines(s) = LineEnds(t)[m] /\ s = SubSeq(t, 1, m)
  <2> HIDE DEF n
  <2> QED
    BY <1>2, <1>5, <1>6, <1>7, <1>8
<1>10. QED
  BY <1>9 DEF FitsBy, t

-----------------------------------------------------------------------------
(* FAT32: the listing of one cluster *)

FatShown == {e \in FatEntries : Live(e)}
NoEnd(s) == \A i \in 1..Len(s) : s[i].kind # "end"

\* A listing ends at an entry of that kind or without room.
EndsAt(e, names, size) ==
  e.kind = "end" \/ (Live(e) /\ Lines(names) + Printed(e.name) + 2 > size)

\* A state of the loop over the entries of a cluster, and one turn of it.
FatLoop == [names : Seq(FatNames), offset : Nat, over : BOOLEAN]
FatTurn(s, e, size) ==
  IF s.over \/ (e.kind # "end" /\ ~Live(e)) THEN s
  ELSE IF e.kind = "end" \/ Full(s.offset, e.name, size) THEN [s EXCEPT !.over = TRUE]
  ELSE [names |-> Append(s.names, e.name), offset |-> s.offset + Printed(e.name) + 1, over |-> FALSE]

\* Behind the entries b and the first j of a cluster.
ListedUpTo(b, entries, size, j, s) ==
  LET names == Picked(Onward(b, entries, j), FatShown)
  IN  /\ s.names = names /\ s.offset = Lines(names) /\ Fitted(names, size)
      /\ \A i \in 1..j : entries[i].kind # "end"
      /\ s.over => j < Len(entries) /\ EndsAt(entries[j + 1], names, size)

\* What is picked of entries is names.
LEMMA FatNamed ==
  ASSUME NEW s \in Seq(FatEntries)
  PROVE  Picked(s, FatShown) \in Seq(FatNames) /\ AllNamed(FatEntries, FatNames)
<1>1. AllNamed(FatEntries, FatNames)
  BY DEF AllNamed, FatEntries
<1>2. PICK f : Collects(f, s, FatShown)
  BY <1>1, PickedIs
<1>3. QED
  BY <1>1, <1>2, PickedBy

\* Where there is room, the test for it does not wrap.
LEMMA FullIs ==
  ASSUME NEW names \in Seq(FatNames), NEW name \in FatNames, NEW size \in Rooms, Fitted(names, size)
  PROVE  Full(Lines(names), name, size) <=> Lines(names) + Printed(name) + 2 > size
<1> DEFINE l == Lines(names)
           p == Printed(name)
<1>1. l \in Nat /\ l <= size /\ size \in Nat
  <2>1. size \in Nat
    BY DiskAssumption
  <2>2. l \in Nat /\ (names = << >> => l = 0)
    <3>1. Len(names) = 0 => Lines(names) = 0
      BY EndsGrow
    <3>2. Lines(names) \in Nat
      BY EndsGrow
    <3>3. QED
      BY <3>1, <3>2
  <2>3. names # << >> => l + 1 <= size
    BY DEF Fitted
  <2> HIDE DEF l
  <2>4. QED
    BY <2>1, <2>2, <2>3
<1>2. p \in Nat /\ p <= Stem + Ext + 1 /\ Stem \in Nat /\ Ext \in Nat
  BY PrintedIs
<1>3. size + Stem + Ext + 3 < Wrap /\ Wrap \in Nat \ {0}
  BY Fat32Assumption, DiskAssumption
<1>4. Full(Lines(names), name, size) <=> (l + p + 2) % Wrap > size
  BY DEF Full, U
<1> HIDE DEF l, p
<1>5. l + p + 2 \in Nat /\ l + p + 2 < Wrap
  BY <1>1, <1>2, <1>3
<1> DEFINE x == l + p + 2
<1>6. (l + p + 2) % Wrap = l + p + 2
  <2>1. x \in Nat /\ x < Wrap
    BY <1>5
  <2> HIDE DEF x
  <2>2. x % Wrap = x
    BY <1>3, <2>1, ModSmall
  <2>3. QED
    BY <2>2 DEF x
<1>7. QED
  BY <1>4, <1>6 DEF l, p

\* One entry.
LEMMA ListsTurn ==
  ASSUME NEW b \in Seq(FatEntries), NEW entries \in Seq(FatEntries), NEW size \in Rooms,
         NEW j \in 0..(Len(entries) - 1), NEW s \in FatLoop, ListedUpTo(b, entries, size, j, s), ~s.over
  PROVE  LET t == FatTurn(s, entries[j + 1], size)
         IN  ListedUpTo(b, entries, size, IF t.over THEN j ELSE j + 1, t)
<1> DEFINE w == Onward(b, entries, j)
           e == entries[j + 1]
           names == Picked(w, FatShown)
           t == FatTurn(s, e, size)
           more == Picked(Onward(b, entries, j + 1), FatShown)
<1>1. /\ j \in 0..Len(entries) /\ j < Len(entries) /\ j \in Nat /\ Len(entries) \in Nat
  BY LenProperties
<1>2. w \in Seq(FatEntries) /\ e \in FatEntries /\ Onward(b, entries, j + 1) = Append(w, e)
  BY <1>1, OnwardGrows
<1>3. /\ s.names = names /\ s.offset = Lines(names) /\ Fitted(names, size)
      /\ \A i \in 1..j : entries[i].kind # "end"
  BY DEF ListedUpTo
<1> HIDE DEF w, e
<1>4. names \in Seq(FatNames) /\ AllNamed(FatEntries, FatNames) /\ e.name \in FatNames
  <2>1. names \in Seq(FatNames) /\ AllNamed(FatEntries, FatNames)
    BY <1>2, FatNamed
  <2>2. QED
    BY <1>2, <2>1 DEF AllNamed
<1>5. more = IF e \in FatShown THEN Append(names, e.name) ELSE names
  <2>1. PickedWith(w, e, FatShown, FatNames)
    BY <1>2, <1>4, PickedAppend
  <2>2. QED
    BY <1>2, <2>1 DEF PickedWith
<1>6. e \in FatShown <=> Live(e)
  BY <1>2 DEF FatShown
<1>7. Full(s.offset, e.name, size) <=> Lines(names) + Printed(e.name) + 2 > size
  <2> HIDE DEF names
  <2> QED
    BY <1>3, <1>4, FullIs
<1> HIDE DEF names
<1>8. e.kind # "end" => \A i \in 1..(j + 1) : entries[i].kind # "end"
  <2>1. \A i \in 1..(j + 1) : i \in 1..j \/ i = j + 1
    BY <1>1
  <2>2. QED
    BY <1>3, <2>1 DEF e
<1>9. CASE e.kind # "end" /\ ~Live(e)
  <2>1. t = s
    BY <1>9 DEF FatTurn
  <2>2. more = names
    BY <1>5, <1>6, <1>9
  <2> HIDE DEF more, t
  <2>3. ListedUpTo(b, entries, size, j + 1, s)
    BY <1>3, <1>8, <1>9, <2>2 DEF ListedUpTo, more
  <2>4. QED
    BY <2>1, <2>3 DEF t, e
<1>10. CASE ~(e.kind # "end" /\ ~Live(e)) /\ (e.kind = "end" \/ Full(s.offset, e.name, size))
  <2>1. t = [s EXCEPT !.over = TRUE]
    BY <1>10 DEF FatTurn
  <2>2. t.over /\ t.names = s.names /\ t.offset = s.offset
    BY <2>1 DEF FatLoop
  <2>3. EndsAt(e, names, size)
    BY <1>7, <1>10 DEF EndsAt
  <2> HIDE DEF t
  <2>4. ListedUpTo(b, entries, size, j, t)
    BY <1>1, <1>3, <2>2, <2>3 DEF ListedUpTo, names, w, e
  <2>5. QED
    BY <2>2, <2>4 DEF t, e
<1>11. CASE Live(e) /\ e.kind # "end" /\ ~Full(s.offset, e.name, size)
  <2>1. t = [names |-> Append(s.names, e.name), offset |-> s.offset + Printed(e.name) + 1, over |-> FALSE]
    BY <1>11 DEF FatTurn
  <2>2. ~t.over /\ t.names = Append(names, e.name) /\ t.offset = Lines(names) + Printed(e.name) + 1
    BY <1>3, <2>1
  <2>3. more = Append(names, e.name)
    BY <1>5, <1>6, <1>11
  <2>4. LinesWith(names, e.name)
    BY <1>4, LinesAppend
  <2>5. Lines(more) = Lines(names) + Printed(e.name) + 1 /\ Lines(names) \in Nat
    BY <2>3, <2>4 DEF LinesWith
  <2>6. Fitted(more, size)
    <3>1. Printed(e.name) \in Nat /\ size \in Nat
      BY <1>4, PrintedIs, DiskAssumption
    <3> DEFINE p == Printed(e.name)
               l == Lines(names)
    <3>2. ~(l + p + 2 > size) /\ Lines(more) = l + p + 1
      BY <1>7, <1>11, <2>5
    <3> HIDE DEF p, l, more
    <3>3. l \in Nat /\ p \in Nat
      BY <2>5, <3>1 DEF p, l
    <3>4. Lines(more) + 1 <= size
      BY <3>1, <3>2, <3>3
    <3>5. QED
      BY <3>4 DEF Fitted
  <2> HIDE DEF more, t
  <2>7. ListedUpTo(b, entries, size, j + 1, t)
    BY <1>8, <1>11, <2>2, <2>3, <2>5, <2>6 DEF ListedUpTo, more
  <2>8. QED
    BY <2>2, <2>7 DEF t, e
<1>12. QED
  BY <1>9, <1>10, <1>11

\* All its entries, up to where the listing ends.
ListedTo(b, entries, size, now) ==
  /\ now.over \in BOOLEAN
  /\ \E j \in 0..Len(entries) :
       ListedUpTo(b, entries, size, j, now) /\ (~now.over => j = Len(entries))

\* The loop of fat32_list over a cluster's entries comes to all of them or to
\* where the listing ends.
LEMMA ListedIs ==
  ASSUME NEW b \in Seq(FatEntries), NEW entries \in Seq(FatEntries), NEW size \in Rooms,
         NEW names, NEW used, names = Picked(b, FatShown), used = Lines(names), Fitted(names, size)
  PROVE  ListedTo(b, entries, size, Listed(entries, used, names, size))
<1> DEFINE N == Len(entries)
           start == [names |-> names, offset |-> used, over |-> FALSE]
           turn == [x \in (1..N) \X FatLoop |-> FatTurn(x[2], entries[x[1]], size)]
           Made(f) == f = [i \in 0..N |->
             IF i = 0 THEN [names |-> names, offset |-> used, over |-> FALSE]
             ELSE LET was == f[i - 1]
                      e == entries[i]
                  IN  IF was.over \/ (e.kind # "end" /\ ~Live(e)) THEN was
                      ELSE IF e.kind = "end" \/ Full(was.offset, e.name, size)
                           THEN [was EXCEPT !.over = TRUE]
                      ELSE [names |-> Append(was.names, e.name),
                            offset |-> was.offset + Printed(e.name) + 1, over |-> FALSE]]
           loop == CHOOSE f : Made(f)
<1>1. N \in Nat /\ \A i \in 1..N : entries[i] \in FatEntries
  BY LenProperties, ElementOfSeq
<1>2. names \in Seq(FatNames) /\ used \in Nat
  <2>1. names \in Seq(FatNames)
    BY FatNamed
  <2>2. QED
    BY <2>1, EndsGrow
<1>3. start \in FatLoop
  BY <1>2 DEF FatLoop
<1>4. ASSUME NEW s \in FatLoop, NEW e \in FatEntries PROVE FatTurn(s, e, size) \in FatLoop
  <2>1. [s EXCEPT !.over = TRUE] \in FatLoop
    BY DEF FatLoop
  <2>2. [names |-> Append(s.names, e.name), offset |-> s.offset + Printed(e.name) + 1, over |-> FALSE] \in FatLoop
    <3>1. e.name \in FatNames /\ s.names \in Seq(FatNames) /\ s.offset \in Nat
      BY DEF FatEntries, FatLoop
    <3>2. Append(s.names, e.name) \in Seq(FatNames)
      BY <3>1, AppendProperties
    <3>3. s.offset + Printed(e.name) + 1 \in Nat
      <4> DEFINE p == Printed(e.name)
                 o == s.offset
      <4>1. p \in Nat /\ o \in Nat
        BY <3>1, PrintedIs
      <4> HIDE DEF p, o
      <4>2. o + p + 1 \in Nat
        BY <4>1
      <4>3. QED
        BY <4>2 DEF o, p
    <3>4. QED
      BY <3>2, <3>3 DEF FatLoop
  <2>3. QED
    BY <2>1, <2>2 DEF FatTurn
<1>5. turn \in [(1..N) \X FatLoop -> FatLoop]
  BY <1>1, <1>4
<1>6. \A i \in 1..N : \A s \in FatLoop : turn[<<i, s>>] = FatTurn(s, entries[i], size)
  OBVIOUS
<1> HIDE DEF turn, start, N
<1>7. PICK f \in [0..N -> FatLoop] : Unfolds(f, N, start, turn)
  BY <1>1, <1>3, <1>5, RecursionOverInterval
<1>8. \A i \in 1..N : f[i] = FatTurn(f[i - 1], entries[i], size)
  <2>1. ASSUME NEW i \in 1..N PROVE f[i] = FatTurn(f[i - 1], entries[i], size)
    <3>1. i - 1 \in 0..N
      BY <1>1
    <3>2. f[i - 1] \in FatLoop /\ f[i] = turn[<<i, f[i - 1]>>]
      BY <1>7, <3>1 DEF Unfolds
    <3>3. QED
      BY <1>6, <3>2
  <2>2. QED
    BY <2>1
<1>9. f[0] = start
  BY <1>7 DEF Unfolds
<1>10. Made(f)
  <2>1. ASSUME NEW i \in 0..N
        PROVE  f[i] = IF i = 0 THEN [names |-> names, offset |-> used, over |-> FALSE]
             ELSE LET was == f[i - 1]
                      e == entries[i]
                  IN  IF was.over \/ (e.kind # "end" /\ ~Live(e)) THEN was
                      ELSE IF e.kind = "end" \/ Full(was.offset, e.name, size)
                           THEN [was EXCEPT !.over = TRUE]
                      ELSE [names |-> Append(was.names, e.name),
                            offset |-> was.offset + Printed(e.name) + 1, over |-> FALSE]
    <3>1. CASE i = 0
      BY <1>9, <3>1 DEF start
    <3>2. CASE i # 0
      <4>1. i \in 1..N
        BY <1>1, <3>2
      <4>2. f[i] = FatTurn(f[i - 1], entries[i], size)
        BY <1>8, <4>1
      <4>3. QED
        BY <3>2, <4>2, Zenon DEF FatTurn
    <3>3. QED
      BY <3>1, <3>2
  <2>2. f = [i \in 0..N |-> f[i]]
    BY <1>7
  <2>3. QED
    BY <2>1, <2>2
<1>11. Made(loop)
  <2> HIDE DEF Made
  <2> QED
    BY <1>10, Zenon
<1>12. Listed(entries, used, names, size) = loop[N]
  BY DEF Listed, N
<1> DEFINE Good(i, s) == s \in FatLoop /\ \E j \in 0..i : ListedUpTo(b, entries, size, j, s) /\ (~s.over => j = i)
           T == {i \in 0..N : Good(i, f[i])}
<1> HIDE DEF loop
<1>13. 0 \in T
  <2>1. Onward(b, entries, 0) = b
    <3>1. 0 \in 0..Len(entries)
      BY <1>1 DEF N
    <3>2. QED
      BY <3>1, OnwardGrows
  <2>2. ListedUpTo(b, entries, size, 0, start)
    BY <2>1 DEF ListedUpTo, start
  <2>3. 0 \in 0..N
    BY <1>1
  <2>4. Good(0, start)
    <3>1. 0 \in 0..0
      OBVIOUS
    <3>2. QED
      BY <1>3, <2>2, <3>1
  <2>5. QED
    BY <1>9, <2>3, <2>4
<1>14. ASSUME NEW k \in 0..(N - 1), k \in T PROVE k + 1 \in T
  <2> DEFINE s == f[k]
             t == FatTurn(s, entries[k + 1], size)
  <2>1. k + 1 \in 1..N /\ (k + 1) - 1 = k /\ k + 1 \in 0..N /\ k \in Nat /\ k \in 0..N
    BY <1>1
  <2>2. f[k + 1] = t
    <3>1. f[k + 1] = FatTurn(f[(k + 1) - 1], entries[k + 1], size)
      BY <1>8, <2>1
    <3>2. QED
      BY <2>1, <3>1
  <2>3. t \in FatLoop /\ s \in FatLoop
    <3>1. s \in FatLoop
      BY <1>14
    <3> HIDE DEF s
    <3>2. QED
      BY <1>1, <1>4, <2>1, <3>1
  <2>4. PICK j \in 0..k : ListedUpTo(b, entries, size, j, s) /\ (~s.over => j = k)
    BY <1>14
  <2>5. Good(k + 1, t)
    <3>1. CASE s.over
      <4>1. t = s
        BY <3>1 DEF FatTurn
      <4>2. j \in 0..(k + 1)
        BY <2>1
      <4> HIDE DEF s, t
      <4>3. QED
        BY <2>3, <2>4, <3>1, <4>1, <4>2
    <3>2. CASE ~s.over
      <4>1. j = k /\ k \in 0..(Len(entries) - 1)
        BY <2>4, <3>2 DEF N
      <4> HIDE DEF s, t
      <4>2. ListedUpTo(b, entries, size, IF t.over THEN k ELSE k + 1, t)
        BY <2>3, <2>4, <3>2, <4>1, ListsTurn DEF t
      <4>3. k \in 0..(k + 1) /\ k + 1 \in 0..(k + 1)
        BY <2>1
      <4>4. CASE t.over
        BY <2>3, <4>2, <4>3, <4>4
      <4>5. CASE ~t.over
        BY <2>3, <4>2, <4>3, <4>5
      <4>6. QED
        BY <4>4, <4>5
    <3>3. QED
      BY <3>1, <3>2
  <2> HIDE DEF t, Good
  <2>6. QED
    BY <2>1, <2>2, <2>5
<1>15. N \in T
  <2> HIDE DEF T
  <2>1. 0 \in Nat
    OBVIOUS
  <2>2. 0..N \subseteq T
    BY <1>1, <1>13, <1>14, <2>1, IntervalInduction
  <2>3. QED
    BY <1>1, <2>2
<1>16. loop[N] = f[N]
  <2>1. loop = f
    <3>1. Made(loop) /\ Made(f)
      BY <1>10, <1>11
    <3>2. \A i \in 0..N : loop[i] = f[i]
      <4> DEFINE Z == {i \in 0..N : loop[i] = f[i]}
      <4>1. loop[0] = start /\ \A i \in 1..N : loop[i] = FatTurn(loop[i - 1], entries[i], size)
        <5>1. \A i \in 0..N : loop[i] = IF i = 0 THEN start ELSE FatTurn(loop[i - 1], entries[i], size)
          BY <3>1, Zenon DEF start, FatTurn
        <5>2. 0 \in 0..N /\ \A i \in 1..N : i \in 0..N /\ i # 0
          BY <1>1
        <5>3. QED
          BY <5>1, <5>2
      <4>2. 0 \in Z
        BY <1>1, <1>9, <4>1
      <4>3. ASSUME NEW k \in 0..(N - 1), k \in Z PROVE k + 1 \in Z
        <5>1. k + 1 \in 1..N /\ (k + 1) - 1 = k /\ k + 1 \in 0..N
          BY <1>1
        <5>2. loop[k + 1] = FatTurn(loop[(k + 1) - 1], entries[k + 1], size)
          BY <4>1, <5>1
        <5>3. f[k + 1] = FatTurn(f[(k + 1) - 1], entries[k + 1], size)
          BY <1>8, <5>1
        <5>4. QED
          BY <4>3, <5>1, <5>2, <5>3
      <4> HIDE DEF Z
      <4>4. 0 \in Nat
        OBVIOUS
      <4>5. 0..N \subseteq Z
        BY <1>1, <4>2, <4>3, <4>4, IntervalInduction
      <4>6. QED
        BY <4>5 DEF Z
    <3>3. loop = [i \in 0..N |-> loop[i]] /\ f = [i \in 0..N |-> f[i]]
      BY <3>1
    <3> HIDE DEF Made
    <3>4. QED
      BY <3>2, <3>3
  <2>2. QED
    BY <2>1
<1>17. Good(N, f[N])
  BY <1>15
<1>18. f[N].over \in BOOLEAN
  BY <1>17 DEF FatLoop
<1>19. QED
  BY <1>12, <1>16, <1>17, <1>18 DEF ListedTo, N

\* The front of a list.
LEMMA FrontIs ==
  ASSUME NEW S, NEW s \in Seq(S), NEW r \in Seq(S)
  PROVE  SubSeq(s \o r, 1, Len(s)) = s
<1> DEFINE t == s \o r
           n == Len(s)
<1>1. /\ n \in Nat /\ Len(r) \in Nat /\ t \in Seq(S) /\ Len(t) = n + Len(r)
      /\ \A i \in 1..(n + Len(r)) : t[i] = IF i <= n THEN s[i] ELSE r[i - n]
  BY ConcatProperties, LenProperties
<1> HIDE DEF t
<1>2. \A i \in 1..n : t[i] = s[i]
  BY <1>1
<1>3. \A i \in 1..n : t[i] \in S
  BY <1>2, ElementOfSeq
<1>4. /\ SubSeq(t, 1, n) \in Seq(S)
      /\ Len(SubSeq(t, 1, n)) = IF 1 <= n THEN n - 1 + 1 ELSE 0
      /\ \A i \in 1..(n - 1 + 1) : SubSeq(t, 1, n)[i] = t[1 + i - 1]
  BY <1>1, <1>3, SubSeqProperties
<1> HIDE DEF n
<1>5. Len(SubSeq(t, 1, n)) = n /\ \A i \in 1..n : SubSeq(t, 1, n)[i] = s[i]
  BY <1>1, <1>2, <1>4
<1>6. SubSeq(t, 1, n) = s
  BY <1>4, <1>5, SeqEqual DEF n
<1>7. QED
  BY <1>6 DEF t, n

-----------------------------------------------------------------------------
(* FAT32: where a directory ends *)

\* One without an end is all there.
LEMMA UpToEndAll ==
  ASSUME NEW all \in Seq(FatEntries), NoEnd(all)
  PROVE  UpToEnd(all) = all
<1>1. PICK n \in Nat : EndsBehind(all, n)
  BY UpToEndIs
<1>2. Len(all) \in Nat
  BY LenProperties
<1>3. n = Len(all)
  <2>1. n \in 0..Len(all) /\ (n < Len(all) => all[n + 1].kind = "end")
    BY <1>1 DEF EndsBehind
  <2>2. n < Len(all) => n + 1 \in 1..Len(all)
    BY <1>2
  <2>3. QED
    BY <1>2, <2>1, <2>2 DEF NoEnd
<1>4. QED
  BY <1>1, <1>3, SubSeqFull DEF EndsBehind

\* It ends at its first end.
LEMMA UpToEndAt ==
  ASSUME NEW w \in Seq(FatEntries), NoEnd(w), NEW e \in FatEntries, e.kind = "end",
         NEW all, Continues(all, Append(w, e), FatEntries)
  PROVE  UpToEnd(all) = w /\ \E i \in DOMAIN all : all[i].kind = "end"
<1> DEFINE we == Append(w, e)
           k == Len(w)
<1>1. /\ we \in Seq(FatEntries) /\ Len(we) = k + 1 /\ we[k + 1] = e /\ k \in Nat
      /\ \A i \in 1..k : we[i] = w[i]
  BY AppendProperties, LenProperties
<1> HIDE DEF we
<1>2. PICK r \in Seq(FatEntries) : all = we \o r
  BY DEF Continues, we
<1>3. /\ all \in Seq(FatEntries) /\ Len(all) = (k + 1) + Len(r) /\ Len(r) \in Nat
      /\ \A i \in 1..(k + 1) : all[i] = we[i]
  <2>1. /\ we \o r \in Seq(FatEntries) /\ Len(we \o r) = Len(we) + Len(r) /\ Len(r) \in Nat
        /\ \A i \in 1..(Len(we) + Len(r)) : (we \o r)[i] = IF i <= Len(we) THEN we[i] ELSE r[i - Len(we)]
    BY <1>1, ConcatProperties, LenProperties
  <2> HIDE DEF k
  <2>2. \A i \in 1..Len(we) : i \in 1..(Len(we) + Len(r)) /\ i <= Len(we)
    BY <1>1, <2>1
  <2>3. \A i \in 1..Len(we) : all[i] = we[i]
    BY <1>2, <2>1, <2>2
  <2>4. QED
    BY <1>1, <1>2, <2>1, <2>3
<1>4. all[k + 1].kind = "end" /\ k + 1 \in 1..Len(all)
  BY <1>1, <1>3
<1>5. \A i \in 1..k : all[i] = w[i] /\ all[i].kind # "end"
  <2>1. \A i \in 1..k : i \in 1..(k + 1)
    BY <1>1
  <2>2. QED
    BY <1>1, <1>3, <2>1 DEF NoEnd
<1>6. PICK n \in Nat : EndsBehind(all, n)
  BY <1>3, UpToEndIs
<1>7. n = k
  <2>1. /\ n \in 0..Len(all) /\ (n < Len(all) => all[n + 1].kind = "end")
        /\ \A i \in 1..n : all[i].kind # "end"
    BY <1>6 DEF EndsBehind
  <2>2. ~(n < k)
    <3>1. n < k => n < Len(all) /\ n + 1 \in 1..k
      BY <1>1, <1>3
    <3>2. QED
      BY <1>5, <2>1, <3>1
  <2>3. ~(n > k)
    <3>1. n > k => k + 1 \in 1..n
      BY <1>1
    <3>2. QED
      BY <1>4, <2>1, <3>1
  <2>4. QED
    BY <1>1, <2>2, <2>3
<1>8. all = w \o (<< e >> \o r)
  <2>1. we = w \o << e >>
    BY AppendIsConcat DEF we
  <2> DEFINE one == << e >>
  <2>2. one \in Seq(FatEntries)
    OBVIOUS
  <2> HIDE DEF one
  <2>3. (w \o one) \o r = w \o (one \o r)
    BY <2>2, ConcatAssociative
  <2>4. QED
    BY <1>2, <2>1, <2>3 DEF one
<1>9. SubSeq(all, 1, k) = w
  <2> DEFINE one == << e >>
  <2>1. one \in Seq(FatEntries)
    OBVIOUS
  <2> HIDE DEF one
  <2>2. one \o r \in Seq(FatEntries)
    BY <2>1, ConcatProperties
  <2> DEFINE q == one \o r
  <2> HIDE DEF q
  <2>3. SubSeq(w \o q, 1, Len(w)) = w
    BY <2>2, FrontIs DEF q
  <2>4. QED
    BY <1>8, <2>3 DEF q, one
<1>10. UpToEnd(all) = w
  BY <1>6, <1>7, <1>9 DEF EndsBehind
<1>11. DOMAIN all = 1..Len(all)
  BY <1>3, LenProperties
<1>12. QED
  BY <1>4, <1>10, <1>11

\* It goes on as long as there is none.
LEMMA UpToEndPast ==
  ASSUME NEW w \in Seq(FatEntries), NoEnd(w), NEW all, Continues(all, w, FatEntries)
  PROVE  Continues(UpToEnd(all), w, FatEntries)
<1> DEFINE k == Len(w)
<1>1. k \in Nat
  BY LenProperties
<1>2. PICK r \in Seq(FatEntries) : all = w \o r
  BY DEF Continues
<1>3. /\ all \in Seq(FatEntries) /\ Len(all) = k + Len(r) /\ Len(r) \in Nat
      /\ \A i \in 1..(k + Len(r)) : all[i] = IF i <= k THEN w[i] ELSE r[i - k]
  BY <1>2, ConcatProperties, LenProperties
<1>4. \A i \in 1..k : all[i].kind # "end"
  BY <1>1, <1>3 DEF NoEnd
<1>5. PICK n \in Nat : EndsBehind(all, n)
  BY <1>3, UpToEndIs
<1>6. n \in 0..Len(all) /\ n >= k /\ UpToEnd(all) = SubSeq(all, 1, n)
  <2>1. n \in 0..Len(all) /\ (n < Len(all) => all[n + 1].kind = "end") /\ UpToEnd(all) = SubSeq(all, 1, n)
    BY <1>5 DEF EndsBehind
  <2>2. n < k => n < Len(all) /\ n + 1 \in 1..k
    BY <1>1, <1>3
  <2>3. QED
    BY <1>1, <1>4, <2>1, <2>2
<1> DEFINE q == SubSeq(all, k + 1, n)
<1>7. SubSeq(all, 1, k) \o q = SubSeq(all, 1, n)
  <2>1. 1 \in 1..(Len(all) + 1) /\ k \in (1 - 1)..Len(all) /\ n \in k..Len(all)
    BY <1>1, <1>3, <1>6
  <2>2. QED
    BY <1>3, <2>1, ConcatAdjacentSubSeq
<1>8. SubSeq(all, 1, k) = w
  BY <1>2, FrontIs
<1>9. q \in Seq(FatEntries)
  <2>1. \A i \in (k + 1)..n : all[i] \in FatEntries
    <3>1. \A i \in (k + 1)..n : i \in 1..Len(all)
      BY <1>1, <1>3, <1>6
    <3>2. QED
      BY <1>3, <3>1, ElementOfSeq
  <2>2. k + 1 \in Int /\ n \in Int
    BY <1>1
  <2>3. QED
    BY <2>1, <2>2, SubSeqProperties
<1> HIDE DEF q
<1>10. QED
  BY <1>6, <1>7, <1>8, <1>9 DEF Continues

-----------------------------------------------------------------------------
(* FAT32: clusters with nothing to list *)

\* Neither an end nor a name.
Silent(c) == \A i \in 1..Len(vol.dir[c]) : vol.dir[c][i].kind # "end" /\ ~Live(vol.dir[c][i])

\* A chain does not lead through many of them in a row to one that is not.
LEMMA SilentShort ==
  ASSUME FatMounted, NEW c \in Nat, NEW m \in Nat, NEW n \in Nat, m <= n,
         \A i \in m..(n - 1) : Links(c)[i] < Eoc /\ Silent(Links(c)[i])
  PROVE  /\ Links(c)[n] >= Eoc => n - m <= Eoc
         /\ Links(c)[n] < Eoc /\ ~Silent(Links(c)[n]) => n - m < Eoc
<1> DEFINE link == Links(c)
           g == [i \in Nat |-> link[m + i]]
           k == n - m
<1>1. /\ link \in [Nat -> Nat] /\ Eoc \in Nat
      /\ \A i \in Nat : link[i + 1] = fat32_get_cluster(link[i])
  BY FatChain, Fat32Assumption
<1>2. \A i \in m..(n - 1) : link[i] < Eoc /\ Silent(link[i])
  OBVIOUS
<1> HIDE DEF link
<1>3. g \in [Nat -> Nat] /\ \A i \in Nat : g[i] = link[m + i]
  BY <1>1
<1> HIDE DEF g
<1>4. \A i \in Nat : g[i + 1] = fat32_get_cluster(g[i])
  <2>1. ASSUME NEW i \in Nat PROVE g[i + 1] = fat32_get_cluster(g[i])
    <3>1. i + 1 \in Nat /\ m + i \in Nat /\ m + (i + 1) = (m + i) + 1
      OBVIOUS
    <3>2. g[i + 1] = link[(m + i) + 1] /\ g[i] = link[m + i]
      BY <1>3, <3>1
    <3>3. QED
      BY <1>1, <3>1, <3>2
  <2>2. QED
    BY <2>1
<1>5. \A i, j \in Nat : g[i] = g[j] => g[i + 1] = g[j + 1]
  BY <1>4
<1>6. k \in Nat /\ g[k] = link[n] /\ \A i \in 0..(k - 1) : g[i] < Eoc /\ Silent(g[i])
  <2>1. k \in Nat /\ m + k = n
    OBVIOUS
  <2>2. \A i \in 0..(k - 1) : m + i \in m..(n - 1) /\ i \in Nat
    BY <2>1
  <2>3. g[k] = link[m + k]
    BY <1>3, <2>1
  <2> HIDE DEF k
  <2>4. QED
    BY <1>2, <1>3, <2>1, <2>2, <2>3
<1> HIDE DEF k
<1>7. ASSUME g[k] >= Eoc, k > Eoc PROVE FALSE
  <2> DEFINE p == k - 1
  <2>1. p \in Nat /\ p >= Eoc /\ p + 1 = k /\ p \in 0..(k - 1)
    BY <1>1, <1>6, <1>7
  <2> HIDE DEF p
  <2>2. \A i \in 0..p : g[i] < Eoc
    <3>1. \A i \in 0..p : i \in 0..(k - 1)
      BY <1>6, <2>1
    <3>2. QED
      BY <1>6, <3>1
  <2>3. PICK q \in 0..(p - 1) : q < Eoc /\ g[q] = g[p]
    BY <1>1, <1>3, <1>5, <2>1, <2>2, ComesBack
  <2>4. g[q + 1] = g[k] /\ q \in Nat /\ q + 1 \in 0..p
    <3>1. q \in Nat /\ q + 1 \in 0..p
      BY <2>1
    <3>2. g[q + 1] = g[p + 1]
      BY <1>5, <2>1, <2>3, <3>1
    <3>3. QED
      BY <2>1, <3>1, <3>2
  <2>5. g[q + 1] < Eoc /\ g[q + 1] \in Nat
    <3>1. q + 1 \in Nat
      BY <2>4
    <3>2. QED
      BY <1>3, <2>2, <2>4, <3>1
  <2>6. QED
    BY <1>1, <1>7, <2>4, <2>5
<1>8. ASSUME g[k] < Eoc, ~Silent(g[k]), k >= Eoc PROVE FALSE
  <2>1. \A i \in 0..k : g[i] < Eoc
    <3>1. \A i \in 0..k : i \in 0..(k - 1) \/ i = k
      BY <1>6
    <3>2. QED
      BY <1>6, <1>8, <3>1
  <2>2. PICK q \in 0..(k - 1) : q < Eoc /\ g[q] = g[k]
    BY <1>1, <1>3, <1>5, <1>6, <1>8, <2>1, ComesBack
  <2>3. QED
    BY <1>6, <1>8, <2>2
<1>9. /\ link[n] >= Eoc => k <= Eoc
      /\ link[n] < Eoc /\ ~Silent(link[n]) => k < Eoc
  BY <1>1, <1>6, <1>7, <1>8
<1>10. QED
  BY <1>9 DEF link, k

-----------------------------------------------------------------------------
(* FAT32: the listing of a directory *)

\* The listing of the chain from c on has come to its n-th cluster, and has
\* found no name since the m-th.
FatListed(c, m, n, locals, names) ==
  LET link == Links(c)
  IN  /\ n \in Nat /\ m \in 0..n
      /\ locals = [cluster |-> link[n], offset |-> Lines(names)]
      /\ \A i \in 0..(n - 1) : Loads(link[i])
      /\ NoEnd(Contents(link, n))
      /\ names = Picked(Contents(link, n), FatShown) /\ Fitted(names, call.size)
      /\ m <= Eoc * Len(names)
      /\ \A i \in m..(n - 1) : Silent(link[i])

\* The listing of directory e.
FatListing(e, locals, names) ==
  /\ FatMounted /\ e.cluster \in Nat /\ call.size \in Rooms
  /\ \E m, n : FatListed(e.cluster, m, n, locals, names)

\* The listing ends in the first n clusters.
FatListedIn(link, n, value, got) ==
  LET all == Contents(link, n)
      names == NamesOf(UpToEnd(all), Live)
  IN  /\ \A i \in 0..(n - 1) : Loads(link[i])
      /\ FitsBy(names, call.size, value, got)
      /\ \/ Len(got) < Len(names)
         \/ \E i \in DOMAIN all : all[i].kind = "end"
         \/ link[n] >= Eoc

\* What it answers.
FatListsAs(e, value, got) ==
  \E n \in 0..(Eoc * (call.size + 1)) : FatListedIn(Links(e.cluster), n, value, got)

\* The clusters on the way hold entries.
LEMMA FatOnTheWay ==
  ASSUME FatMounted, NEW c \in Nat, NEW n \in Nat, \A i \in 0..(n - 1) : Loads(Links(c)[i])
  PROVE  /\ Links(c) \in [Nat -> Nat] /\ Links(c)[n] \in Nat
         /\ Contents(Links(c), n) \in Seq(FatEntries)
         /\ n = 0 => Contents(Links(c), n) = << >>
         /\ Loads(Links(c)[n]) =>
              /\ Contents(Links(c), n + 1) = Contents(Links(c), n) \o vol.dir[Links(c)[n]]
              /\ vol.dir[Links(c)[n]] \in Seq(FatEntries)
<1> DEFINE link == Links(c)
<1>1. link \in [Nat -> Nat]
  BY FatChain
<1>2. \A i \in 0..(n - 1) : Loads(link[i])
  OBVIOUS
<1> HIDE DEF link
<1>3. \A i \in Nat : Loads(link[i]) => vol.dir[link[i]] \in Seq(FatEntries)
  BY <1>1, ClusterEntries DEF Loads
<1>4. \A i \in 0..(n - 1) : vol.dir[link[i]] \in Seq(FatEntries)
  BY <1>2, <1>3
<1>5. Contents(link, n) \in Seq(FatEntries)
  BY <1>1, <1>4, ContentsOf
<1>6. n = 0 => Contents(link, n) = << >>
  BY <1>1, <1>4, ContentsOf
<1>7. ASSUME Loads(link[n])
      PROVE  Contents(link, n + 1) = Contents(link, n) \o vol.dir[link[n]]
  <2>1. \A i \in 0..((n + 1) - 1) : vol.dir[link[i]] \in Seq(FatEntries)
    <3>1. \A i \in 0..((n + 1) - 1) : i \in 0..(n - 1) \/ i = n
      OBVIOUS
    <3>2. QED
      BY <1>3, <1>4, <1>7, <3>1
  <2>2. n + 1 \in Nat /\ n + 1 > 0 /\ (n + 1) - 1 = n
    OBVIOUS
  <2>3. Contents(link, n + 1) = Contents(link, (n + 1) - 1) \o vol.dir[link[(n + 1) - 1]]
    BY <1>1, <2>1, <2>2, ContentsOf
  <2>4. QED
    BY <2>2, <2>3
<1>8. QED
  BY <1>1, <1>3, <1>5, <1>6, <1>7 DEF link

\* It begins before the first cluster.
LEMMA FatListingStarts ==
  ASSUME FatMounted, NEW e, e.cluster \in Nat, call.size \in Rooms
  PROVE  FatListing(e, [cluster |-> e.cluster, offset |-> 0], << >>)
<1> DEFINE c == e.cluster
           link == Links(c)
           none == << >>
<1>1. link[0] = c
  BY FatChain
<1>2. Contents(link, 0) = none
  <2>1. 0 \in Nat /\ \A i \in 0..(0 - 1) : Loads(Links(c)[i])
    OBVIOUS
  <2> HIDE DEF c
  <2>2. c \in Nat
    BY DEF c
  <2>3. Contents(Links(c), 0) = << >>
    BY <2>1, <2>2, FatOnTheWay
  <2>4. QED
    BY <2>3 DEF link
<1>3. none \in Seq(FatNames) /\ none \in Seq(FatEntries) /\ Len(none) = 0
  BY EmptySeq
<1>4. Picked(none, FatShown) = none
  <2>1. AllNamed(FatEntries, FatNames)
    BY DEF AllNamed, FatEntries
  <2>2. QED
    BY <2>1, PickedNone
<1>5. Lines(none) = 0
  <2> HIDE DEF none
  <2> QED
    BY <1>3, EndsGrow
<1>6. NoEnd(none) /\ Fitted(none, call.size)
  BY <1>3 DEF NoEnd, Fitted
<1>7. 0 \in Nat /\ 0 \in 0..0 /\ 0..(0 - 1) = {} /\ 0 <= Eoc * 0
  BY Fat32Assumption
<1> HIDE DEF link, none, c
<1>8. FatListed(c, 0, 0, [cluster |-> c, offset |-> 0], none)
  BY <1>1, <1>2, <1>3, <1>4, <1>5, <1>6, <1>7 DEF FatListed, link
<1>9. QED
  BY <1>8 DEF FatListing, c, none

\* The first clusters are not more than the answer may be about.
LEMMA FatListedFew ==
  ASSUME NEW m \in Nat, NEW n \in Nat, NEW l \in Nat, NEW size \in Nat, Eoc \in Nat,
         m <= Eoc * l, n - m <= Eoc, l <= size
  PROVE  n \in 0..(Eoc * (size + 1))
<1>1. Eoc * l <= Eoc * size /\ Eoc * size \in Nat /\ Eoc * l \in Nat
  BY ProductGrows
<1>2. Eoc * (size + 1) = Eoc * size + Eoc /\ Eoc * (size + 1) \in Nat
  BY Multiples
<1> DEFINE a == Eoc * l
           b == Eoc * size
           d == Eoc * (size + 1)
<1>3. a <= b /\ a \in Nat /\ b \in Nat /\ d = b + Eoc /\ d \in Nat /\ m <= a
  BY <1>1, <1>2
<1> HIDE DEF a, b, d
<1>4. n <= d
  BY <1>3
<1>5. QED
  BY <1>3, <1>4 DEF d

\* No more names are listed than there is room for.
LEMMA FewNames ==
  ASSUME NEW names \in Seq(FatNames), NEW size \in Rooms, Fitted(names, size)
  PROVE  Len(names) <= size /\ Len(names) \in Nat /\ size \in Nat /\ Lines(names) \in Nat
<1>1. size \in Nat
  BY DiskAssumption
<1>2. Lines(names) \in Nat /\ Len(names) \in Nat /\ Len(names) <= Lines(names)
  BY EndsGrow
<1>3. CASE names = << >>
  <2>1. Len(names) = 0
    BY <1>3
  <2>2. QED
    BY <1>1, <1>2, <2>1
<1>4. CASE names # << >>
  <2>1. Lines(names) + 1 <= size
    BY <1>4 DEF Fitted
  <2>2. QED
    BY <1>1, <1>2, <2>1
<1>5. QED
  BY <1>3, <1>4

\* The listing ends behind the last cluster.
LEMMA FatListsEnd ==
  ASSUME NEW e, FatListing(e, at, out), at.cluster >= Eoc
  PROVE  FatListsAs(e, at.offset, out)
<1> DEFINE c == e.cluster
           link == Links(c)
           size == call.size
<1>1. FatMounted /\ c \in Nat /\ size \in Rooms /\ Eoc \in Nat
  BY Fat32Assumption DEF FatListing
<1>2. PICK m, n : FatListed(c, m, n, at, out)
  BY DEF FatListing
<1> DEFINE all == Contents(link, n)
<1>3. /\ n \in Nat /\ m \in 0..n
      /\ at = [cluster |-> link[n], offset |-> Lines(out)]
      /\ \A i \in 0..(n - 1) : Loads(link[i])
      /\ NoEnd(all) /\ out = Picked(all, FatShown) /\ Fitted(out, size)
      /\ m <= Eoc * Len(out) /\ \A i \in m..(n - 1) : Silent(link[i])
  BY <1>2 DEF FatListed
<1>4. at.cluster = link[n] /\ at.offset = Lines(out) /\ link[n] >= Eoc
  BY <1>3
<1>5. all \in Seq(FatEntries)
  BY <1>1, <1>3, FatOnTheWay
<1>6. out \in Seq(FatNames)
  <2> HIDE DEF all
  <2> QED
    BY <1>3, <1>5, FatNamed
<1>7. n - m <= Eoc
  <2>1. m \in Nat /\ m <= n /\ \A i \in m..(n - 1) : Links(c)[i] < Eoc /\ Silent(Links(c)[i])
    <3>1. \A i \in m..(n - 1) : i \in 0..(n - 1)
      BY <1>3
    <3>2. QED
      BY <1>3, <3>1 DEF Loads
  <2>2. QED
    BY <1>1, <1>3, <1>4, <2>1, SilentShort
<1>8. n \in 0..(Eoc * (size + 1))
  <2>1. Len(out) <= size /\ Len(out) \in Nat /\ size \in Nat
    BY <1>1, <1>3, <1>6, FewNames
  <2>2. m \in Nat /\ m <= Eoc * Len(out)
    BY <1>3
  <2> DEFINE l == Len(out)
  <2> HIDE DEF l, size
  <2>3. l <= size /\ l \in Nat /\ size \in Nat /\ m <= Eoc * l
    BY <2>1, <2>2 DEF l
  <2>4. QED
    BY <1>1, <1>3, <1>7, <2>2, <2>3, FatListedFew
<1>9. NamesOf(UpToEnd(all), Live) = out
  <2> HIDE DEF all
  <2>1. UpToEnd(all) = all
    BY <1>3, <1>5, UpToEndAll
  <2>2. QED
    BY <1>3, <1>5, <2>1, NamesLive DEF FatShown
<1>10. FitsBy(out, size, at.offset, out)
  <2> DEFINE none == << >>
  <2>1. none \in Seq(FatNames)
    BY EmptySeq
  <2>2. size \in Nat
    BY <1>1, DiskAssumption
  <2> HIDE DEF size
  <2>3. FitsBy(out \o none, size, Lines(out), out)
    BY <1>3, <1>6, <2>1, <2>2, FitsAll
  <2>4. out \o none = out
    BY <1>6, ConcatEmptySeq
  <2>5. QED
    BY <1>4, <2>3, <2>4
<1> HIDE DEF link, all
<1>11. FatListedIn(link, n, at.offset, out)
  BY <1>3, <1>4, <1>9, <1>10 DEF FatListedIn, all
<1>12. QED
  BY <1>8, <1>11 DEF FatListsAs, link

\* One cluster more, or the end of the listing in it.
LEMMA FatListsOn ==
  ASSUME NEW e, FatListing(e, at, out), Loads(at.cluster)
  PROVE  LET now == Listed(vol.dir[at.cluster], at.offset, out, call.size)
         IN  /\ now.over => FatListsAs(e, now.offset, now.names)
             /\ ~now.over =>
                  FatListing(e, [cluster |-> fat32_get_cluster(at.cluster), offset |-> now.offset], now.names)
<1> DEFINE c == e.cluster
           link == Links(c)
           size == call.size
           now == Listed(vol.dir[at.cluster], at.offset, out, call.size)
<1>1. FatMounted /\ c \in Nat /\ size \in Rooms /\ Eoc \in Nat /\ size \in Nat
  BY Fat32Assumption, DiskAssumption DEF FatListing
<1>2. PICK m, n : FatListed(c, m, n, at, out)
  BY DEF FatListing
<1> DEFINE b == Contents(link, n)
           d == vol.dir[link[n]]
<1>3. /\ n \in Nat /\ m \in 0..n
      /\ at = [cluster |-> link[n], offset |-> Lines(out)]
      /\ \A i \in 0..(n - 1) : Loads(link[i])
      /\ NoEnd(b) /\ out = Picked(b, FatShown) /\ Fitted(out, size)
      /\ m <= Eoc * Len(out) /\ \A i \in m..(n - 1) : Silent(link[i])
  BY <1>2 DEF FatListed
<1>4. at.cluster = link[n] /\ at.offset = Lines(out) /\ Loads(link[n])
  BY <1>3
<1>5. /\ b \in Seq(FatEntries) /\ d \in Seq(FatEntries) /\ Contents(link, n + 1) = b \o d
      /\ link \in [Nat -> Nat]
  BY <1>1, <1>3, <1>4, FatOnTheWay
<1>6. \A i \in 0..((n + 1) - 1) : Loads(link[i])
  <2>1. \A i \in 0..((n + 1) - 1) : i \in 0..(n - 1) \/ i = n
    BY <1>3
  <2>2. QED
    BY <1>3, <1>4, <2>1
<1>7. now = Listed(d, Lines(out), out, size)
  BY <1>4
<1> HIDE DEF b, d, size
<1>8. ListedTo(b, d, size, now)
  <2> HIDE DEF now
  <2> QED
    BY <1>1, <1>3, <1>5, <1>7, ListedIs
<1> HIDE DEF now, link
<1>9. PICK j \in 0..Len(d) : ListedUpTo(b, d, size, j, now) /\ (~now.over => j = Len(d))
  BY <1>8 DEF ListedTo
<1> DEFINE w == Onward(b, d, j)
           names == Picked(w, FatShown)
<1>10. /\ now.names = names /\ now.offset = Lines(names) /\ Fitted(names, size)
       /\ \A i \in 1..j : d[i].kind # "end"
       /\ now.over => j < Len(d) /\ EndsAt(d[j + 1], names, size)
  BY <1>9 DEF ListedUpTo
<1>11. w \in Seq(FatEntries) /\ Continues(b \o d, w, FatEntries)
  BY <1>5, <1>9, OnwardGrows
<1>12. NoEnd(w)
  <2>1. j \in Nat /\ Len(d) \in Nat /\ Len(b) \in Nat
    BY <1>5, <1>9, LenProperties
  <2> DEFINE f == SubSeq(d, 1, j)
  <2>2. /\ f \in Seq(FatEntries) /\ Len(f) = j /\ \A i \in 1..j : f[i] = d[i]
    <3>1. \A i \in 1..j : d[i] \in FatEntries
      <4>1. \A i \in 1..j : i \in 1..Len(d)
        BY <1>9, <2>1
      <4>2. QED
        BY <1>5, <4>1, ElementOfSeq
    <3>2. /\ SubSeq(d, 1, j) \in Seq(FatEntries)
          /\ Len(SubSeq(d, 1, j)) = IF 1 <= j THEN j - 1 + 1 ELSE 0
          /\ \A i \in 1..(j - 1 + 1) : SubSeq(d, 1, j)[i] = d[1 + i - 1]
      BY <2>1, <3>1, SubSeqProperties
    <3> HIDE DEF f
    <3>3. Len(f) = j /\ \A i \in 1..j : f[i] = d[i]
      BY <2>1, <3>2 DEF f
    <3>4. QED
      BY <3>2, <3>3 DEF f
  <2>3. w = b \o f
    BY DEF Onward
  <2> HIDE DEF f, w
  <2>4. /\ Len(b \o f) = Len(b) + Len(f)
        /\ \A i \in 1..(Len(b) + Len(f)) : (b \o f)[i] = IF i <= Len(b) THEN b[i] ELSE f[i - Len(b)]
    BY <1>5, <2>2, ConcatProperties
  <2>5. ASSUME NEW i \in 1..Len(w) PROVE w[i].kind # "end"
    <3>1. i \in 1..(Len(b) + j)
      BY <2>2, <2>3, <2>4
    <3>2. CASE i <= Len(b)
      <4>1. i \in 1..Len(b) /\ w[i] = b[i]
        BY <2>1, <2>2, <2>3, <2>4, <3>1, <3>2
      <4>2. QED
        BY <1>3, <4>1 DEF NoEnd
    <3>3. CASE ~(i <= Len(b))
      <4>1. i - Len(b) \in 1..j /\ w[i] = f[i - Len(b)]
        BY <2>1, <2>2, <2>3, <2>4, <3>1, <3>3
      <4>2. QED
        BY <1>10, <2>2, <4>1
    <3>4. QED
      BY <2>1, <3>1, <3>2, <3>3
  <2>6. QED
    BY <2>5 DEF NoEnd
<1> HIDE DEF w
<1>13. names \in Seq(FatNames) /\ out \in Seq(FatNames) /\ AllNamed(FatEntries, FatNames)
  BY <1>3, <1>5, <1>11, FatNamed
<1>14. \A i \in m..(n - 1) : link[i] < Eoc /\ Silent(link[i])
  <2>1. \A i \in m..(n - 1) : i \in 0..(n - 1)
    BY <1>3
  <2>2. QED
    BY <1>3, <2>1 DEF Loads
<1>15. ASSUME ~Silent(link[n]) PROVE n - m < Eoc
  <2>1. m \in Nat /\ m <= n
    BY <1>3
  <2>2. link[n] < Eoc
    BY <1>4 DEF Loads
  <2>3. QED
    BY <1>1, <1>3, <1>14, <1>15, <2>1, <2>2, SilentShort DEF link
<1>16. Len(out) <= size /\ Len(out) \in Nat /\ Len(names) <= size /\ Len(names) \in Nat /\ Len(out) <= Len(names)
  <2>1. Len(out) <= size /\ Len(out) \in Nat
    BY <1>1, <1>3, <1>13, FewNames
  <2>2. Len(names) <= size /\ Len(names) \in Nat
    <3> HIDE DEF names
    <3> QED
      BY <1>1, <1>10, <1>13, FewNames
  <2>3. PICK r \in Seq(FatEntries) : w = b \o r
    <3>1. SubSeq(d, 1, j) \in Seq(FatEntries)
      <4>1. \A i \in 1..j : d[i] \in FatEntries
        <5>1. \A i \in 1..j : i \in 1..Len(d)
          BY <1>5, <1>9, LenProperties
        <5>2. QED
          BY <1>5, <5>1, ElementOfSeq
      <4>2. j \in Int
        BY <1>9
      <4>3. QED
        BY <4>1, <4>2, SubSeqProperties
    <3>2. QED
      BY <3>1 DEF w, Onward
  <2>4. PickedInARow(b, r, FatShown, FatNames)
    BY <1>5, <1>13, <2>3, PickedConcat
  <2> DEFINE q == Picked(r, FatShown)
  <2>5. q \in Seq(FatNames) /\ names = out \o q
    BY <1>3, <2>3, <2>4 DEF PickedInARow
  <2> HIDE DEF q, names
  <2>6. Len(names) = Len(out) + Len(q) /\ Len(q) \in Nat
    BY <1>13, <2>5, ConcatProperties, LenProperties
  <2>7. QED
    BY <2>1, <2>2, <2>6
<1>17. ASSUME now.over PROVE FatListsAs(e, now.offset, now.names)
  <2> DEFINE x == d[j + 1]
             all == b \o d
             listed == NamesOf(UpToEnd(all), Live)
  <2>1. j < Len(d) /\ EndsAt(x, names, size) /\ x \in FatEntries /\ Onward(b, d, j + 1) = Append(w, x)
    BY <1>5, <1>9, <1>10, <1>17, OnwardGrows DEF w
  <2>2. all \in Seq(FatEntries) /\ Continues(all, Append(w, x), FatEntries)
    <3>1. j + 1 \in 0..Len(d)
      BY <1>5, <1>9, <2>1, LenProperties
    <3>2. Continues(b \o d, Onward(b, d, j + 1), FatEntries)
      BY <1>5, <3>1, OnwardGrows
    <3>3. QED
      BY <1>5, <2>1, <3>2, ConcatProperties
  <2>3. ~Silent(link[n])
    <3>1. j + 1 \in 1..Len(d)
      BY <1>5, <1>9, <2>1, LenProperties
    <3>2. x.kind = "end" \/ Live(x)
      BY <2>1 DEF EndsAt
    <3>3. QED
      BY <3>1, <3>2 DEF Silent, d
  <2>4. n + 1 \in 0..(Eoc * (size + 1))
    <3> DEFINE l == Len(out)
               n1 == n + 1
    <3>1. n1 = n + 1 /\ n \in Nat /\ m \in Nat /\ n - m < Eoc
      BY <1>3, <1>15, <2>3
    <3>2. l <= size /\ l \in Nat /\ m <= Eoc * l
      BY <1>3, <1>16
    <3> HIDE DEF l, n1
    <3>3. n1 - m <= Eoc /\ m \in Nat /\ n1 \in Nat
      BY <1>1, <3>1
    <3>4. n1 \in 0..(Eoc * (size + 1))
      BY <1>1, <3>2, <3>3, FatListedFew
    <3>5. QED
      BY <3>4 DEF n1
  <2> HIDE DEF x, all
  <2>5. Len(names) \in Nat
    BY <1>16
  <2>6. ASSUME x.kind = "end"
        PROVE  FitsBy(listed, size, Lines(names), names) /\ \E i \in DOMAIN all : all[i].kind = "end"
    <3>1. UpToEnd(all) = w /\ \E i \in DOMAIN all : all[i].kind = "end"
      BY <1>11, <1>12, <2>1, <2>2, <2>6, UpToEndAt
    <3>2. listed = names
      BY <1>11, <3>1, NamesLive DEF FatShown
    <3> DEFINE none == << >>
    <3>3. none \in Seq(FatNames)
      BY EmptySeq
    <3> HIDE DEF names, listed
    <3>4. FitsBy(names \o none, size, Lines(names), names)
      BY <1>1, <1>10, <1>13, <3>3, FitsAll
    <3>5. names \o none = names
      BY <1>13, ConcatEmptySeq
    <3>6. QED
      BY <3>1, <3>2, <3>4, <3>5
  <2>7. ASSUME x.kind # "end"
        PROVE  FitsBy(listed, size, Lines(names), names) /\ Len(names) < Len(listed)
    <3> DEFINE wx == Append(w, x)
    <3>1. Live(x) /\ Lines(names) + Printed(x.name) + 2 > size
      BY <2>1, <2>7 DEF EndsAt
    <3>2. wx \in Seq(FatEntries) /\ NoEnd(wx)
      <4>1. wx \in Seq(FatEntries) /\ Len(wx) = Len(w) + 1 /\ wx[Len(w) + 1] = x /\ Len(w) \in Nat
            /\ \A i \in 1..Len(w) : wx[i] = w[i]
        BY <1>11, <2>1, AppendProperties, LenProperties
      <4> HIDE DEF wx
      <4>2. \A i \in 1..Len(wx) : i \in 1..Len(w) \/ i = Len(w) + 1
        BY <4>1
      <4>3. QED
        BY <1>12, <2>7, <4>1, <4>2 DEF NoEnd
    <3> HIDE DEF wx
    <3>3. PICK r \in Seq(FatEntries) : UpToEnd(all) = wx \o r
      <4>1. Continues(UpToEnd(all), wx, FatEntries)
        BY <2>2, <3>2, UpToEndPast DEF wx
      <4>2. QED
        BY <4>1 DEF Continues
    <3>4. UpToEnd(all) \in Seq(FatEntries)
      BY <3>2, <3>3, ConcatProperties
    <3>5. listed = Picked(UpToEnd(all), FatShown)
      BY <3>4, NamesLive DEF FatShown
    <3> DEFINE y == x.name
               q == Picked(r, FatShown)
               one == << y >>
    <3>6. y \in FatNames
      BY <1>13, <2>1 DEF AllNamed
    <3>7. Picked(wx, FatShown) = Append(names, y)
      <4>1. PickedWith(w, x, FatShown, FatNames)
        BY <1>11, <1>13, <2>1, PickedAppend
      <4>2. x \in FatShown
        BY <2>1, <3>1 DEF FatShown
      <4>3. QED
        BY <4>1, <4>2 DEF PickedWith, wx
    <3>8. PickedInARow(wx, r, FatShown, FatNames)
      BY <1>13, <3>2, <3>3, PickedConcat
    <3>9. q \in Seq(FatNames) /\ listed = Append(names, y) \o q
      BY <3>3, <3>5, <3>7, <3>8 DEF PickedInARow
    <3> HIDE DEF q, y, names, listed
    <3>10. one \in Seq(FatNames) /\ Append(names, y) = names \o one
      BY <1>13, <3>6, AppendIsConcat
    <3> HIDE DEF one
    <3>11. (names \o one) \o q = names \o (one \o q)
      <4>1. names \in Seq(FatNames) /\ one \in Seq(FatNames) /\ q \in Seq(FatNames)
        BY <1>13, <3>9, <3>10
      <4>2. QED
        BY <4>1, ConcatAssociative
    <3> DEFINE t == one \o q
    <3>12. t \in Seq(FatNames) /\ t[1] = y /\ Len(t) >= 1 /\ Len(t) \in Nat
      <4>1. Len(one) = 1 /\ one[1] = y
        BY DEF one
      <4>2. /\ one \o q \in Seq(FatNames) /\ Len(one \o q) = Len(one) + Len(q) /\ Len(q) \in Nat
            /\ \A i \in 1..(Len(one) + Len(q)) : (one \o q)[i] = IF i <= Len(one) THEN one[i] ELSE q[i - Len(one)]
        BY <3>9, <3>10, ConcatProperties, LenProperties
      <4>3. 1 \in 1..(Len(one) + Len(q))
        BY <4>1, <4>2
      <4>4. QED
        BY <4>1, <4>2, <4>3
    <3> HIDE DEF t
    <3>13. listed = names \o t
      BY <3>9, <3>10, <3>11 DEF t
    <3>14. Lines(names) + Printed(t[1]) + 2 > size
      BY <3>1, <3>12 DEF y
    <3>15. FitsBy(names \o t, size, Lines(names), names)
      BY <1>1, <1>10, <1>13, <3>12, <3>14, FitsAll
    <3>16. Len(listed) = Len(names) + Len(t)
      BY <1>13, <3>12, <3>13, ConcatProperties
    <3>17. QED
      BY <2>5, <3>12, <3>13, <3>15, <3>16
  <2> HIDE DEF listed, names
  <2>8. FatListedIn(link, n + 1, Lines(names), names)
    <3>1. Contents(link, n + 1) = all
      BY <1>5 DEF all
    <3>2. /\ FitsBy(listed, call.size, Lines(names), names)
          /\ Len(names) < Len(listed) \/ \E i \in DOMAIN all : all[i].kind = "end"
      BY <2>6, <2>7 DEF size
    <3>3. QED
      BY <1>6, <3>1, <3>2 DEF FatListedIn, listed
  <2>9. FatListsAs(e, Lines(names), names)
    BY <2>4, <2>8 DEF FatListsAs, link, size
  <2>10. QED
    BY <1>10, <2>9
<1>18. ASSUME ~now.over
       PROVE  FatListing(e, [cluster |-> fat32_get_cluster(at.cluster), offset |-> now.offset], now.names)
  <2> DEFINE m2 == IF Silent(link[n]) THEN m ELSE n + 1
  <2>1. w = b \o d
    BY <1>5, <1>9, <1>18, SubSeqFull DEF w, Onward
  <2>2. link[n + 1] = fat32_get_cluster(at.cluster)
    BY <1>1, <1>3, <1>4, FatChain DEF link
  <2>3. n + 1 \in Nat /\ m2 \in 0..(n + 1)
    BY <1>3
  <2>4. \A i \in m2..((n + 1) - 1) : Silent(link[i])
    <3>1. CASE Silent(link[n])
      <4>1. \A i \in m..((n + 1) - 1) : i \in m..(n - 1) \/ i = n
        BY <1>3
      <4>2. QED
        BY <1>3, <3>1, <4>1
    <3>2. CASE ~Silent(link[n])
      <4>1. m2..((n + 1) - 1) = {}
        BY <1>3, <3>2
      <4>2. QED
        BY <4>1
    <3>3. QED
      BY <3>1, <3>2
  <2>5. m2 <= Eoc * Len(names)
    <3> DEFINE l == Len(out)
               k == Len(names)
    <3>1. l \in Nat /\ k \in Nat /\ l <= k /\ m <= Eoc * l
      BY <1>3, <1>16
    <3>2. CASE Silent(link[n])
      <4> HIDE DEF l, k
      <4>1. Eoc * l <= Eoc * k /\ Eoc * l \in Nat /\ Eoc * k \in Nat
        BY <1>1, <3>1, ProductGrows
      <4> DEFINE x == Eoc * l
                 y == Eoc * k
      <4>2. x <= y /\ x \in Nat /\ y \in Nat /\ m <= x /\ m2 = m
        BY <3>1, <3>2, <4>1
      <4> HIDE DEF x, y, m2
      <4>3. m2 <= y
        BY <1>3, <4>2
      <4>4. QED
        BY <4>3 DEF y, k
    <3>3. CASE ~Silent(link[n])
      <4>1. n - m < Eoc /\ m2 = n + 1
        BY <1>15, <3>3
      <4>2. PICK i \in 1..Len(d) : d[i].kind = "end" \/ Live(d[i])
        BY <3>3 DEF Silent, d
      <4>3. j = Len(d) /\ Live(d[i])
        BY <1>9, <1>10, <1>18, <4>2
      <4>4. l + 1 <= k
        <5>1. names = out \o Picked(d, FatShown) /\ Picked(d, FatShown) \in Seq(FatNames)
          <6>1. PickedInARow(b, d, FatShown, FatNames)
            BY <1>5, <1>13, PickedConcat
          <6>2. QED
            BY <1>3, <2>1, <6>1 DEF PickedInARow
        <5>2. Len(Picked(d, FatShown)) >= 1 /\ Len(Picked(d, FatShown)) \in Nat
          <6> DEFINE h == i - 1
          <6>1. h \in 0..Len(d) /\ h < Len(d) /\ h + 1 = i /\ i \in 0..Len(d)
            <7>1. Len(d) \in Nat
              BY <1>5, LenProperties
            <7> HIDE DEF m2, l, k, names
            <7>2. QED
              BY <7>1
          <6> DEFINE none == << >>
                     f == Onward(none, d, h)
                     x == d[i]
          <6>2. none \in Seq(FatEntries)
            BY EmptySeq
          <6> HIDE DEF none, h
          <6>3. /\ f \in Seq(FatEntries) /\ d[h + 1] \in FatEntries
                /\ Onward(none, d, h + 1) = Append(f, d[h + 1])
            <7>1. d \in Seq(FatEntries)
              BY <1>5
            <7>2. h \in 0..Len(d) /\ h < Len(d)
              BY <6>1
            <7>3. QED
              BY <6>2, <7>1, <7>2, OnwardGrows
          <6> HIDE DEF f
          <6>4. Onward(none, d, i) = Append(f, x) /\ x \in FatEntries
            BY <6>1, <6>3
          <6>5. Continues(none \o d, Onward(none, d, i), FatEntries)
            BY <1>5, <6>1, <6>2, OnwardGrows
          <6>6. none \o d = d
            BY <1>5, ConcatEmptySeq DEF none
          <6> DEFINE fx == Append(f, x)
          <6>7. PICK r \in Seq(FatEntries) : d = fx \o r
            BY <6>4, <6>5, <6>6 DEF Continues
          <6>8. fx \in Seq(FatEntries)
            BY <6>3, <6>4, AppendProperties
          <6> DEFINE p == Picked(f, FatShown)
                     q == Picked(r, FatShown)
          <6>9. p \in Seq(FatNames) /\ Picked(fx, FatShown) = Append(p, x.name)
            <7>1. PickedWith(f, x, FatShown, FatNames)
              BY <1>13, <6>3, <6>4, PickedAppend
            <7>2. x \in FatShown
              BY <4>3, <6>4 DEF FatShown
            <7>3. QED
              BY <7>1, <7>2 DEF PickedWith
          <6> HIDE DEF fx
          <6>10. PickedInARow(fx, r, FatShown, FatNames)
            BY <1>13, <6>7, <6>8, PickedConcat
          <6>11. q \in Seq(FatNames) /\ Picked(d, FatShown) = Append(p, x.name) \o q
            BY <6>7, <6>9, <6>10 DEF PickedInARow
          <6>12. x.name \in FatNames
            BY <1>13, <6>4 DEF AllNamed
          <6> DEFINE y == x.name
                     py == Append(p, y)
          <6> HIDE DEF p, q, y
          <6>13. py \in Seq(FatNames) /\ Len(py) = Len(p) + 1 /\ Len(p) \in Nat /\ Len(q) \in Nat
            BY <6>9, <6>11, <6>12, AppendProperties, LenProperties DEF y
          <6> HIDE DEF py
          <6>14. Len(py \o q) = Len(py) + Len(q)
            BY <6>11, <6>13, ConcatProperties
          <6>15. Picked(d, FatShown) = py \o q
            BY <6>11 DEF py, y
          <6>16. QED
            BY <6>13, <6>14, <6>15
        <5> DEFINE z == Picked(d, FatShown)
        <5> HIDE DEF z, names
        <5>3. Len(names) = Len(out) + Len(z) /\ Len(z) >= 1 /\ Len(z) \in Nat
          BY <1>13, <5>1, <5>2, ConcatProperties DEF z
        <5>4. QED
          BY <3>1, <5>3
      <4> HIDE DEF l, k
      <4>5. Eoc * (l + 1) <= Eoc * k /\ Eoc * (l + 1) \in Nat /\ Eoc * k \in Nat
        BY <1>1, <3>1, <4>4, ProductGrows
      <4>6. Eoc * (l + 1) = Eoc * l + Eoc /\ Eoc * l \in Nat
        BY <1>1, <3>1, Multiples
      <4> DEFINE x == Eoc * l
                 y == Eoc * k
                 z == Eoc * (l + 1)
      <4>7. z = x + Eoc /\ z <= y /\ x \in Nat /\ y \in Nat /\ m <= x /\ m2 = n + 1
        BY <3>1, <4>1, <4>5, <4>6
      <4> HIDE DEF x, y, z, m2
      <4>8. m2 <= y
        BY <1>1, <1>3, <4>1, <4>7
      <4>9. QED
        BY <4>8 DEF y, k
    <3>4. QED
      BY <3>2, <3>3
  <2> DEFINE locals == [cluster |-> link[n + 1], offset |-> Lines(names)]
  <2>6. Contents(link, n + 1) = w
    BY <1>5, <2>1
  <2> HIDE DEF m2
  <2>7. /\ NoEnd(Contents(link, n + 1))
        /\ names = Picked(Contents(link, n + 1), FatShown) /\ Fitted(names, call.size)
    BY <1>10, <1>12, <2>6 DEF size
  <2> HIDE DEF names
  <2>8. FatListed(c, m2, n + 1, locals, names)
    BY <1>6, <2>3, <2>4, <2>5, <2>7 DEF FatListed, link
  <2>9. FatListing(e, locals, names)
    BY <1>1, <2>8 DEF FatListing, size
  <2>10. QED
    BY <1>10, <2>2, <2>9
<1>19. QED
  BY <1>17, <1>18 DEF now

-----------------------------------------------------------------------------
(* Every listing gives the names of its directory *)

\* How far the listing of a driver is, in its loop, locals and names given.
Listing(loop, locals, names) ==
  /\ loop \in Serving /\ call.op = "list" => call.size \in Rooms
  /\ loop = "list" => FatListing(TheEntry, locals, names)
  /\ vol.driver = "ext2" /\ loop \in {"block", "record"} => Ext2ListingIn(TheEntry, loop, locals, names)
  /\ loop = "listing" => IsoListing(TheEntry, locals, names)

Listings == Listing(pc, at, out) /\ ListsTheDirectory

\* What a listing answers.
Names(value, names, e) ==
  /\ vol.driver = "fat32" => FatListsAs(e, value, names)
  /\ vol.driver = "ext2" => Ext2Lists(e, value, names)
  /\ vol.driver = "iso9660" => IsoLists(e, value, names)

\* The blocks, clusters and records of a volume stay.
LEMMA DirectoriesKept ==
  ASSUME UNCHANGED <<disk, mounted>>
  PROVE  /\ \A link, n : Contents(link, n)' = Contents(link, n)
         /\ \A c : (Loads(c)' <=> Loads(c)) /\ (Silent(c)' <=> Silent(c))
         /\ \A blocks : Ext2Listing(blocks)' = Ext2Listing(blocks)
         /\ \A block, n : Ext2First(block, n)' = Ext2First(block, n)
         /\ \A extent, size : DirectoryRecords(extent, size)' = DirectoryRecords(extent, size)
         /\ \A extent, m : BlocksFrom(extent, m)' = BlocksFrom(extent, m)
         /\ \A size : BlocksOf(size)' = BlocksOf(size) /\ (OffsetWraps(size)' <=> OffsetWraps(size))
<1>1. vol' = vol
  BY DEF vol
<1>2. \A link, n : Contents(link, n)' = Contents(link, n)
  BY <1>1 DEF Contents
<1>3. \A c : (Loads(c)' <=> Loads(c)) /\ (Silent(c)' <=> Silent(c))
  BY <1>1 DEF Loads, Readable, Silent
<1>4. \A b : Ext2Directory(b)' = Ext2Directory(b)
  BY Ext2Kept
<1>5. \A blocks : Ext2Listing(blocks)' = Ext2Listing(blocks)
  BY <1>4 DEF Ext2Listing
<1>6. \A block, n : Ext2First(block, n)' = Ext2First(block, n)
  BY <1>4 DEF Ext2First, Ext2Blocks
<1>7. \A b : Records(b)' = Records(b)
  BY <1>1 DEF Records
<1>8. \A size : BlocksOf(size)' = BlocksOf(size) /\ (OffsetWraps(size)' <=> OffsetWraps(size))
  BY DEF BlocksOf, OffsetWraps
<1>9. \A extent, size : DirectoryRecords(extent, size)' = DirectoryRecords(extent, size)
  BY <1>7, <1>8 DEF DirectoryRecords
<1>10. \A extent, m : BlocksFrom(extent, m)' = BlocksFrom(extent, m)
  BY <1>7 DEF BlocksFrom, From9660
<1>11. QED
  BY <1>2, <1>3, <1>5, <1>6, <1>8, <1>9, <1>10

\* What is known of a listing stays during a call.
LEMMA ListingKept ==
  ASSUME UNCHANGED <<disk, mounted, call>>
  PROVE  /\ Listing(pc, at, out)' <=> Listing(pc', at', out')
         /\ \A value, names, e : Names(value, names, e)' <=> Names(value, names, e)
<1>1. vol' = vol /\ TheEntry' = TheEntry
  BY EntryKept DEF vol
<1>2. \A c : Links(c)' = Links(c)
  BY FatKept
<1>3. \A n : Inode(n)' = Inode(n)
  BY Ext2Kept
<1>4. \A b : Places(b)' = Places(b) /\ Ext2Directory(b)' = Ext2Directory(b)
  BY Ext2Kept
<1>5. /\ \A link, n : Contents(link, n)' = Contents(link, n)
      /\ \A c : (Loads(c)' <=> Loads(c)) /\ (Silent(c)' <=> Silent(c))
      /\ \A blocks : Ext2Listing(blocks)' = Ext2Listing(blocks)
      /\ \A block, n : Ext2First(block, n)' = Ext2First(block, n)
      /\ \A extent, size : DirectoryRecords(extent, size)' = DirectoryRecords(extent, size)
      /\ \A extent, m : BlocksFrom(extent, m)' = BlocksFrom(extent, m)
      /\ \A size : BlocksOf(size)' = BlocksOf(size) /\ (OffsetWraps(size)' <=> OffsetWraps(size))
  BY DirectoriesKept
<1>6. \A c, m, n, locals, names : FatListed(c, m, n, locals, names)' <=> FatListed(c, m, n, locals, names)
  BY <1>2, <1>5 DEF FatListed
<1>7. \A e, locals, names : FatListing(e, locals, names)' <=> FatListing(e, locals, names)
  BY <1>1, <1>6 DEF FatListing, FatMounted
<1>8. \A link, n, value, got : FatListedIn(link, n, value, got)' <=> FatListedIn(link, n, value, got)
  BY <1>5 DEF FatListedIn
<1>9. \A e, value, names : FatListsAs(e, value, names)' <=> FatListsAs(e, value, names)
  BY <1>2, <1>8 DEF FatListsAs
<1>10. \A block, n, locals, names : Ext2Behind(block, n, locals, names)' <=> Ext2Behind(block, n, locals, names)
  BY <1>5 DEF Ext2Behind
<1>11. \A block, n, j, locals, names :
         Ext2Within(block, n, j, locals, names)' <=> Ext2Within(block, n, j, locals, names)
  BY <1>4, <1>5 DEF Ext2Within
<1>12. \A e, loop, locals, names : Ext2ListingIn(e, loop, locals, names)' <=> Ext2ListingIn(e, loop, locals, names)
  BY <1>1, <1>3, <1>10, <1>11 DEF Ext2ListingIn, Ext2Mounted
<1>13. \A e, value, names : Ext2Lists(e, value, names)' <=> Ext2Lists(e, value, names)
  BY <1>3, <1>5 DEF Ext2Lists
<1>14. \A e, m : IsoNames(e, m)' = IsoNames(e, m)
  BY <1>5 DEF IsoNames
<1>15. \A e, locals, names : IsoListing(e, locals, names)' <=> IsoListing(e, locals, names)
  BY <1>1, <1>5, <1>14 DEF IsoListing, IsoMounted
<1>16. \A e, value, names : IsoLists(e, value, names)' <=> IsoLists(e, value, names)
  BY <1>5 DEF IsoLists
<1>17. Listing(pc, at, out)' <=> Listing(pc', at', out')
  BY <1>1, <1>7, <1>12, <1>15 DEF Listing
<1>18. \A value, names, e : Names(value, names, e)' <=> Names(value, names, e)
  BY <1>1, <1>9, <1>13, <1>16 DEF Names
<1>19. QED
  BY <1>17, <1>18

\* A listing that has answered so has listed its directory.
LEMMA NamesDirectory ==
  ASSUME NEW e, vol'.driver \in {"fat32", "ext2", "iso9660"}, Names(ret.value, out, e)'
  PROVE  Lists(e)'
<1>1. CASE vol'.driver = "fat32"
  <2>1. FatListsAs(e, ret.value, out)'
    BY <1>1 DEF Names
  <2>2. FatLists(Links(e.cluster))'
    BY <2>1 DEF FatListsAs, FatListedIn, FatLists, Fits, FitsBy, LineEnds
  <2>3. QED
    BY <1>1, <2>2 DEF Lists
<1>2. CASE vol'.driver = "ext2"
  <2>1. Ext2Lists(e, ret.value, out)'
    BY <1>2 DEF Names
  <2>2. ListsNames(NamesOf(Ext2Listing(Inode(e.inode).block), Used))'
    BY <2>1 DEF Ext2Lists, ListsNames, CutTo
  <2>3. QED
    BY <1>2, <2>2 DEF Lists
<1>3. CASE vol'.driver = "iso9660"
  <2>1. IsoLists(e, ret.value, out)'
    BY <1>3 DEF Names
  <2>2. OffsetWraps(e.size)' \/ ListsNames(NamesOf(DirectoryRecords(e.extent, e.size), Shown))'
    BY <2>1 DEF IsoLists, ListsNames, CutTo
  <2>3. QED
    BY <1>3, <2>2 DEF Lists
<1>4. QED
  BY <1>1, <1>2, <1>3

\* A turn goes on.
LEMMA ListsGoto ==
  ASSUME NEW loop, NEW locals, Goto(loop, locals), loop # "done", Listing(loop, locals, out')
  PROVE  Listings'
<1>1. UNCHANGED <<disk, mounted, call>> /\ pc' = loop /\ at' = locals
  BY DEF Goto
<1>2. Listing(pc, at, out)'
  BY <1>1, ListingKept
<1>3. QED
  BY <1>1, <1>2 DEF Listings, ListsTheDirectory, Answered

\* A turn of a loop that lists nothing.
LEMMA ListsElse ==
  ASSUME pc \in Serving, Listings, NEW loop, NEW locals, Goto(loop, locals),
         \/ loop \in {"part", "search", "found", "skip", "copy", "entry", "chunk"}
         \/ vol.driver = "iso9660" /\ loop \in {"block", "record"}
  PROVE  Listings'
<1>1. Listing(loop, locals, out')
  BY DEF Listings, Listing, Serving
<1>2. QED
  BY <1>1, ListsGoto

\* A call that ends, but a listing that answers.
LEMMA ListsEnd ==
  ASSUME pc' \in {"done", "undefined"}, pc' = "done" => call'.op # "list" \/ ~ret'.ok
  PROVE  Listings'
  BY DEF Listings, Listing, ListsTheDirectory, Answered, Serving

\* A call fails.
LEMMA ListsGive ==
  ASSUME NEW memory, NEW tells, Give(memory, tells)
  PROVE  Listings'
  BY ListsEnd DEF Give, Return, Fail

\* A call that is no listing succeeds.
LEMMA ListsReturn ==
  ASSUME NEW value, NEW memory, Return(Ok(value), memory), call.op # "list"
  PROVE  Listings'
  BY ListsEnd DEF Return

\* A listing succeeds.
LEMMA ListsAnswer ==
  ASSUME Typed, NEW value, NEW memory, Return(Ok(value), memory), UNCHANGED mounted,
         Names(value, out', TheEntry)
  PROVE  Listings'
<1>1. UNCHANGED <<disk, mounted, call>> /\ pc' = "done" /\ ret'.value = value
  BY DEF Return, Ok
<1>2. vol.driver \in {"fat32", "ext2", "iso9660"} /\ vol' = vol /\ TheEntry' = TheEntry
  BY <1>1, DiskAssumption, EntryKept DEF Typed, vol
<1>3. Names(ret.value, out, TheEntry)'
  BY <1>1, <1>2, ListingKept
<1>4. Lists(TheEntry)'
  <2>1. vol'.driver \in {"fat32", "ext2", "iso9660"}
    BY <1>2
  <2>2. QED
    BY <1>3, <2>1, NamesDirectory
<1>5. QED
  BY <1>1, <1>4 DEF Listings, Listing, ListsTheDirectory, Serving

-----------------------------------------------------------------------------
(* Every step of a listing *)

\* One cluster listed.
LEMMA FatListLists ==
  ASSUME Typed, vol.driver = "fat32", FatListing(TheEntry, at, out), call.size \in Rooms, fat32_list
  PROVE  Listings'
<1> DEFINE c == at.cluster
           now == Listed(vol.dir[c], at.offset, out, call.size)
<1>1. CASE \E memory, tells : Give(memory, tells)
  BY <1>1, ListsGive
<1>2. CASE Undefine
  BY <1>2, ListsEnd DEF Undefine
<1>3. CASE c >= Eoc /\ Return(Ok(at.offset), Giving("buf")) /\ UNCHANGED <<mounted, out>>
  <2>1. FatListsAs(TheEntry, at.offset, out)
    BY <1>3, FatListsEnd
  <2>2. Names(at.offset, out', TheEntry)
    BY <1>3, <2>1 DEF Names
  <2>3. QED
    BY <1>3, <2>2, ListsAnswer
<1>4. CASE Loads(c) /\ out' = now.names /\ now.over
           /\ Return(Ok(now.offset), Giving("buf")) /\ UNCHANGED mounted
  <2>1. FatListsAs(TheEntry, now.offset, now.names)
    BY <1>4, FatListsOn
  <2> HIDE DEF now
  <2>2. Names(now.offset, out', TheEntry)
    BY <1>4, <2>1 DEF Names
  <2>3. QED
    BY <1>4, <2>2, ListsAnswer
<1>5. CASE Loads(c) /\ out' = now.names /\ ~now.over
           /\ Goto("list", [cluster |-> fat32_get_cluster(c), offset |-> now.offset])
  <2> DEFINE locals == [cluster |-> fat32_get_cluster(c), offset |-> now.offset]
  <2>1. FatListing(TheEntry, locals, now.names)
    BY <1>5, FatListsOn
  <2>2. Goto("list", locals) /\ out' = now.names
    BY <1>5
  <2> HIDE DEF locals, now
  <2>3. Listing("list", locals, out')
    BY <2>1, <2>2 DEF Listing
  <2>4. QED
    BY <2>2, <2>3, ListsGoto
<1> HIDE DEF now
<1>6. QED
  BY <1>1, <1>2, <1>3, <1>4, <1>5 DEF fat32_list, now

\* Every step of the FAT32 driver.
LEMMA FatStepLists ==
  ASSUME Typed, fat32_step, Finds, Reads, Listings
  PROVE  Listings'
<1>0. vol.driver = "fat32"
  BY DEF fat32_step
<1>1. /\ pc = "found" => at = TheEntry
      /\ Reading(pc, at, out) /\ Listing(pc, at, out)
  BY DEF Finds, OnTheWay, Reads, Listings
<1>2. CASE \E memory, tells : Give(memory, tells)
  BY <1>2, ListsGive
<1>3. CASE Undefine
  BY <1>3, ListsEnd DEF Undefine
<1>4. CASE call.op # "list" /\ \E value, memory : Return(Ok(value), memory)
  BY <1>4, ListsReturn
<1>5. CASE pc \in Serving /\ \E loop \in {"part", "search", "found", "skip", "copy"} :
                               \E locals : Goto(loop, locals)
  BY <1>5, ListsElse
<1>6. ASSUME NEW path, pc \in Serving, Look(path) PROVE Listings'
  BY <1>2, <1>5, <1>6 DEF Look
<1>7. CASE fat32_detect
  BY <1>4, <1>7 DEF fat32_detect, Typed, CallTyped
<1>8. CASE fat32_mount
  <2>1. call.op # "list"
    BY <1>8 DEF fat32_mount, Typed, CallTyped
  <2>2. QED
    BY <1>2, <1>3, <1>4, <1>8, <2>1 DEF fat32_mount
<1>9. CASE fat32_unmount
  BY <1>4, <1>9 DEF fat32_unmount, Typed, CallTyped
<1>10. CASE fat32_open
  BY <1>6, <1>10 DEF fat32_open, Serving
<1>11. CASE fat32_next_part
  BY <1>6, <1>11 DEF fat32_next_part, Serving
<1>12. CASE fat32_find_file
  <2>1. pc \in Serving
    BY <1>12 DEF fat32_find_file, Serving
  <2>2. QED
    BY <1>2, <1>3, <1>5, <1>12, <2>1 DEF fat32_find_file
<1>13. CASE fat32_get_info
  BY <1>4, <1>13 DEF fat32_get_info
<1>14. CASE fat32_read
  <2>1. pc \in Serving /\ call.op # "list"
    BY <1>14 DEF fat32_read, Serving
  <2>2. QED
    BY <1>3, <1>4, <1>5, <1>14, <2>1 DEF fat32_read
<1>15. CASE fat32_skip
  <2>1. pc \in Serving
    BY <1>15 DEF fat32_skip, Serving
  <2>2. QED
    BY <1>2, <1>5, <1>15, <2>1 DEF fat32_skip
<1>16. CASE fat32_copy
  <2>1. pc \in Serving /\ call.op # "list"
    BY <1>16 DEF fat32_copy, Serving, Typed, CallTyped
  <2>2. QED
    BY <1>2, <1>4, <1>5, <1>16, <2>1 DEF fat32_copy
<1>17. CASE fat32_read_dir
  <2> DEFINE locals == [cluster |-> at.cluster, offset |-> 0]
  <2>1. pc = "found" /\ at = TheEntry /\ pc \in Serving /\ call.op = "list"
    BY <1>1, <1>17 DEF fat32_read_dir, Serving
  <2>2. FatMounted /\ at.cluster \in Nat /\ out = << >> /\ call.size \in Rooms
    BY <1>0, <1>1, <2>1 DEF FatMounted, Typed, MountTyped, CallTyped, Reading, Before, FatFile, Listing
  <2>3. FatListing(TheEntry, locals, << >>)
    BY <2>1, <2>2, FatListingStarts
  <2> HIDE DEF locals
  <2>4. CASE Goto("list", locals) /\ UNCHANGED out
    <3>1. Listing("list", locals, out')
      BY <2>2, <2>3, <2>4 DEF Listing
    <3>2. QED
      BY <2>4, <3>1, ListsGoto
  <2>5. QED
    BY <1>2, <1>17, <2>4 DEF fat32_read_dir, locals
<1>18. CASE fat32_list
  <2>1. FatListing(TheEntry, at, out)
    BY <1>1, <1>18 DEF fat32_list, Listing
  <2>2. QED
    BY <1>0, <1>18, <2>1, FatListLists DEF FatListing
<1>19. QED
  BY <1>7, <1>8, <1>9, <1>10, <1>11, <1>12, <1>13, <1>14, <1>15, <1>16, <1>17, <1>18 DEF fat32_step

\* Every step of the ext2 driver.
LEMMA Ext2StepLists ==
  ASSUME Typed, ext2_step, Finds, Reads, Listings
  PROVE  Listings'
<1>0. vol.driver = "ext2"
  BY DEF ext2_step
<1>1. /\ pc = "found" => at = TheEntry
      /\ Reading(pc, at, out) /\ Listing(pc, at, out)
  BY DEF Finds, OnTheWay, Reads, Listings
<1>2. CASE \E memory, tells : Give(memory, tells)
  BY <1>2, ListsGive
<1>3. CASE Undefine
  BY <1>3, ListsEnd DEF Undefine
<1>4. CASE call.op # "list" /\ \E value, memory : Return(Ok(value), memory)
  BY <1>4, ListsReturn
<1>5. CASE \E n : ext2_read_inode(n)
  BY <1>2, <1>3, <1>5 DEF ext2_read_inode
<1>6. CASE pc \in Serving /\ \E loop \in {"found", "entry", "chunk"} : \E locals : Goto(loop, locals)
  BY <1>6, ListsElse
<1>7. ASSUME NEW loop \in {"block", "record"}, NEW locals, NEW names,
             Goto(loop, locals), out' = names, Ext2ListingIn(TheEntry, loop, locals, names), pc \in Serving
      PROVE  Listings'
  <2>1. Listing(loop, locals, out')
    BY <1>1, <1>7 DEF Listing
  <2>2. QED
    BY <1>7, <2>1, ListsGoto
<1>8. CASE ext2_detect
  BY <1>4, <1>8 DEF ext2_detect, Typed, CallTyped
<1>9. CASE ext2_mount
  <2>1. call.op # "list"
    BY <1>9 DEF ext2_mount, Typed, CallTyped
  <2>2. QED
    BY <1>2, <1>3, <1>4, <1>9, <2>1 DEF ext2_mount
<1>10. CASE ext2_unmount
  BY <1>4, <1>10 DEF ext2_unmount, Typed, CallTyped
<1>11. CASE ext2_open
  <2>1. pc \in Serving
    BY <1>11 DEF ext2_open, Serving
  <2>2. QED
    BY <1>2, <1>5, <1>6, <1>11, <2>1 DEF ext2_open, EnterRoot
<1>12. CASE ext2_find_file
  <2>1. pc \in Serving
    BY <1>12 DEF ext2_find_file, Serving
  <2>2. QED
    BY <1>2, <1>6, <1>12, <2>1 DEF ext2_find_file
<1>13. CASE ext2_get_info
  BY <1>4, <1>5, <1>13 DEF ext2_get_info, Tell
<1>14. CASE ext2_fs_read_file
  <2>1. pc \in Serving
    BY <1>14 DEF ext2_fs_read_file, Serving
  <2>2. QED
    BY <1>6, <1>14, <2>1 DEF ext2_fs_read_file
<1>15. CASE ext2_read_file
  <2>1. pc \in Serving /\ call.op # "list"
    BY <1>15 DEF ext2_read_file, Serving, Typed, CallTyped
  <2>2. CASE at.remaining > 0 /\ Chunk(Inode(at.inode))
    BY <1>2, <1>6, <2>1, <2>2 DEF Chunk
  <2>3. QED
    BY <1>4, <1>5, <1>15, <2>1, <2>2 DEF ext2_read_file
<1>16. CASE ext2_list_dir
  <2> DEFINE locals == [block |-> Inode(at.inode).block, i |-> 1, offset |-> 0]
             none == << >>
  <2>1. pc = "found" /\ at = TheEntry /\ pc \in Serving
    BY <1>1, <1>16 DEF ext2_list_dir, Serving
  <2>2. Ext2Mounted /\ call.size \in Nat /\ out = none
    BY <1>0, <1>1, <2>1, Ext2Assumption, DiskAssumption
       DEF Ext2Mounted, Ext2Volume, Typed, MountTyped, CallTyped, vol, Reading, Before
  <2>3. Ext2ListingIn(TheEntry, "block", locals, none)
    BY <2>1, <2>2, Ext2ListingStarts
  <2> HIDE DEF locals, none
  <2>4. CASE Goto("block", locals) /\ UNCHANGED out
    BY <1>7, <2>1, <2>2, <2>3, <2>4
  <2>5. QED
    BY <1>2, <1>5, <1>16, <2>4 DEF ext2_list_dir, EnterDir, locals
<1>17. CASE ext2_list_block
  <2>1. Ext2ListingIn(TheEntry, "block", at, out) /\ pc \in Serving
    BY <1>0, <1>1, <1>17 DEF ext2_list_block, Listing, Serving
  <2>2. CASE /\ ~(at.i <= Direct /\ at.block[at.i] # 0)
             /\ Return(Ok(Len(out)), Giving("buf")) /\ UNCHANGED <<mounted, out>>
    <3>1. Ext2Lists(TheEntry, Len(out), out)
      BY <2>1, <2>2, Ext2ListsAll
    <3>2. Names(Len(out), out', TheEntry)
      BY <1>0, <2>2, <3>1 DEF Names
    <3>3. QED
      BY <2>2, <3>2, ListsAnswer
  <2>3. CASE at.i <= Direct /\ at.block[at.i] # 0 /\ Goto("record", [at EXCEPT !.offset = 0]) /\ UNCHANGED out
    <3> DEFINE locals == [at EXCEPT !.offset = 0]
    <3>1. Ext2ListingIn(TheEntry, "record", locals, out)
      BY <2>1, <2>3, Ext2ListsBlock
    <3>2. Goto("record", locals) /\ out' = out
      BY <2>3
    <3> HIDE DEF locals
    <3>3. QED
      BY <1>7, <2>1, <3>1, <3>2
  <2>4. QED
    BY <1>2, <1>17, <2>2, <2>3 DEF ext2_list_block
<1>18. CASE ext2_list_record
  <2> DEFINE more == at.offset < mounted.block_size /\ Len(out) < call.size
             r == Entry(at.block[at.i], at.offset)
             onward == [at EXCEPT !.offset = @ + r.rec_len]
             next == [at EXCEPT !.i = @ + 1]
             names == Append(out, r.name)
  <2>1. Ext2ListingIn(TheEntry, "record", at, out) /\ pc \in Serving
    BY <1>0, <1>1, <1>18 DEF ext2_list_record, Listing, Serving
  <2>2. /\ ~more => Ext2ListingIn(TheEntry, "block", next, out)
        /\ more /\ r.inode = 0 => Ext2ListingIn(TheEntry, "record", onward, out)
        /\ more /\ r.inode # 0 /\ r.rec_len = 0 => Ext2ListingIn(TheEntry, "block", next, names)
        /\ more /\ r.inode # 0 /\ r.rec_len # 0 => Ext2ListingIn(TheEntry, "record", onward, names)
    BY <2>1, Ext2ListsEntry
  <2>3. \/ ~more /\ Goto("block", next) /\ out' = out
        \/ more /\ r.inode = 0 /\ Goto("record", onward) /\ out' = out
        \/ more /\ r.inode # 0 /\ r.rec_len = 0 /\ Goto("block", next) /\ out' = names
        \/ more /\ r.inode # 0 /\ r.rec_len # 0 /\ Goto("record", onward) /\ out' = names
    BY <1>18 DEF ext2_list_record, Terminal
  <2> HIDE DEF more, r, onward, next, names
  <2>4. QED
    BY <1>7, <2>1, <2>2, <2>3
<1>19. QED
  BY <1>8, <1>9, <1>10, <1>11, <1>12, <1>13, <1>14, <1>15, <1>16, <1>17, <1>18 DEF ext2_step

\* Every step of the ISO 9660 driver.
LEMMA IsoStepLists ==
  ASSUME Typed, iso9660_step, Finds, Reads, Listings
  PROVE  Listings'
<1>0. vol.driver = "iso9660"
  BY DEF iso9660_step
<1>1. /\ pc = "found" => at = TheEntry
      /\ IsoFinds(pc, at) /\ Reading(pc, at, out) /\ Listing(pc, at, out)
  BY <1>0 DEF Finds, OnTheWay, Reads, Listings
<1>2. CASE \E memory, tells : Give(memory, tells)
  BY <1>2, ListsGive
<1>3. CASE Undefine
  BY <1>3, ListsEnd DEF Undefine
<1>4. CASE call.op # "list" /\ \E value, memory : Return(Ok(value), memory)
  BY <1>4, ListsReturn
<1>5. CASE pc \in Serving /\ \E loop \in {"found", "block", "record"} : \E locals : Goto(loop, locals)
  BY <1>0, <1>5, ListsElse
<1>6. ASSUME NEW extent, NEW size, NEW rest, NEW depth, Enter(extent, size, rest, depth), pc \in Serving
      PROVE  Listings'
  BY <1>2, <1>3, <1>5, <1>6 DEF Enter
<1>7. CASE iso9660_detect
  BY <1>4, <1>7 DEF iso9660_detect, Typed, CallTyped
<1>8. CASE iso9660_mount
  <2>1. call.op # "list"
    BY <1>8 DEF iso9660_mount, Typed, CallTyped
  <2>2. QED
    BY <1>2, <1>3, <1>4, <1>8, <2>1 DEF iso9660_mount
<1>9. CASE iso9660_unmount
  BY <1>4, <1>9 DEF iso9660_unmount, Typed, CallTyped
<1>10. CASE iso9660_open
  BY <1>6, <1>10 DEF iso9660_open, Serving
<1>11. CASE iso9660_find_block
  <2>1. pc \in Serving
    BY <1>11 DEF iso9660_find_block, Serving
  <2>2. QED
    BY <1>2, <1>3, <1>5, <1>11, <2>1 DEF iso9660_find_block
<1>12. CASE iso9660_find_entry
  <2>1. pc \in Serving
    BY <1>12 DEF iso9660_find_entry, Serving
  <2>2. CASE \E loop \in {"found", "block", "record"} : \E locals : Goto(loop, locals)
    BY <1>5, <2>1, <2>2
  <2>3. CASE \E extent, size, rest, depth : Enter(extent, size, rest, depth)
    BY <1>6, <2>1, <2>3
  <2>4. QED
    BY <1>12, <2>2, <2>3 DEF iso9660_find_entry
<1>13. CASE iso9660_read_file
  <2>1. call.op # "list"
    BY <1>13 DEF iso9660_read_file
  <2>2. QED
    BY <1>2, <1>3, <1>4, <1>13, <2>1 DEF iso9660_read_file
<1>14. CASE iso9660_list_dir
  <2> DEFINE locals == [extent |-> at.extent, size |-> at.size, off |-> 0]
             none == << >>
  <2>1. pc = "found" /\ at = TheEntry /\ pc \in Serving /\ call.op = "list"
    BY <1>1, <1>14 DEF iso9660_list_dir, Serving
  <2>2. /\ IsoMounted /\ mounted.block_size # 0 /\ at \in Somewhere /\ out = none
        /\ call.size \in Rooms /\ call.size \in Nat
    BY <1>0, <1>1, <2>1, DiskAssumption
       DEF IsoMounted, Typed, MountTyped, CallTyped, IsoFinds, Reading, Before, Listing
  <2>3. IsoListing(TheEntry, locals, none)
    BY <2>1, <2>2, IsoListingStarts
  <2> HIDE DEF locals, none
  <2>4. CASE Goto("listing", locals) /\ UNCHANGED out
    <3>1. Listing("listing", locals, out')
      BY <2>2, <2>3, <2>4 DEF Listing
    <3>2. QED
      BY <2>4, <3>1, ListsGoto
  <2>5. QED
    BY <1>2, <1>14, <2>4 DEF iso9660_list_dir, locals
<1>15. CASE iso9660_list_block
  <2> DEFINE more == at.off < at.size /\ Len(out) < call.size
             records == Records(U(at.extent + at.off \div mounted.block_size))
             names == CutTo(out \o NamesOf(records, Shown), call.size)
             locals == [at EXCEPT !.off = U(@ + mounted.block_size)]
  <2>1. IsoListing(TheEntry, at, out) /\ pc = "listing" /\ pc \in Serving /\ call.op = "list"
    BY <1>1, <1>15 DEF iso9660_list_block, Listing, Serving, Typed, CallTyped
  <2>2. CASE ~more /\ Return(Ok(Len(out)), Giving("buf")) /\ UNCHANGED <<mounted, out>>
    <3>1. IsoLists(TheEntry, Len(out), out)
      BY <2>1, <2>2, IsoListsAll
    <3>2. Names(Len(out), out', TheEntry)
      BY <1>0, <2>2, <3>1 DEF Names
    <3>3. QED
      BY <2>2, <3>2, ListsAnswer
  <2>3. CASE more /\ out' = names /\ Goto("listing", locals)
    <3>1. IsoListing(TheEntry, locals, names)
      BY <2>1, <2>3, IsoListsOn
    <3>2. call.size \in Rooms
      BY <1>1, <2>1 DEF Listing
    <3> HIDE DEF locals, names
    <3>3. Listing("listing", locals, out')
      BY <2>3, <3>1, <3>2 DEF Listing
    <3>4. QED
      BY <2>3, <3>3, ListsGoto
  <2>4. QED
    BY <1>2, <1>15, <2>2, <2>3 DEF iso9660_list_block, CutTo, Smaller
<1>16. CASE iso9660_get_info
  BY <1>2, <1>3, <1>4, <1>16 DEF iso9660_get_info
<1>17. QED
  BY <1>7, <1>8, <1>9, <1>10, <1>11, <1>12, <1>13, <1>14, <1>15, <1>16 DEF iso9660_step

\* A caller's step begins a call with room that does not wrap, or takes an answer.
LEMMA CallsList ==
  ASSUME Listings, Call \/ Take
  PROVE  Listings'
<1>1. CASE Take
  BY <1>1 DEF Take, Listings, Listing, Serving, ListsTheDirectory, Answered
<1>2. ASSUME NEW op \in {"detect", "mount", "unmount", "read", "list", "info"},
             NEW path, NEW size, NEW offset, Begin(op, path, size, offset), op = "list" => size \in Rooms
      PROVE  Listings'
  <2>1. /\ pc' \in {"open", "detect", "mount", "unmount"} /\ call'.op = op /\ call'.size = size
    BY <1>2 DEF Begin
  <2>2. QED
    BY <1>2, <2>1 DEF Listings, Listing, ListsTheDirectory, Answered
<1>3. QED
  BY <1>1, <1>2 DEF Call

\* The drivers are always listing the names of the directory.
THEOREM VolumesList == Spec => []Listings
<1>1. Init => Listings
  BY DEF Init, Listings, Listing, Serving, ListsTheDirectory, Answered
<1>2. Typed /\ Finds /\ Reads /\ Listings /\ [Next]_vars => Listings'
  <2> SUFFICES ASSUME Typed, Finds, Reads, Listings, [Next]_vars PROVE Listings'
    OBVIOUS
  <2>1. CASE Call \/ Take
    BY <2>1, CallsList
  <2>2. CASE fat32_step
    BY <2>2, FatStepLists
  <2>3. CASE ext2_step
    BY <2>3, Ext2StepLists
  <2>4. CASE iso9660_step
    BY <2>4, IsoStepLists
  <2>5. CASE UNCHANGED vars
    <3>1. UNCHANGED <<disk, mounted, call, pc, at, out, ret, refused>>
      BY <2>5 DEF vars
    <3>2. Listing(pc, at, out)'
      BY <3>1, ListingKept DEF Listings
    <3>3. vol' = vol /\ TheEntry' = TheEntry
      BY <3>1, EntryKept DEF vol
    <3>4. Lists(TheEntry)' <=> Lists(TheEntry)
      <4>1. \A n : Inode(n)' = Inode(n)
        BY <3>1, Ext2Kept
      <4>2. \A c : Links(c)' = Links(c)
        BY <3>1, FatKept
      <4>3. /\ \A link, n : Contents(link, n)' = Contents(link, n)
            /\ \A c : Loads(c)' <=> Loads(c)
            /\ \A blocks : Ext2Listing(blocks)' = Ext2Listing(blocks)
            /\ \A extent, size : DirectoryRecords(extent, size)' = DirectoryRecords(extent, size)
            /\ \A size : OffsetWraps(size)' <=> OffsetWraps(size)
        BY <3>1, DirectoriesKept
      <4>4. \A names : Fits(names)' <=> Fits(names)
        BY <3>1 DEF Fits
      <4>5. \A link : FatLists(link)' <=> FatLists(link)
        BY <3>1, <4>3, <4>4 DEF FatLists
      <4>6. \A names : ListsNames(names)' <=> ListsNames(names)
        BY <3>1 DEF ListsNames
      <4>7. QED
        BY <3>3, <4>1, <4>2, <4>3, <4>5, <4>6 DEF Lists
    <3>5. QED
      BY <3>1, <3>2, <3>4 DEF Listings, ListsTheDirectory, Answered
  <2>6. QED
    BY <2>1, <2>2, <2>3, <2>4, <2>5 DEF Next, Step
<1>3. QED
  BY <1>1, <1>2, VolumesTyped, VolumesFind, VolumesRead, PTL DEF Spec

\* A listing gives the names of the directory in order, every one that has room
\* and none twice, with each driver's limits.
THEOREM ListsDirectory == Spec => []ListsTheDirectory
<1>1. Listings => ListsTheDirectory
  BY DEF Listings
<1>2. QED
  BY <1>1, VolumesList, PTL
=============================================================================
