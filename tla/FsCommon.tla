------------------------------ MODULE FsCommon ------------------------------
(***************************************************************************)
(* The filesystem layer of fs/fs_common.c: one list for both the types     *)
(* registered and the mounts, growing at its head.  Registering a type     *)
(* links a dummy mount point with the literal "/" for its path and no      *)
(* private data, and the dummy is never told from a mount at the root: it  *)
(* serves "/" and fs_unmount removes it, handing the literal to kfree.     *)
(* That is undefined: the allocator ignores it or the machine stops.       *)
(***************************************************************************)
EXTENDS FsPath, FiniteSets

CONSTANTS
  Types, NameOf(_),     \* filesystem types and their names
  Names,                \* names callers ask for
  MountPaths, FilePaths, \* paths callers mount at, and operate on
  Operations,
  Handles,              \* private_data a driver may return: bounds live mounts
  Root, NoData, NoType

ASSUME FsCommonAssumption ==
  /\ \A p \in MountPaths \cup FilePaths : p \in Seq(STRING) /\ p # << >>
  /\ Root \in MountPaths
  /\ NoData \notin Handles
  /\ NoType \notin Types

VARIABLES
  mount_points,    \* the list from its head, of [path, fs, data]
  opened,          \* handles drivers have given out and not got back
  faulted,         \* the machine stopped on a bad kfree
  last             \* [op, path, to]: the last file operation and its driver call

commonVars == <<mount_points, opened, faulted, last>>

\* Mutant: the dummy has an empty path, which no path finds or removes.
DummyNowhere(fs) == [path |-> << >>, fs |-> fs, data |-> NoData]

Dummy(fs) == [path |-> Root, fs |-> fs, data |-> NoData]

FirstHit(hits) == IF hits = {} THEN 0 ELSE CHOOSE i \in hits : \A j \in hits : i <= j

-----------------------------------------------------------------------------
(* fs_find_mount_point: the walk over the first i entries; 0 is NULL. *)

\* Mutant: the longest mount path wins before it is known to end a component.
BetterTooEarly(i, path, best) ==
  /\ IsPrefix(mount_points[i].path, path)
  /\ best = 0 \/ Len(mount_points[i].path) > Len(mount_points[best].path)

Better(i, path, best) ==
  /\ Covers(mount_points[i].path, path)
  /\ best = 0 \/ Len(mount_points[i].path) > Len(mount_points[best].path)

fs_find_mount_point(path) ==
  LET walk[i \in 0..Len(mount_points)] ==
        IF i = 0 THEN 0
        ELSE IF Better(i, path, walk[i - 1]) THEN i ELSE walk[i - 1]
  IN  walk[Len(mount_points)]

-----------------------------------------------------------------------------
(* The interface *)

\* Mutant: only the head of the list is looked at.
KnownByHead(fs) == mount_points # << >> /\ Head(mount_points).fs = fs

\* The test of fs_register: some entry, a mount or a dummy, is of that type.
Known(fs) == \E i \in DOMAIN mount_points : mount_points[i].fs = fs

fs_register(fs) ==
  /\ \/ UNCHANGED mount_points
     \/ ~Known(fs) /\ mount_points' = <<Dummy(fs)>> \o mount_points
  /\ last' = Idle
  /\ UNCHANGED <<opened, faulted>>

\* The type of the first entry whose type has that name.
TypeNamed(name) ==
  LET i == FirstHit({k \in DOMAIN mount_points : NameOf(mount_points[k].fs) = name})
  IN  IF i = 0 THEN NoType ELSE mount_points[i].fs

\* Mutant: the driver's handle is not given back when kmalloc or kstrdup fails.
OutOfMemoryLeaks(d) == opened' = opened \cup {d} /\ UNCHANGED mount_points

\* Without memory for the mount point or its path the driver, which has
\* already mounted, is made to unmount.
OutOfMemory(d) == UNCHANGED <<mount_points, opened>>

\* fs_mount: the driver mounts first, then the mount point joins the head.
fs_mount(path, name) ==
  /\ LET fs == TypeNamed(name)
     IN  \/ UNCHANGED <<mount_points, opened>>
         \/ /\ fs # NoType
            /\ \E d \in Handles \ opened :
                 \/ OutOfMemory(d)
                 \/ /\ opened' = opened \cup {d}
                    /\ mount_points' =
                         <<[path |-> path, fs |-> fs, data |-> d]>> \o mount_points
  /\ last' = Idle
  /\ UNCHANGED faulted

\* Mutant: the walk goes on past the first mount point of the path.
FirstAtOverrun(path) ==
  LET hits == {k \in DOMAIN mount_points : mount_points[k].path = path}
  IN  IF hits = {} THEN 0 ELSE CHOOSE i \in hits : \A j \in hits : i >= j

FirstAt(path) == FirstHit({k \in DOMAIN mount_points : mount_points[k].path = path})

\* fs_unmount: the first entry of that path goes, a dummy as well.
fs_unmount(path) ==
  LET i == FirstAt(path)
  IN  /\ mount_points' = IF i = 0 THEN mount_points ELSE RemoveAt(mount_points, i)
      /\ opened' = IF i = 0 THEN opened ELSE opened \ {mount_points[i].data}
      /\ faulted' \in IF i # 0 /\ mount_points[i].data = NoData
                      THEN BOOLEAN ELSE {FALSE}
      /\ last' = Idle

\* fs_read_file, fs_list_dir, fs_get_info and fs_find_file on a path.
file_operation(op, path) ==
  LET i == fs_find_mount_point(path)
  IN  /\ last' = [op |-> op, path |-> path,
                  to |-> IF i = 0 THEN NoCall ELSE CallTo(mount_points[i], op, path)]
      /\ UNCHANGED <<mount_points, opened, faulted>>

-----------------------------------------------------------------------------
CommonInit ==
  /\ mount_points = << >>
  /\ opened = {}
  /\ faulted = FALSE
  /\ last = Idle

CommonNext ==
  /\ ~faulted
  /\ \/ \E fs \in Types : fs_register(fs)
     \/ \E p \in MountPaths, name \in Names : fs_mount(p, name)
     \/ \E p \in MountPaths : fs_unmount(p)
     \/ \E op \in Operations, p \in FilePaths : file_operation(op, p)

CommonSpec == CommonInit /\ [][CommonNext]_commonVars

-----------------------------------------------------------------------------
(* Properties *)

MountPoint == [path : MountPaths, fs : Types, data : Handles \cup {NoData}]

\* The state is what the declarations of fs_common.c say it is, and an entry
\* without private data stands at the root.
TypeOK ==
  /\ mount_points \in Seq(MountPoint)
  /\ \A i \in DOMAIN mount_points :
       mount_points[i].data = NoData => mount_points[i].path = Root
  /\ opened \subseteq Handles
  /\ faulted \in BOOLEAN

\* Every handle a driver gave out is kept by exactly one mount point: the two
\* error paths of fs_mount give it back, and fs_unmount gives it back once.
HandlesAreMounted ==
  /\ opened = {mount_points[i].data : i \in DOMAIN mount_points} \ {NoData}
  /\ \A i, j \in DOMAIN mount_points :
       /\ mount_points[i].data # NoData
       /\ mount_points[i].data = mount_points[j].data
       => i = j

\* The dummy is linked only when no entry is of the type, so a type has at
\* most one and the list does not grow when a driver registers again.
OneDummyPerType ==
  \A i, j \in DOMAIN mount_points :
    mount_points[i] = mount_points[j] => i = j

\* Two loops of different shape must agree: the entry fs_unmount takes from a
\* path is the one fs_find_mount_point serves that very path from, so callers
\* that mounted twice unmount what they were using.
UnmountTakesServing ==
  [][\A i \in DOMAIN mount_points :
       mount_points[i] \notin Range(mount_points') =>
         fs_find_mount_point(mount_points[i].path) = i]_commonVars

\* fs_common.c implements MountTable, if a dummy is taken for what the list
\* makes of it: a mount at the root without private data.
Table == INSTANCE MountTable WITH
  Paths <- FilePaths,
  Mounts <- MountPoint,
  mounted <- Range(mount_points)

ServesDeepest == Table!Spec
=============================================================================
