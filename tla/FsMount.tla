------------------------------ MODULE FsMount ------------------------------
(***************************************************************************)
(* The filesystem layer of fs/fs_mount.c: the array registered_fs of types *)
(* and the list mount_points, which grows at its tail.  An action is one   *)
(* call of the interface with all it does, the driver's mount and unmount  *)
(* included.                                                               *)
(*                                                                         *)
(* The allocators may fail at every call.  malloc is tested; strdup is     *)
(* not, so a mount point may stay in the list with a NULL path: NoPath.    *)
(* Reading through it is undefined: the machine faults or finds there a    *)
(* string that matches no path.                                            *)
(*                                                                         *)
(* Line 36 of the source has '\' for a character, which no compiler takes; *)
(* it is read as the backslash that lines 128, 142, 156 and 170 test for.  *)
(***************************************************************************)
EXTENDS FsPath, FiniteSets

CONSTANTS
  MaxRegistered,        \* capacity of registered_fs (8 in the code)
  BuiltIns,             \* the types fs_init registers, in order
  Types, NameOf(_),     \* filesystem types and their names
  Names,                \* names callers ask for
  MountPaths, Paths,    \* paths callers mount at, and operate on
  Operations,
  Handles,              \* private_data a driver may return: bounds live mounts
  Root, NoPath, NoType

ASSUME FsMountAssumption ==
  /\ MaxRegistered \in Nat \ {0}
  /\ BuiltIns \in Seq(Types) /\ Len(BuiltIns) <= MaxRegistered
  /\ \A p \in MountPaths \cup Paths : p \in Seq(STRING) /\ p # << >>
  /\ Root \in MountPaths
  /\ NoPath \notin MountPaths
  /\ NoType \notin Types

VARIABLES
  ready,           \* fs_init has run
  registered_fs,   \* the array, up to num_registered_fs
  mount_points,    \* the list from its head, of [path, fs, data]
  opened,          \* handles drivers have given out and not got back
  faulted,         \* the machine stopped on a NULL path
  last             \* [op, path, to]: the last file operation and its driver call

mountVars == <<ready, registered_fs, mount_points, opened, faulted, last>>

-----------------------------------------------------------------------------
(* The two look-ups *)

\* find_filesystem: the first type of that name.
find_filesystem(name) ==
  LET hits == {i \in DOMAIN registered_fs : NameOf(registered_fs[i]) = name}
  IN  IF hits = {} THEN NoType
      ELSE registered_fs[CHOOSE i \in hits : \A j \in hits : i <= j]

\* Mutant: of two mounts at one path the later one wins.
LongerOrEqual(i, best) ==
  best = 0 \/ Len(mount_points[i].path) >= Len(mount_points[best].path)

\* The test mp_len > best_len; best = 0 when nothing matched so far.
Longer(i, best) ==
  best = 0 \/ Len(mount_points[i].path) > Len(mount_points[best].path)

Matches(i, path) ==
  mount_points[i].path # NoPath /\ Covers(mount_points[i].path, path)

\* The walk of find_mount_point over the first i mount points; 0 is NULL.
find_mount_point(path) ==
  LET walk[i \in 0..Len(mount_points)] ==
        IF i = 0 THEN 0
        ELSE IF Matches(i, path) /\ Longer(i, walk[i - 1]) THEN i ELSE walk[i - 1]
  IN  walk[Len(mount_points)]

\* A walk over the first n mount points may fault on a NULL path.
MayFault(n) == \E i \in 1..n : mount_points[i].path = NoPath

\* Where the loop of fs_unmount stops: the first of that path; 0 when none is.
FirstAt(path) ==
  LET hits == {i \in DOMAIN mount_points : mount_points[i].path = path}
  IN  IF hits = {} THEN 0 ELSE CHOOSE i \in hits : \A j \in hits : i <= j


-----------------------------------------------------------------------------
(* The interface *)

\* Mutant: the capacity test lets one type too many in.
WithTypeOffByOne(types, fs) ==
  IF Len(types) > MaxRegistered THEN types ELSE Append(types, fs)

\* Mutant: a new type takes the first slot.
PutFirst(types, fs) == IF Len(types) < MaxRegistered THEN <<fs>> \o types ELSE types

\* fs_register drops a type that finds no slot.
WithType(types, fs) == IF Len(types) < MaxRegistered THEN Append(types, fs) ELSE types

fs_register(fs) ==
  /\ registered_fs' = WithType(registered_fs, fs)
  /\ last' = Idle
  /\ UNCHANGED <<ready, mount_points, opened, faulted>>

\* Mutant: the list is not updated when the handle was given out.
LinkLost(path, fs, d) ==
  /\ d \in Handles \ opened
  /\ opened' = opened \cup {d}
  /\ UNCHANGED mount_points

\* The end of a fs_mount whose driver returned handle d: the mount point
\* joins the tail of the list with the path strdup made, or NULL.
Link(path, fs, d) ==
  /\ d \in Handles \ opened
  /\ opened' = opened \cup {d}
  /\ \E p \in {path, NoPath} :
       mount_points' = Append(mount_points, [path |-> p, fs |-> fs, data |-> d])

\* fs_mount: an unknown type, no memory or a driver that refuses leave
\* everything as it was.
fs_mount(path, name) ==
  /\ LET fs == find_filesystem(name)
     IN  \/ UNCHANGED <<mount_points, opened>>
         \/ fs # NoType /\ \E d \in Handles : Link(path, fs, d)
  /\ last' = Idle
  /\ UNCHANGED <<ready, registered_fs, faulted>>

\* fs_unmount: the first mount point of that path goes, with its handle.
fs_unmount(path) ==
  LET i == FirstAt(path)
      n == IF i = 0 THEN Len(mount_points) ELSE i
  IN  /\ last' = Idle
      /\ UNCHANGED <<ready, registered_fs>>
      /\ \/ MayFault(n) /\ faulted' = TRUE /\ UNCHANGED <<mount_points, opened>>
         \/ /\ mount_points' = IF i = 0 THEN mount_points ELSE RemoveAt(mount_points, i)
            /\ opened' = IF i = 0 THEN opened ELSE opened \ {mount_points[i].data}
            /\ UNCHANGED faulted

\* fs_read, fs_write, fs_list_dir and fs_get_info on a path.
file_operation(op, path) ==
  LET i == find_mount_point(path)
  IN  /\ UNCHANGED <<ready, registered_fs, mount_points, opened>>
      /\ \/ MayFault(Len(mount_points)) /\ faulted' = TRUE /\ UNCHANGED last
         \/ /\ last' = [op |-> op, path |-> path,
                        to |-> IF i = 0 THEN NoCall
                               ELSE CallTo(mount_points[i], op, path)]
            /\ UNCHANGED faulted

\* fs_init: the built-in types in order, then the first one that detects a
\* filesystem at LBA 0 and mounts it takes the root.  What is on the disk is
\* not known, so any of them may, or none.
fs_init ==
  /\ ready' = TRUE
  /\ registered_fs' = BuiltIns
  /\ \/ UNCHANGED <<mount_points, opened>>
     \/ \E i \in DOMAIN BuiltIns, d \in Handles : Link(Root, BuiltIns[i], d)
  /\ last' = Idle
  /\ UNCHANGED faulted

-----------------------------------------------------------------------------
MountInit ==
  /\ ready = FALSE
  /\ registered_fs = << >>
  /\ mount_points = << >>
  /\ opened = {}
  /\ faulted = FALSE
  /\ last = Idle

Serve ==
  /\ ready /\ ~faulted
  /\ \/ \E fs \in Types : fs_register(fs)
     \/ \E p \in MountPaths, name \in Names : fs_mount(p, name)
     \/ \E p \in MountPaths : fs_unmount(p)
     \/ \E op \in Operations, p \in Paths : file_operation(op, p)

MountNext == (~ready /\ fs_init) \/ Serve

MountSpec == MountInit /\ [][MountNext]_mountVars

-----------------------------------------------------------------------------
(* Properties *)

MountPoint == [path : MountPaths \cup {NoPath}, fs : Types, data : Handles]

\* The state is what the declarations of fs_mount.c say it is, and the array
\* of types never holds more than its slots.
TypeOK ==
  /\ ready \in BOOLEAN /\ faulted \in BOOLEAN
  /\ registered_fs \in Seq(Types) /\ Len(registered_fs) <= MaxRegistered
  /\ mount_points \in Seq(MountPoint)
  /\ opened \subseteq Handles

\* Every handle a driver gave out is kept by exactly one mount point: a driver or
\* an allocation that fails half way through fs_mount leaves no handle behind, and
\* none is given back twice.  A mount point whose path strdup could not copy keeps
\* its handle for good: fs_mount returned 0, and no fs_unmount ever takes it.
HandlesAreMounted ==
  /\ opened = {mount_points[i].data : i \in DOMAIN mount_points}
  /\ \A i, j \in DOMAIN mount_points :
       mount_points[i].data = mount_points[j].data => i = j

\* Two loops of different shape must agree: the mount fs_unmount takes from a
\* path is the one find_mount_point serves that very path from, so callers
\* that mounted twice unmount what they were using.
UnmountTakesServing ==
  [][\A i \in DOMAIN mount_points :
       mount_points[i].data \notin opened' =>
         find_mount_point(mount_points[i].path) = i]_mountVars

\* A name a type was registered under goes on to mean that type, whatever is
\* registered later under it or dropped because the array is full.
NamesAreStable ==
  [][\A name \in Names :
       find_filesystem(name) # NoType =>
         find_filesystem(name)' = find_filesystem(name)]_mountVars

\* fs_mount.c implements MountTable.  A mount point whose path strdup could
\* not copy is no mount, although fs_mount returned 0 for it.
Table == INSTANCE MountTable WITH
  Mounts <- [path : MountPaths, fs : Types, data : Handles],
  mounted <- {m \in Range(mount_points) : m.path # NoPath}

ServesDeepest == Table!Spec

\* What fs_init sets out to do, "mount root filesystem": with a mount at the
\* root there is no absolute path without a filesystem.
RootServesAll ==
  (\E i \in DOMAIN mount_points : mount_points[i].path = Root) =>
    \A path \in Paths : find_mount_point(path) # 0
=============================================================================
