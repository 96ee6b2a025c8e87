--------------------------- MODULE FsMountProofs ---------------------------
(***************************************************************************)
(* For any types, paths, handles and capacity of the array, and lists of   *)
(* any length: fs/fs_mount.c keeps its types and its handles, unmounts the *)
(* mount it serves from, goes on to mean the same type by a name, and      *)
(* implements MountTable.                                                  *)
(***************************************************************************)
EXTENDS FsMount, Loops

-----------------------------------------------------------------------------
(* Paths *)

\* A path is covered by no longer path than itself, and by itself only of its
\* own length; the test of find_mount_point is MountTable's, and what the code
\* passes to the driver is what follows the mount's path and its separator.
LEMMA CoversProperties ==
  ASSUME NEW C, NEW q \in Seq(C), NEW path \in Seq(C)
  PROVE  /\ Covers(path, path)
         /\ Covers(q, path) => Len(q) <= Len(path)
         /\ Covers(q, path) /\ Len(q) = Len(path) => q = path
         /\ Covers(q, path) <=>
              path = q \/ \E s \in Separators : IsPrefix(Append(q, s), path)
         /\ Covers(q, path) => RelPath(q, path) = SubSeq(path, Len(q) + 2, Len(path))
<1>1. /\ Covers(q, path) = Reaches(q, path, Separators)
      /\ Covers(path, path) = Reaches(path, path, Separators)
  BY DEF Covers, Reaches
<1>2. Covers(q, path) => RelPath(q, path) = SubSeq(path, Len(q) + 2, Len(path))
  <2>1. RelPath(q, path) = Behind(q, path, Separators)
    BY DEF RelPath, Behind
  <2>2. QED
    BY <1>1, <2>1, RestBehindSeparator
<1>3. QED
  BY <1>1, <1>2, ReachesLength, ReachesIsUnder

\* The inductive invariant.  fs_init starts from no types, so the names it
\* brings are all new.
MountInv ==
  /\ TypeOK
  /\ HandlesAreMounted
  /\ ~ready => registered_fs = << >>

-----------------------------------------------------------------------------
(* The look-ups *)

\* find_filesystem over any array of types.
FirstNamed(types, name) ==
  LET hits == {i \in DOMAIN types : NameOf(types[i]) = name}
  IN  IF hits = {} THEN NoType
      ELSE types[CHOOSE i \in hits : \A j \in hits : i <= j]

\* It returns the first type of that name, or none when there is none.
LEMMA FirstNamedIsFirst ==
  ASSUME NEW types \in Seq(Types), NEW name
  PROVE  \/ /\ FirstNamed(types, name) = NoType
            /\ \A i \in 1..Len(types) : NameOf(types[i]) # name
         \/ \E i \in 1..Len(types) :
              /\ FirstNamed(types, name) = types[i]
              /\ types[i] \in Types
              /\ NameOf(types[i]) = name
              /\ \A j \in 1..Len(types) : NameOf(types[j]) = name => i <= j
<1> DEFINE hits == {i \in DOMAIN types : NameOf(types[i]) = name}
           first == CHOOSE i \in hits : \A j \in hits : i <= j
<1>1. /\ Len(types) \in Nat /\ DOMAIN types = 1..Len(types)
      /\ \A i \in 1..Len(types) : types[i] \in Types
  BY LenProperties
<1>2. CASE hits = {}
  BY <1>1, <1>2 DEF FirstNamed
<1>3. CASE hits # {}
  <2>1. hits \in SUBSET (1..Len(types))
    BY <1>1
  <2>2. first \in hits /\ \A j \in hits : first <= j
    <3> HIDE DEF hits
    <3> QED
      BY <1>1, <1>3, <2>1, FirstIndex
  <2>3. FirstNamed(types, name) = types[first]
    BY <1>3 DEF FirstNamed
  <2> HIDE DEF first
  <2>4. QED
    BY <1>1, <2>2, <2>3
<1>4. QED
  BY <1>2, <1>3

\* fs_mount only mounts with a registered type.
LEMMA FindFilesystemType ==
  ASSUME TypeOK, NEW name, find_filesystem(name) # NoType
  PROVE  find_filesystem(name) \in Types
<1>1. find_filesystem(name) = FirstNamed(registered_fs, name)
  BY DEF find_filesystem, FirstNamed
<1>2. registered_fs \in Seq(Types)
  BY DEF TypeOK
<1>3. QED
  BY <1>1, <1>2, FirstNamedIsFirst

\* The mount points a walk for path may stop at, and how long their paths are.
Hits(path) == {i \in 1..Len(mount_points) : Matches(i, path)}
Lens == [i \in 1..Len(mount_points) |->
           IF mount_points[i].path = NoPath THEN 0 ELSE Len(mount_points[i].path)]

\* What the list holds.
LEMMA MountPointFields ==
  ASSUME TypeOK
  PROVE  /\ Len(mount_points) \in Nat
         /\ DOMAIN mount_points = 1..Len(mount_points)
         /\ Lens \in [1..Len(mount_points) -> Nat]
         /\ \A i \in 1..Len(mount_points) :
              /\ mount_points[i] \in MountPoint
              /\ mount_points[i].fs \in Types
              /\ mount_points[i].data \in Handles
              /\ mount_points[i].path # NoPath =>
                   /\ mount_points[i].path \in MountPaths
                   /\ mount_points[i].path \in Seq(STRING)
                   /\ Lens[i] = Len(mount_points[i].path)
<1>1. /\ Len(mount_points) \in Nat
      /\ DOMAIN mount_points = 1..Len(mount_points)
      /\ \A i \in 1..Len(mount_points) : mount_points[i] \in MountPoint
  BY LenProperties DEF TypeOK
<1>2. ASSUME NEW i \in 1..Len(mount_points)
      PROVE  /\ mount_points[i].fs \in Types
             /\ mount_points[i].data \in Handles
             /\ mount_points[i].path # NoPath =>
                  /\ mount_points[i].path \in MountPaths
                  /\ mount_points[i].path \in Seq(STRING)
                  /\ Len(mount_points[i].path) \in Nat
  <2>1. mount_points[i] \in MountPoint
    BY <1>1
  <2>2. /\ mount_points[i].fs \in Types /\ mount_points[i].data \in Handles
        /\ mount_points[i].path # NoPath => mount_points[i].path \in MountPaths
    BY <2>1 DEF MountPoint
  <2>3. QED
    BY <2>2, FsMountAssumption, LenProperties DEF FsMountAssumption
<1>3. QED
  BY <1>1, <1>2 DEF Lens

\* find_mount_point stops at the first of the mount points with the longest
\* path that covers the one asked for, and at none only when none covers it.
LEMMA ServingIsLongest ==
  ASSUME TypeOK, NEW path
  PROVE  Longest(find_mount_point(path), Hits(path), Lens)
<1> DEFINE n == Len(mount_points)
           H == Hits(path)
           Turn(i, best) == IF Matches(i, path) /\ Longer(i, best) THEN i ELSE best
           IsWalk(w) == w = [i \in 0..n |-> IF i = 0 THEN 0 ELSE Turn(i, w[i - 1])]
<1>1. n \in Nat /\ Lens \in [1..n -> Nat] /\ H \in SUBSET (1..n)
  BY MountPointFields DEF Hits
<1>2. ASSUME NEW i \in 1..n, NEW b \in {0} \cup H
      PROVE  Turn(i, b) = IF i \in H /\ (b = 0 \/ Lens[i] > Lens[b]) THEN i ELSE b
  <2>1. Matches(i, path) <=> i \in H
    BY DEF Hits
  <2>2. \A j \in H : Lens[j] = Len(mount_points[j].path)
    BY MountPointFields DEF Hits, Matches
  <2> HIDE DEF n, H
  <2>3. QED
    BY <2>1, <2>2 DEF Longer
<1>3. \E w : IsWalk(w)
  <2> HIDE DEF n, H
  <2>1. PICK w : w \in [0..n -> {0} \cup H] /\ Walk(w, n, H, Lens)
    BY <1>1, WalkExists
  <2>2. ASSUME NEW i \in 1..n PROVE w[i] = Turn(i, w[i - 1])
    <3>1. i - 1 \in 0..n
      BY <1>1
    <3>2. w[i - 1] \in {0} \cup H
      BY <2>1, <3>1
    <3> HIDE DEF Turn
    <3>3. QED
      BY <1>2, <2>1, <3>2 DEF Walk
  <2>3. w[0] = 0
    BY <2>1 DEF Walk
  <2> HIDE DEF Turn
  <2>4. QED
    BY <1>1, <2>1, <2>2, <2>3
<1> DEFINE f == CHOOSE w : IsWalk(w)
<1>4. IsWalk(f)
  <2> HIDE DEF IsWalk
  <2> QED
    BY <1>3
<1>5. find_mount_point(path) = f[n]
  BY DEF find_mount_point
<1> HIDE DEF f, H
<1>6. f[0] = 0 /\ \A i \in 1..n : f[i] = Turn(i, f[i - 1])
  <2> HIDE DEF Turn
  <2> QED
    BY <1>1, <1>4
<1>7. \A k \in 0..n : f[k] \in {0} \cup H
  <2>1. \A i \in 1..n : f[i] = f[i - 1] \/ (f[i] = i /\ i \in H)
    BY <1>6 DEF H, Hits
  <2> HIDE DEF n
  <2>2. QED
    BY <1>1, <1>6, <2>1, WalkStays
<1>8. f \in [0..n -> Nat]
  <2>1. f = [i \in 0..n |-> f[i]]
    <3> HIDE DEF Turn, n
    <3> QED
      BY <1>4
  <2> HIDE DEF n
  <2>2. QED
    BY <1>1, <1>7, <2>1
<1>9. Walk(f, n, H, Lens)
  <2>1. ASSUME NEW i \in 1..n
        PROVE  f[i] = IF i \in H /\ (f[i - 1] = 0 \/ Lens[i] > Lens[f[i - 1]])
                      THEN i ELSE f[i - 1]
    <3>1. i - 1 \in 0..n
      BY <1>1
    <3> HIDE DEF Turn, n
    <3>2. QED
      BY <1>2, <1>6, <1>7, <3>1
  <2> HIDE DEF n
  <2>2. QED
    BY <1>6, <2>1 DEF Walk
<1>10. Longest(f[n], H, Lens)
  <2> HIDE DEF n
  <2> QED
    BY <1>1, <1>8, <1>9, WalkFindsLongest
<1>11. QED
  BY <1>5, <1>10 DEF H

\* FirstAt is the first mount point of the path, 0 when there is none.
LEMMA FirstAtIsFirst ==
  ASSUME TypeOK, NEW path
  PROVE  LET i == FirstAt(path)
         IN  \/ i = 0 /\ \A j \in 1..Len(mount_points) : mount_points[j].path # path
             \/ /\ i \in 1..Len(mount_points)
                /\ mount_points[i].path = path
                /\ \A j \in 1..Len(mount_points) : mount_points[j].path = path => i <= j
<1> DEFINE hits == {i \in DOMAIN mount_points : mount_points[i].path = path}
           first == CHOOSE i \in hits : \A j \in hits : i <= j
<1>1. Len(mount_points) \in Nat /\ DOMAIN mount_points = 1..Len(mount_points)
  BY MountPointFields
<1>2. CASE hits = {}
  BY <1>1, <1>2 DEF FirstAt
<1>3. CASE hits # {}
  <2>1. hits \in SUBSET (1..Len(mount_points))
    BY <1>1
  <2>2. first \in hits /\ \A j \in hits : first <= j
    <3> HIDE DEF hits
    <3> QED
      BY <1>1, <1>3, <2>1, FirstIndex
  <2>3. FirstAt(path) = first
    BY <1>3 DEF FirstAt
  <2> HIDE DEF first
  <2>4. QED
    BY <1>1, <2>2, <2>3
<1>4. QED
  BY <1>2, <1>3

-----------------------------------------------------------------------------
(* Types and handles *)

\* A new mount point takes a handle nothing else has.
LEMMA LinkInv ==
  ASSUME TypeOK, HandlesAreMounted,
         NEW path \in MountPaths, NEW fs \in Types, NEW d, Link(path, fs, d)
  PROVE  /\ mount_points' \in Seq(MountPoint)
         /\ opened' \subseteq Handles
         /\ HandlesAreMounted'
<1> DEFINE n == Len(mount_points)
<1>1. PICK p \in {path, NoPath} :
        mount_points' = Append(mount_points, [path |-> p, fs |-> fs, data |-> d])
  BY DEF Link
<1> DEFINE m == [path |-> p, fs |-> fs, data |-> d]
<1>2. m \in MountPoint /\ m.data = d
  BY DEF Link, MountPoint
<1> HIDE DEF m
<1>3. /\ mount_points' = Append(mount_points, m)
      /\ mount_points \in Seq(MountPoint)
      /\ n \in Nat /\ DOMAIN mount_points = 1..n
  BY <1>1, LenProperties DEF TypeOK, m
<1>4. /\ mount_points' \in Seq(MountPoint)
      /\ DOMAIN (mount_points') = 1..(n + 1)
      /\ \A i \in 1..n : mount_points'[i] = mount_points[i]
      /\ mount_points'[n + 1] = m
  BY <1>2, <1>3, AppendProperties
<1>5. d \in Handles \ opened /\ opened' = opened \cup {d} /\ opened \subseteq Handles
  BY DEF Link, TypeOK
<1>6. /\ opened = {mount_points[i].data : i \in 1..n}
      /\ \A i, j \in 1..n : mount_points[i].data = mount_points[j].data => i = j
  BY <1>3 DEF HandlesAreMounted
<1>7. \A i \in 1..(n + 1) : i \in 1..n \/ i = n + 1
  BY <1>3
<1>8. 1..n \subseteq 1..(n + 1) /\ n + 1 \in 1..(n + 1)
  BY <1>3
<1> HIDE DEF n
<1>9. opened' = {mount_points'[i].data : i \in 1..(n + 1)}
  BY <1>2, <1>4, <1>5, <1>6, <1>7, <1>8
<1>10. \A i, j \in 1..(n + 1) : mount_points'[i].data = mount_points'[j].data => i = j
  BY <1>2, <1>4, <1>5, <1>6, <1>7
<1>11. QED
  BY <1>4, <1>5, <1>9, <1>10 DEF HandlesAreMounted

\* Taking a mount point out gives back its handle and no other.
LEMMA UnmountInv ==
  ASSUME TypeOK, HandlesAreMounted, NEW i \in 1..Len(mount_points),
         mount_points' = RemoveAt(mount_points, i),
         opened' = opened \ {mount_points[i].data}
  PROVE  /\ mount_points' \in Seq(MountPoint)
         /\ opened' \subseteq Handles
         /\ HandlesAreMounted'
<1> DEFINE n == Len(mount_points)
           from(j) == IF j < i THEN j ELSE j + 1
<1>1. n \in Nat /\ DOMAIN mount_points = 1..n /\ mount_points \in Seq(MountPoint)
  BY MountPointFields DEF TypeOK
<1>2. /\ mount_points' \in Seq(MountPoint)
      /\ Len(mount_points') = n - 1
      /\ \A j \in 1..(n - 1) : mount_points'[j] = mount_points[from(j)]
  BY <1>1, RemoveAtProperties
<1>3. DOMAIN (mount_points') = 1..(n - 1)
  BY <1>2, LenProperties
<1>4. /\ opened = {mount_points[j].data : j \in 1..n}
      /\ \A j, k \in 1..n : mount_points[j].data = mount_points[k].data => j = k
  BY <1>1 DEF HandlesAreMounted
<1>5. /\ \A j \in 1..(n - 1) : from(j) \in 1..n /\ from(j) # i
      /\ \A j, k \in 1..(n - 1) : from(j) = from(k) => j = k
  BY <1>1
<1>6. \A k \in 1..n : k # i => \E j \in 1..(n - 1) : from(j) = k
  <2>1. ASSUME NEW k \in 1..n, k # i PROVE \E j \in 1..(n - 1) : from(j) = k
    <3>1. CASE k < i
      <4>1. k \in 1..(n - 1) /\ from(k) = k
        BY <1>1, <3>1
      <4>2. QED
        BY <4>1
    <3>2. CASE ~(k < i)
      <4>1. k - 1 \in 1..(n - 1) /\ from(k - 1) = k
        BY <1>1, <2>1, <3>2
      <4>2. QED
        BY <4>1
    <3>3. QED
      BY <3>1, <3>2
  <2>2. QED
    BY <2>1
<1> HIDE DEF n, from
<1>7. \A j, k \in 1..(n - 1) : mount_points'[j].data = mount_points'[k].data => j = k
  BY <1>2, <1>4, <1>5
<1>8. opened' = {mount_points'[j].data : j \in 1..(n - 1)}
  <2>1. ASSUME NEW d \in opened'
        PROVE  d \in {mount_points'[j].data : j \in 1..(n - 1)}
    <3>1. PICK k \in 1..n : mount_points[k].data = d
      BY <1>4
    <3>2. PICK j \in 1..(n - 1) : from(j) = k
      BY <1>6, <3>1
    <3>3. QED
      BY <1>2, <3>1, <3>2
  <2>2. ASSUME NEW j \in 1..(n - 1) PROVE mount_points'[j].data \in opened'
    <3>1. mount_points'[j].data = mount_points[from(j)].data
      BY <1>2
    <3>2. from(j) \in 1..n /\ from(j) # i /\ i \in 1..n
      BY <1>5 DEF n
    <3>3. mount_points[from(j)].data \in opened
      BY <1>4, <3>2
    <3>4. mount_points[from(j)].data # mount_points[i].data
      BY <1>4, <3>2
    <3>5. QED
      BY <3>1, <3>3, <3>4
  <2>3. QED
    BY <2>1, <2>2
<1>9. opened' \subseteq Handles
  BY DEF TypeOK
<1>10. QED
  BY <1>2, <1>3, <1>7, <1>8, <1>9 DEF HandlesAreMounted

\* The initial state satisfies the invariant.
LEMMA MountInitInv == MountInit => MountInv
<1> SUFFICES ASSUME MountInit PROVE MountInv
  OBVIOUS
<1>1. DOMAIN mount_points = {}
  BY DEF MountInit
<1>2. HandlesAreMounted
  BY <1>1 DEF HandlesAreMounted, MountInit
<1>3. Len(registered_fs) <= MaxRegistered
  BY FsMountAssumption DEF FsMountAssumption, MountInit
<1>4. /\ ready \in BOOLEAN /\ faulted \in BOOLEAN
      /\ ~ready => registered_fs = << >>
  BY DEF MountInit
<1>5. registered_fs \in Seq(Types) /\ mount_points \in Seq(MountPoint) /\ opened \subseteq Handles
  BY DEF MountInit
<1>6. QED
  BY <1>2, <1>3, <1>4, <1>5 DEF MountInv, TypeOK

\* What fs_register and fs_init leave in the array fits it.
LEMMA RegisteredType ==
  ASSUME NEW types \in Seq(Types), Len(types) <= MaxRegistered, NEW fs \in Types
  PROVE  /\ WithType(types, fs) \in Seq(Types)
         /\ Len(WithType(types, fs)) <= MaxRegistered
  BY FsMountAssumption DEF FsMountAssumption, WithType

\* No step breaks the invariant: one step of the proof per call.
LEMMA MountNextInv == MountInv /\ [MountNext]_mountVars => MountInv'
<1> SUFFICES ASSUME MountInv, [MountNext]_mountVars
             PROVE  MountInv'
  OBVIOUS
<1>1. /\ TypeOK /\ HandlesAreMounted
      /\ ready \in BOOLEAN /\ faulted \in BOOLEAN
      /\ registered_fs \in Seq(Types) /\ Len(registered_fs) <= MaxRegistered
      /\ mount_points \in Seq(MountPoint)
      /\ opened \subseteq Handles
  BY DEF MountInv, TypeOK
<1>2. ASSUME UNCHANGED <<mount_points, opened>>
      PROVE  mount_points' \in Seq(MountPoint) /\ opened' \subseteq Handles /\ HandlesAreMounted'
  BY <1>1, <1>2 DEF HandlesAreMounted
<1>3. CASE ~ready /\ fs_init
  <2>1. /\ ready' = TRUE /\ faulted' = faulted
        /\ registered_fs' \in Seq(Types) /\ Len(registered_fs') <= MaxRegistered
    BY <1>3, FsMountAssumption DEF fs_init, FsMountAssumption
  <2>2. /\ mount_points' \in Seq(MountPoint)
        /\ opened' \subseteq Handles
        /\ HandlesAreMounted'
    <3>1. CASE UNCHANGED <<mount_points, opened>>
      BY <1>2, <3>1
    <3>2. ASSUME NEW i \in DOMAIN BuiltIns, NEW d \in Handles, Link(Root, BuiltIns[i], d)
          PROVE  /\ mount_points' \in Seq(MountPoint)
                 /\ opened' \subseteq Handles
                 /\ HandlesAreMounted'
      <4>1. BuiltIns[i] \in Types /\ Root \in MountPaths
        BY FsMountAssumption, LenProperties DEF FsMountAssumption
      <4>2. QED
        BY <1>1, <3>2, <4>1, LinkInv
    <3>3. QED
      BY <1>3, <3>1, <3>2 DEF fs_init
  <2>3. QED
    BY <1>1, <2>1, <2>2 DEF MountInv, TypeOK
<1>4. ASSUME ready, NEW fs \in Types, fs_register(fs)
      PROVE  MountInv'
  <2>1. registered_fs' \in Seq(Types) /\ Len(registered_fs') <= MaxRegistered
    BY <1>1, <1>4, RegisteredType DEF fs_register
  <2>2. UNCHANGED <<ready, mount_points, opened, faulted>>
    BY <1>4 DEF fs_register
  <2>3. QED
    BY <1>1, <1>2, <1>4, <2>1, <2>2 DEF MountInv, TypeOK
<1>5. ASSUME ready, NEW p \in MountPaths, NEW name \in Names, fs_mount(p, name)
      PROVE  MountInv'
  <2>1. UNCHANGED <<ready, registered_fs, faulted>>
    BY <1>5 DEF fs_mount
  <2>2. /\ mount_points' \in Seq(MountPoint)
        /\ opened' \subseteq Handles
        /\ HandlesAreMounted'
    <3>1. CASE UNCHANGED <<mount_points, opened>>
      BY <1>2, <3>1
    <3>2. ASSUME find_filesystem(name) # NoType,
                 NEW d \in Handles, Link(p, find_filesystem(name), d)
          PROVE  /\ mount_points' \in Seq(MountPoint)
                 /\ opened' \subseteq Handles
                 /\ HandlesAreMounted'
      <4>1. find_filesystem(name) \in Types
        BY <1>1, <3>2, FindFilesystemType
      <4>2. QED
        BY <1>1, <3>2, <4>1, LinkInv
    <3>3. QED
      BY <1>5, <3>1, <3>2 DEF fs_mount
  <2>3. QED
    BY <1>1, <1>5, <2>1, <2>2 DEF MountInv, TypeOK
<1>6. ASSUME ready, NEW p \in MountPaths, fs_unmount(p)
      PROVE  MountInv'
  <2>1. UNCHANGED <<ready, registered_fs>> /\ faulted' \in BOOLEAN
    BY <1>1, <1>6 DEF fs_unmount
  <2>2. /\ mount_points' \in Seq(MountPoint)
        /\ opened' \subseteq Handles
        /\ HandlesAreMounted'
    <3>1. CASE UNCHANGED <<mount_points, opened>>
      BY <1>2, <3>1
    <3>2. CASE /\ FirstAt(p) # 0
               /\ mount_points' = RemoveAt(mount_points, FirstAt(p))
               /\ opened' = opened \ {mount_points[FirstAt(p)].data}
      <4>1. FirstAt(p) \in 1..Len(mount_points)
        BY <1>1, <3>2, FirstAtIsFirst
      <4>2. QED
        BY <1>1, <3>2, <4>1, UnmountInv
    <3>3. QED
      BY <1>6, <3>1, <3>2 DEF fs_unmount
  <2>3. QED
    BY <1>1, <1>6, <2>1, <2>2 DEF MountInv, TypeOK
<1>7. ASSUME ready, NEW op \in Operations, NEW p \in Paths, file_operation(op, p)
      PROVE  MountInv'
  <2>1. UNCHANGED <<ready, registered_fs, mount_points, opened>> /\ faulted' \in BOOLEAN
    BY <1>1, <1>7 DEF file_operation
  <2>2. QED
    BY <1>1, <1>2, <1>7, <2>1 DEF MountInv, TypeOK
<1>8. CASE UNCHANGED mountVars
  BY <1>1, <1>2, <1>8 DEF MountInv, TypeOK, mountVars
<1>9. QED
  BY <1>3, <1>4, <1>5, <1>6, <1>7, <1>8 DEF MountNext, Serve

\* Every behaviour keeps the invariant.
THEOREM MountInvariance == MountSpec => []MountInv
<1>1. MountInit => MountInv
  BY MountInitInv
<1>2. MountInv /\ [MountNext]_mountVars => MountInv'
  BY MountNextInv
<1>3. QED
  BY <1>1, <1>2, PTL DEF MountSpec

\* The array of types never holds more than its slots, and the list only
\* well-formed mount points.
THEOREM MountTypeCorrect == MountSpec => []TypeOK
<1>1. MountInv => TypeOK
  BY DEF MountInv
<1>2. QED
  BY <1>1, MountInvariance, PTL

\* Every handle a driver gave out is kept by exactly one mount point.
THEOREM MountHandlesSafe == MountSpec => []HandlesAreMounted
<1>1. MountInv => HandlesAreMounted
  BY DEF MountInv
<1>2. QED
  BY <1>1, MountInvariance, PTL

-----------------------------------------------------------------------------
(* What a step may never do *)

\* A path some mount point has is served by the first that has it.
LEMMA FirstAtServes ==
  ASSUME TypeOK, NEW path \in MountPaths, FirstAt(path) # 0
  PROVE  find_mount_point(path) = FirstAt(path)
<1> DEFINE i == FirstAt(path)
           w == find_mount_point(path)
           n == Len(mount_points)
<1>1. /\ i \in 1..n /\ mount_points[i].path = path
      /\ \A j \in 1..n : mount_points[j].path = path => i <= j
  BY FirstAtIsFirst
<1>2. /\ path # NoPath /\ path \in Seq(STRING) /\ Len(path) \in Nat
  BY FsMountAssumption, LenProperties DEF FsMountAssumption
<1>3. Longest(w, Hits(path), Lens)
  BY ServingIsLongest
<1> HIDE DEF i, w, n
<1>4. i \in Hits(path)
  BY <1>1, <1>2, CoversProperties DEF Hits, Matches, n
<1>5. /\ w \in Hits(path)
      /\ Lens[i] <= Lens[w]
      /\ i < w => Lens[i] < Lens[w]
  BY <1>3, <1>4 DEF Longest
<1>6. /\ w \in 1..n /\ n \in Nat
      /\ mount_points[w].path # NoPath
      /\ Covers(mount_points[w].path, path)
      /\ mount_points[w].path \in Seq(STRING)
      /\ Lens[w] = Len(mount_points[w].path)
      /\ Lens[i] = Len(path)
  BY <1>1, <1>2, <1>5, MountPointFields DEF Hits, Matches, n
<1>7. Len(mount_points[w].path) \in Nat
  BY <1>6, LenProperties
<1>8. mount_points[w].path = path
  BY <1>2, <1>5, <1>6, <1>7, CoversProperties
<1>9. i <= w /\ ~(i < w)
  BY <1>1, <1>5, <1>6, <1>7, <1>8
<1>10. QED
  BY <1>1, <1>6, <1>9 DEF i, w

\* A handle goes only when its mount point was serving its path.
LEMMA UnmountStep ==
  ASSUME MountInv, [MountNext]_mountVars, NEW i \in DOMAIN mount_points,
         mount_points[i].data \notin opened'
  PROVE  find_mount_point(mount_points[i].path) = i
<1>1. TypeOK /\ HandlesAreMounted
  BY DEF MountInv
<1>2. i \in 1..Len(mount_points) /\ mount_points[i].data \in opened
  BY <1>1, MountPointFields DEF HandlesAreMounted
<1>3. ~(opened \subseteq opened')
  BY <1>2
<1>4. PICK p \in MountPaths : fs_unmount(p)
  <2>1. ~UNCHANGED mountVars
    BY <1>3 DEF mountVars
  <2>2. ~fs_init
    BY <1>3 DEF fs_init, Link
  <2>3. \A fs \in Types : ~fs_register(fs)
    BY <1>3 DEF fs_register
  <2>4. \A p \in MountPaths, name \in Names : ~fs_mount(p, name)
    BY <1>3 DEF fs_mount, Link
  <2>5. \A op \in Operations, p \in Paths : ~file_operation(op, p)
    BY <1>3 DEF file_operation
  <2>6. QED
    BY <2>1, <2>2, <2>3, <2>4, <2>5 DEF MountNext, Serve
<1>5. FirstAt(p) # 0 /\ opened' = opened \ {mount_points[FirstAt(p)].data}
  BY <1>3, <1>4 DEF fs_unmount
<1>6. /\ FirstAt(p) \in 1..Len(mount_points)
      /\ mount_points[FirstAt(p)].path = p
  BY <1>1, <1>5, FirstAtIsFirst
<1>7. mount_points[FirstAt(p)].data = mount_points[i].data
  BY <1>2, <1>5
<1>8. FirstAt(p) = i
  BY <1>1, <1>2, <1>6, <1>7, MountPointFields DEF HandlesAreMounted
<1>9. QED
  BY <1>1, <1>5, <1>6, <1>8, FirstAtServes

\* The mount fs_unmount takes from a path is the one find_mount_point serves
\* that very path from.
THEOREM MountUnmountsServing == MountSpec => UnmountTakesServing
<1>1. MountInv /\ [MountNext]_mountVars =>
        [\A i \in DOMAIN mount_points :
           mount_points[i].data \notin opened' =>
             find_mount_point(mount_points[i].path) = i]_mountVars
  BY UnmountStep
<1>2. QED
  BY <1>1, MountInvariance, PTL DEF MountSpec, UnmountTakesServing

\* What is found under a name is still found when types join at the end.
LEMMA FirstNamedGrows ==
  ASSUME NEW types \in Seq(Types), NEW fs \in Types, NEW name,
         FirstNamed(types, name) # NoType
  PROVE  FirstNamed(Append(types, fs), name) = FirstNamed(types, name)
<1> DEFINE n == Len(types)
           more == Append(types, fs)
<1>1. /\ n \in Nat /\ more \in Seq(Types) /\ Len(more) = n + 1
      /\ \A i \in 1..n : more[i] = types[i]
  BY LenProperties, AppendProperties
<1>2. PICK i \in 1..n :
        /\ FirstNamed(types, name) = types[i]
        /\ NameOf(types[i]) = name
        /\ \A j \in 1..n : NameOf(types[j]) = name => i <= j
  BY FirstNamedIsFirst
<1> HIDE DEF n, more
<1>3. i \in 1..(n + 1) /\ NameOf(more[i]) = name
  BY <1>1, <1>2
<1>4. PICK k \in 1..(n + 1) :
        /\ FirstNamed(more, name) = more[k]
        /\ NameOf(more[k]) = name
        /\ \A j \in 1..(n + 1) : NameOf(more[j]) = name => k <= j
  BY <1>1, <1>3, FirstNamedIsFirst
<1>5. k \in 1..n
  BY <1>1, <1>3, <1>4
<1>6. k = i
  BY <1>1, <1>2, <1>3, <1>4, <1>5
<1>7. QED
  BY <1>1, <1>2, <1>4, <1>6 DEF more

\* A name that means a type means the same type after any step.
LEMMA NameStep ==
  ASSUME MountInv, [MountNext]_mountVars, NEW name, find_filesystem(name) # NoType
  PROVE  find_filesystem(name)' = find_filesystem(name)
<1>1. registered_fs \in Seq(Types)
  BY DEF MountInv, TypeOK
<1>2. /\ find_filesystem(name) = FirstNamed(registered_fs, name)
      /\ find_filesystem(name)' = FirstNamed(registered_fs', name)
  BY DEF find_filesystem, FirstNamed
<1>3. registered_fs # << >>
  <2>1. \E i \in 1..Len(registered_fs) : TRUE
    BY <1>1, <1>2, FirstNamedIsFirst
  <2>2. QED
    BY <2>1, EmptySeq
<1>4. \/ registered_fs' = registered_fs
      \/ \E fs \in Types : registered_fs' = Append(registered_fs, fs)
  <2>1. CASE UNCHANGED mountVars
    BY <2>1 DEF mountVars
  <2>2. ASSUME NEW fs \in Types, fs_register(fs)
        PROVE  \/ registered_fs' = registered_fs
               \/ \E t \in Types : registered_fs' = Append(registered_fs, t)
    BY <2>2 DEF fs_register, WithType
  <2>3. CASE \/ \E p \in MountPaths, nm \in Names : fs_mount(p, nm)
             \/ \E p \in MountPaths : fs_unmount(p)
             \/ \E op \in Operations, p \in Paths : file_operation(op, p)
    BY <2>3 DEF fs_mount, fs_unmount, file_operation
  <2>4. QED
    BY <1>3, <2>1, <2>2, <2>3 DEF MountNext, Serve, MountInv
<1>5. QED
  BY <1>1, <1>2, <1>4, FirstNamedGrows

\* A name a type was registered under goes on to mean that type.
THEOREM MountNamesStable == MountSpec => NamesAreStable
<1>1. MountInv /\ [MountNext]_mountVars =>
        [\A name \in Names :
           find_filesystem(name) # NoType =>
             find_filesystem(name)' = find_filesystem(name)]_mountVars
  BY NameStep
<1>2. QED
  BY <1>1, MountInvariance, PTL DEF MountSpec, NamesAreStable

-----------------------------------------------------------------------------
(* fs_mount.c implements MountTable *)

\* The mounts in force, as the refinement mapping has them.
mountedNow == {m \in Range(mount_points) : m.path # NoPath}

\* They are the mount points of the list that have a path.
LEMMA MountedNow ==
  ASSUME TypeOK
  PROVE  \A m : m \in mountedNow <=>
                 \E i \in 1..Len(mount_points) :
                   m = mount_points[i] /\ mount_points[i].path # NoPath
  BY MountPointFields DEF mountedNow, Range

\* The code's test is the table's.
LEMMA CoversIsTableUnder ==
  ASSUME TypeOK, NEW i \in 1..Len(mount_points), mount_points[i].path # NoPath,
         NEW path \in Paths
  PROVE  path \in Table!Under(mount_points[i]) <=> i \in Hits(path)
<1>1. mount_points[i].path \in Seq(STRING) /\ path \in Seq(STRING)
  BY MountPointFields, FsMountAssumption DEF FsMountAssumption
<1>2. Covers(mount_points[i].path, path) <=>
        \/ path = mount_points[i].path
        \/ \E s \in Separators : IsPrefix(Append(mount_points[i].path, s), path)
  BY <1>1, CoversProperties
<1>3. \A a, b : Table!IsPrefix(a, b) <=> IsPrefix(a, b)
  BY DEF Table!IsPrefix, IsPrefix
<1>4. QED
  BY <1>2, <1>3 DEF Table!Under, Hits, Matches

\* What find_mount_point returns is a deepest mount the path lies under, and
\* it returns none only when there is none.
LEMMA ServingIsDeepest ==
  ASSUME TypeOK, NEW path \in Paths
  PROVE  LET w == find_mount_point(path)
         IN  /\ w = 0 => Table!Deepest(path) = {}
             /\ w # 0 => /\ w \in 1..Len(mount_points)
                         /\ mount_points[w] \in Table!Deepest(path)
                         /\ mount_points[w].path \in Seq(STRING)
                         /\ Covers(mount_points[w].path, path)
<1> DEFINE w == find_mount_point(path)
           n == Len(mount_points)
<1>1. Longest(w, Hits(path), Lens)
  BY ServingIsLongest
<1>2. ASSUME NEW m \in mountedNow
      PROVE  \E i \in 1..n : /\ m = mount_points[i] /\ m.path # NoPath
                             /\ path \in Table!Under(m) <=> i \in Hits(path)
                             /\ Lens[i] = Len(m.path)
  <2>1. PICK i \in 1..n : m = mount_points[i] /\ mount_points[i].path # NoPath
    BY MountedNow
  <2>2. QED
    BY <2>1, CoversIsTableUnder, MountPointFields
<1>3. ASSUME NEW i \in Hits(path)
      PROVE  /\ i \in 1..n /\ mount_points[i] \in mountedNow
             /\ mount_points[i].path # NoPath
             /\ path \in Table!Under(mount_points[i])
             /\ Lens[i] = Len(mount_points[i].path)
             /\ mount_points[i].path \in Seq(STRING)
             /\ Covers(mount_points[i].path, path)
  <2>1. i \in 1..n /\ mount_points[i].path # NoPath /\ Covers(mount_points[i].path, path)
    BY DEF Hits, Matches
  <2>2. QED
    BY <2>1, CoversIsTableUnder, MountPointFields, MountedNow
<1> HIDE DEF w, n
<1>4. Table!Deepest(path) =
        {m \in mountedNow :
           /\ path \in Table!Under(m)
           /\ \A k \in mountedNow : path \in Table!Under(k) => Len(k.path) <= Len(m.path)}
  BY DEF Table!Deepest, mountedNow
<1>5. CASE w = 0
  <2>1. Hits(path) = {}
    BY <1>1, <1>5 DEF Longest
  <2>2. QED
    BY <1>2, <1>4, <1>5, <2>1 DEF w
<1>6. CASE w # 0
  <2>1. w \in Hits(path) /\ \A j \in Hits(path) : Lens[j] <= Lens[w]
    BY <1>1, <1>6 DEF Longest
  <2>2. \A k \in mountedNow :
          path \in Table!Under(k) => Len(k.path) <= Len(mount_points[w].path)
    BY <1>2, <1>3, <2>1
  <2>3. mount_points[w] \in Table!Deepest(path)
    BY <1>3, <1>4, <2>1, <2>2
  <2>4. QED
    BY <1>3, <1>6, <2>1, <2>3 DEF w, n
<1>7. QED
  BY <1>5, <1>6

\* The initial list is the empty table.
LEMMA MountInitTable == MountInit => Table!Init
<1> SUFFICES ASSUME MountInit PROVE Table!Init
  OBVIOUS
<1>1. DOMAIN mount_points = {}
  BY DEF MountInit
<1>2. mountedNow = {}
  BY <1>1 DEF mountedNow, Range
<1>3. QED
  BY <1>2 DEF Table!Init, mountedNow, MountInit

\* A driver's mount becomes one of the table, or none if strdup failed.
LEMMA LinkTable ==
  ASSUME MountInv, NEW path \in MountPaths, NEW fs \in Types, NEW d,
         Link(path, fs, d), last' = Idle
  PROVE  Table!Next
<1> DEFINE n == Len(mount_points)
<1>1. PICK p \in {path, NoPath} :
        mount_points' = Append(mount_points, [path |-> p, fs |-> fs, data |-> d])
  BY DEF Link
<1> DEFINE m == [path |-> p, fs |-> fs, data |-> d]
<1>2. TypeOK /\ HandlesAreMounted /\ mount_points \in Seq(MountPoint)
      /\ n \in Nat /\ DOMAIN mount_points = 1..n
  BY MountPointFields DEF MountInv, TypeOK
<1>3. /\ m \in MountPoint /\ m.data = d /\ m.path = p /\ d \in Handles \ opened
      /\ p # NoPath => m \in [path : MountPaths, fs : Types, data : Handles]
  BY DEF Link, MountPoint
<1>4. mount_points' = Append(mount_points, m)
  BY <1>1
<1> HIDE DEF m
<1>5. /\ DOMAIN (mount_points') = 1..(n + 1)
      /\ \A i \in 1..n : mount_points'[i] = mount_points[i]
      /\ mount_points'[n + 1] = m
  BY <1>2, <1>3, <1>4, AppendProperties
<1>6. Range(mount_points') = Range(mount_points) \cup {m}
  <2>1. \A i \in 1..(n + 1) : i \in 1..n \/ i = n + 1
    BY <1>2
  <2>2. 1..n \subseteq 1..(n + 1) /\ n + 1 \in 1..(n + 1)
    BY <1>2
  <2> HIDE DEF n
  <2>3. QED
    BY <1>2, <1>5, <2>1, <2>2 DEF Range
<1>7. m \notin Range(mount_points)
  BY <1>2, <1>3 DEF Range, HandlesAreMounted
<1>8. mountedNow' = mountedNow \cup (IF p # NoPath THEN {m} ELSE {})
  BY <1>3, <1>6 DEF mountedNow
<1>9. CASE p = NoPath
  BY <1>8, <1>9 DEF Table!Next, Table!Fails, mountedNow
<1>10. CASE p # NoPath
  <2>1. Table!Mount(m)
    BY <1>7, <1>8, <1>10 DEF Table!Mount, mountedNow
  <2>2. QED
    BY <1>3, <1>10, <2>1 DEF Table!Next
<1>11. QED
  BY <1>9, <1>10

\* A mount point taken from the list is a mount taken from the table.
LEMMA UnmountTable ==
  ASSUME MountInv, NEW i \in 1..Len(mount_points), mount_points[i].path # NoPath,
         mount_points' = RemoveAt(mount_points, i), last' = Idle
  PROVE  Table!Next
<1> DEFINE n == Len(mount_points)
           from(j) == IF j < i THEN j ELSE j + 1
           m == mount_points[i]
<1>1. TypeOK /\ HandlesAreMounted /\ mount_points \in Seq(MountPoint)
      /\ n \in Nat /\ DOMAIN mount_points = 1..n
  BY MountPointFields DEF MountInv, TypeOK
<1>2. /\ mount_points' \in Seq(MountPoint)
      /\ Len(mount_points') = n - 1
      /\ \A j \in 1..(n - 1) : mount_points'[j] = mount_points[from(j)]
  BY <1>1, RemoveAtProperties
<1>3. DOMAIN (mount_points') = 1..(n - 1)
  BY <1>2, LenProperties
<1>4. /\ \A j \in 1..(n - 1) : from(j) \in 1..n /\ from(j) # i
      /\ \A k \in 1..n : k # i => IF k < i THEN k \in 1..(n - 1) /\ from(k) = k
                                 ELSE k - 1 \in 1..(n - 1) /\ from(k - 1) = k
  BY <1>1
<1>5. \A j \in 1..n : mount_points[j] = m => j = i
  BY <1>1 DEF HandlesAreMounted
<1>6. m \in [path : MountPaths, fs : Types, data : Handles] /\ m.path # NoPath
  <2>1. m \in MountPoint
    BY <1>1, MountPointFields
  <2>2. QED
    BY <2>1 DEF MountPoint
<1> HIDE DEF from
<1>7. Range(mount_points') = Range(mount_points) \ {m}
  <2>1. ASSUME NEW x \in Range(mount_points') PROVE x \in Range(mount_points) \ {m}
    BY <1>1, <1>2, <1>3, <1>4, <1>5 DEF Range
  <2>2. ASSUME NEW x \in Range(mount_points), x # m PROVE x \in Range(mount_points')
    <3>1. PICK k \in 1..n : x = mount_points[k]
      BY <1>1 DEF Range
    <3>2. \E j \in 1..(n - 1) : from(j) = k
      BY <1>4, <2>2, <3>1
    <3>3. QED
      BY <1>2, <1>3, <3>1, <3>2 DEF Range
  <2>3. QED
    BY <2>1, <2>2
<1>8. m \in Range(mount_points)
  BY <1>1 DEF Range
<1> HIDE DEF m
<1>9. mountedNow' = mountedNow \ {m} /\ m \in mountedNow
  BY <1>6, <1>7, <1>8 DEF mountedNow
<1>10. PICK k \in [path : MountPaths, fs : Types, data : Handles] : k = m
  BY <1>6
<1>11. Table!Unmount(k)
  BY <1>9, <1>10 DEF Table!Unmount, mountedNow
<1>12. QED
  BY <1>11 DEF Table!Next

\* A file operation reaches a deepest mount, with the rest of the path, or
\* misses.
LEMMA FileOperationTable ==
  ASSUME MountInv, NEW op \in Operations, NEW path \in Paths,
         UNCHANGED mount_points,
         last' = [op |-> op, path |-> path,
                  to |-> IF find_mount_point(path) = 0 THEN NoCall
                         ELSE CallTo(mount_points[find_mount_point(path)], op, path)]
  PROVE  Table!Next
<1> DEFINE w == find_mount_point(path)
           m == mount_points[w]
<1>1. /\ w = 0 => Table!Deepest(path) = {}
      /\ w # 0 => /\ m \in Table!Deepest(path)
                  /\ m.path \in Seq(STRING)
                  /\ Covers(m.path, path)
  BY ServingIsDeepest DEF MountInv
<1>2. UNCHANGED mountedNow
  BY DEF mountedNow
<1>3. path \in Seq(STRING)
  BY FsMountAssumption DEF FsMountAssumption
<1>4. last' = [op |-> op, path |-> path, to |-> IF w = 0 THEN NoCall ELSE CallTo(m, op, path)]
  OBVIOUS
<1> HIDE DEF w, m
<1>5. CASE w # 0 /\ op \in Ops(m.fs)
  <2>1. RelPath(m.path, path) = Table!Rest(m, path)
    BY <1>1, <1>3, <1>5, CoversProperties DEF Table!Rest
  <2>2. last' = [op |-> op, path |-> path,
                 to |-> [data |-> m.data, rel |-> Table!Rest(m, path)]]
    BY <1>4, <1>5, <2>1 DEF CallTo
  <2>3. Table!Reach(op, path)
    BY <1>1, <1>2, <1>5, <2>2 DEF Table!Reach, mountedNow
  <2>4. QED
    BY <2>3 DEF Table!Next
<1>6. CASE ~(w # 0 /\ op \in Ops(m.fs))
  <2>1. last' = [op |-> op, path |-> path, to |-> NoCall]
    BY <1>4, <1>6 DEF CallTo
  <2>2. Table!Miss(op, path)
    BY <1>1, <1>2, <1>6, <2>1 DEF Table!Miss, mountedNow
  <2>3. QED
    BY <2>2 DEF Table!Next
<1>7. QED
  BY <1>5, <1>6

\* Every step of fs_mount.c is a step of the table or leaves it alone.
LEMMA MountStepTable == MountInv /\ [MountNext]_mountVars => [Table!Next]_(Table!vars)
<1> SUFFICES ASSUME MountInv, [MountNext]_mountVars PROVE [Table!Next]_(Table!vars)
  OBVIOUS
<1>1. ASSUME UNCHANGED mount_points, last' = Idle PROVE Table!Next
  BY <1>1 DEF Table!Next, Table!Fails
<1>2. ASSUME UNCHANGED mount_points, UNCHANGED last PROVE UNCHANGED Table!vars
  BY <1>2 DEF Table!vars
<1>3. CASE fs_init
  <2>1. last' = Idle
    BY <1>3 DEF fs_init
  <2>2. ASSUME NEW i \in DOMAIN BuiltIns, NEW d \in Handles, Link(Root, BuiltIns[i], d)
        PROVE  Table!Next
    <3>1. BuiltIns[i] \in Types /\ Root \in MountPaths
      BY FsMountAssumption, LenProperties DEF FsMountAssumption
    <3>2. QED
      BY <2>1, <2>2, <3>1, LinkTable
  <2>3. QED
    BY <1>1, <1>3, <2>1, <2>2 DEF fs_init
<1>4. ASSUME NEW fs \in Types, fs_register(fs) PROVE Table!Next
  BY <1>1, <1>4 DEF fs_register
<1>5. ASSUME NEW p \in MountPaths, NEW name \in Names, fs_mount(p, name) PROVE Table!Next
  <2>1. last' = Idle
    BY <1>5 DEF fs_mount
  <2>2. ASSUME find_filesystem(name) # NoType, NEW d \in Handles,
               Link(p, find_filesystem(name), d)
        PROVE  Table!Next
    <3>1. find_filesystem(name) \in Types
      BY <2>2, FindFilesystemType DEF MountInv
    <3>2. QED
      BY <2>1, <2>2, <3>1, LinkTable
  <2>3. QED
    BY <1>1, <1>5, <2>1, <2>2 DEF fs_mount
<1>6. ASSUME NEW p \in MountPaths, fs_unmount(p) PROVE Table!Next
  <2>1. last' = Idle
    BY <1>6 DEF fs_unmount
  <2>2. CASE UNCHANGED mount_points
    BY <1>1, <2>1, <2>2
  <2>3. CASE FirstAt(p) # 0 /\ mount_points' = RemoveAt(mount_points, FirstAt(p))
    <3>1. FirstAt(p) \in 1..Len(mount_points) /\ mount_points[FirstAt(p)].path = p
      BY <2>3, FirstAtIsFirst DEF MountInv
    <3>2. p # NoPath
      BY FsMountAssumption DEF FsMountAssumption
    <3>3. QED
      BY <2>1, <2>3, <3>1, <3>2, UnmountTable
  <2>4. QED
    BY <1>6, <2>2, <2>3 DEF fs_unmount
<1>7. ASSUME NEW op \in Operations, NEW p \in Paths, file_operation(op, p)
      PROVE  [Table!Next]_(Table!vars)
  <2>1. UNCHANGED mount_points
    BY <1>7 DEF file_operation
  <2>2. CASE UNCHANGED last
    BY <1>2, <2>1, <2>2
  <2>3. CASE last' = [op |-> op, path |-> p,
                      to |-> IF find_mount_point(p) = 0 THEN NoCall
                             ELSE CallTo(mount_points[find_mount_point(p)], op, p)]
    BY <2>1, <2>3, FileOperationTable
  <2>4. QED
    BY <1>7, <2>2, <2>3 DEF file_operation
<1>8. CASE UNCHANGED mountVars
  BY <1>2, <1>8 DEF mountVars
<1>9. QED
  BY <1>3, <1>4, <1>5, <1>6, <1>7, <1>8 DEF MountNext, Serve

\* fs_mount.c implements MountTable.
THEOREM MountServesDeepest == MountSpec => ServesDeepest
<1>1. MountInit => Table!Init
  BY MountInitTable
<1>2. MountInv /\ [MountNext]_mountVars => [Table!Next]_(Table!vars)
  BY MountStepTable
<1>3. QED
  BY <1>1, <1>2, MountInvariance, PTL DEF MountSpec, ServesDeepest, Table!Spec
=============================================================================
