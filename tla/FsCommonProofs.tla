--------------------------- MODULE FsCommonProofs ---------------------------
(***************************************************************************)
(* For any types, paths and handles, and lists of any length:              *)
(* fs/fs_common.c keeps its handles and at most one dummy of a type,       *)
(* unmounts the entry it serves from, and implements MountTable.           *)
(***************************************************************************)
EXTENDS FsCommon, Loops

-----------------------------------------------------------------------------
(* Paths *)

\* A path is covered by no longer path than itself, and by itself only of its
\* own length; the test of find_mount_point is MountTable's, and what the code
\* passes to the driver is what follows the mount's path and its separator.
LEMMA CoversProperties ==
  ASSUME NEW C, NEW q \in Seq(C), NEW path \in Seq(C)
  PROVE  /\ Covers(path, path)
         /\ Covers(q, path) => Len(q) <= Len(path)
         /\ Covers(q, path) /\ Len(q) = Len(path) => q = path
         /\ Covers(q, path) <=>
              path = q \/ \E s \in Separators : IsPrefix(Append(q, s), path)
         /\ Covers(q, path) => RelPath(q, path) = SubSeq(path, Len(q) + 2, Len(path))
<1>1. /\ Covers(q, path) = Reaches(q, path, Separators)
      /\ Covers(path, path) = Reaches(path, path, Separators)
  BY DEF Covers, Reaches
<1>2. Covers(q, path) => RelPath(q, path) = SubSeq(path, Len(q) + 2, Len(path))
  <2>1. RelPath(q, path) = Behind(q, path, Separators)
    BY DEF RelPath, Behind
  <2>2. QED
    BY <1>1, <2>1, RestBehindSeparator
<1>3. QED
  BY <1>1, <1>2, ReachesLength, ReachesIsUnder

\* The inductive invariant: together its three parts make every entry of the
\* list unlike every other, which removing one by its path relies on.
CommonInv == TypeOK /\ HandlesAreMounted /\ OneDummyPerType

-----------------------------------------------------------------------------
(* The look-ups *)

\* The first of a set of indices, 0 of none.
LEMMA FirstOfIsFirst ==
  ASSUME NEW n \in Nat, NEW hits \in SUBSET (1..n)
  PROVE  \/ FirstHit(hits) = 0 /\ hits = {}
         \/ FirstHit(hits) \in hits /\ \A j \in hits : FirstHit(hits) <= j
<1>1. CASE hits = {}
  BY <1>1 DEF FirstHit
<1>2. CASE hits # {}
  BY <1>2, FirstIndex DEF FirstHit
<1>3. QED
  BY <1>1, <1>2

\* The entries a walk for path may stop at, and how long their paths are.
Hits(path) == {i \in 1..Len(mount_points) : Covers(mount_points[i].path, path)}
Lens == [i \in 1..Len(mount_points) |-> Len(mount_points[i].path)]

\* What the list holds.
LEMMA EntryFields ==
  ASSUME TypeOK
  PROVE  /\ Len(mount_points) \in Nat
         /\ DOMAIN mount_points = 1..Len(mount_points)
         /\ Lens \in [1..Len(mount_points) -> Nat]
         /\ \A i \in 1..Len(mount_points) :
              /\ mount_points[i] \in MountPoint
              /\ mount_points[i].fs \in Types
              /\ mount_points[i].data \in Handles \cup {NoData}
              /\ mount_points[i].path \in MountPaths
              /\ mount_points[i].path \in Seq(STRING)
              /\ Lens[i] = Len(mount_points[i].path)
<1>1. /\ Len(mount_points) \in Nat
      /\ DOMAIN mount_points = 1..Len(mount_points)
      /\ \A i \in 1..Len(mount_points) : mount_points[i] \in MountPoint
  BY LenProperties DEF TypeOK
<1>2. ASSUME NEW i \in 1..Len(mount_points)
      PROVE  /\ mount_points[i].fs \in Types
             /\ mount_points[i].data \in Handles \cup {NoData}
             /\ mount_points[i].path \in MountPaths
             /\ mount_points[i].path \in Seq(STRING)
             /\ Len(mount_points[i].path) \in Nat
  <2>1. mount_points[i] \in MountPoint
    BY <1>1
  <2>2. /\ mount_points[i].fs \in Types /\ mount_points[i].data \in Handles \cup {NoData}
        /\ mount_points[i].path \in MountPaths
    BY <2>1 DEF MountPoint
  <2>3. QED
    BY <2>2, FsCommonAssumption, LenProperties DEF FsCommonAssumption
<1>3. QED
  BY <1>1, <1>2 DEF Lens

\* fs_mount only mounts with a type some entry has.
LEMMA TypeNamedType ==
  ASSUME TypeOK, NEW name, TypeNamed(name) # NoType
  PROVE  TypeNamed(name) \in Types
<1> DEFINE hits == {k \in DOMAIN mount_points : NameOf(mount_points[k].fs) = name}
<1>1. Len(mount_points) \in Nat /\ hits \in SUBSET (1..Len(mount_points))
  BY EntryFields
<1>2. TypeNamed(name) = IF FirstHit(hits) = 0 THEN NoType ELSE mount_points[FirstHit(hits)].fs
  BY DEF TypeNamed
<1> HIDE DEF hits
<1>3. FirstHit(hits) \in 1..Len(mount_points)
  BY <1>1, <1>2, FirstOfIsFirst
<1>4. QED
  BY <1>2, <1>3, EntryFields

\* fs_find_mount_point stops at the first of the entries with the longest
\* path that covers the one asked for, and at none only when none covers it.
LEMMA ServingIsLongest ==
  ASSUME TypeOK, NEW path
  PROVE  Longest(fs_find_mount_point(path), Hits(path), Lens)
<1> DEFINE n == Len(mount_points)
           H == Hits(path)
           Turn(i, best) == IF Better(i, path, best) THEN i ELSE best
           IsWalk(w) == w = [i \in 0..n |-> IF i = 0 THEN 0 ELSE Turn(i, w[i - 1])]
<1>1. n \in Nat /\ Lens \in [1..n -> Nat] /\ H \in SUBSET (1..n)
  BY EntryFields DEF Hits
<1>2. ASSUME NEW i \in 1..n, NEW b \in {0} \cup H
      PROVE  Turn(i, b) = IF i \in H /\ (b = 0 \/ Lens[i] > Lens[b]) THEN i ELSE b
  <2>1. Covers(mount_points[i].path, path) <=> i \in H
    BY DEF Hits
  <2>2. \A j \in H : Lens[j] = Len(mount_points[j].path)
    BY EntryFields DEF Hits
  <2> HIDE DEF n, H
  <2>3. QED
    BY <2>1, <2>2 DEF Better
<1>3. \E w : IsWalk(w)
  <2> HIDE DEF n, H
  <2>1. PICK w : w \in [0..n -> {0} \cup H] /\ Walk(w, n, H, Lens)
    BY <1>1, WalkExists
  <2>2. ASSUME NEW i \in 1..n PROVE w[i] = Turn(i, w[i - 1])
    <3>1. i - 1 \in 0..n
      BY <1>1
    <3>2. w[i - 1] \in {0} \cup H
      BY <2>1, <3>1
    <3> HIDE DEF Turn
    <3>3. QED
      BY <1>2, <2>1, <3>2 DEF Walk
  <2>3. w[0] = 0
    BY <2>1 DEF Walk
  <2> HIDE DEF Turn
  <2>4. QED
    BY <1>1, <2>1, <2>2, <2>3
<1> DEFINE f == CHOOSE w : IsWalk(w)
<1>4. IsWalk(f)
  <2> HIDE DEF IsWalk
  <2> QED
    BY <1>3
<1>5. fs_find_mount_point(path) = f[n]
  BY DEF fs_find_mount_point
<1> HIDE DEF f, H
<1>6. f[0] = 0 /\ \A i \in 1..n : f[i] = Turn(i, f[i - 1])
  <2> HIDE DEF Turn
  <2> QED
    BY <1>1, <1>4
<1>7. \A k \in 0..n : f[k] \in {0} \cup H
  <2>1. \A i \in 1..n : f[i] = f[i - 1] \/ (f[i] = i /\ i \in H)
    BY <1>6 DEF H, Hits, Better
  <2> HIDE DEF n
  <2>2. QED
    BY <1>1, <1>6, <2>1, WalkStays
<1>8. f \in [0..n -> Nat]
  <2>1. f = [i \in 0..n |-> f[i]]
    <3> HIDE DEF Turn, n
    <3> QED
      BY <1>4
  <2> HIDE DEF n
  <2>2. QED
    BY <1>1, <1>7, <2>1
<1>9. Walk(f, n, H, Lens)
  <2>1. ASSUME NEW i \in 1..n
        PROVE  f[i] = IF i \in H /\ (f[i - 1] = 0 \/ Lens[i] > Lens[f[i - 1]])
                      THEN i ELSE f[i - 1]
    <3>1. i - 1 \in 0..n
      BY <1>1
    <3> HIDE DEF Turn, n
    <3>2. QED
      BY <1>2, <1>6, <1>7, <3>1
  <2> HIDE DEF n
  <2>2. QED
    BY <1>6, <2>1 DEF Walk
<1>10. Longest(f[n], H, Lens)
  <2> HIDE DEF n
  <2> QED
    BY <1>1, <1>8, <1>9, WalkFindsLongest
<1>11. QED
  BY <1>5, <1>10 DEF H

\* FirstAt is the first entry of the path, 0 when there is none.
LEMMA FirstAtIsFirst ==
  ASSUME TypeOK, NEW path
  PROVE  LET i == FirstAt(path)
         IN  \/ i = 0 /\ \A j \in 1..Len(mount_points) : mount_points[j].path # path
             \/ /\ i \in 1..Len(mount_points)
                /\ mount_points[i].path = path
                /\ \A j \in 1..Len(mount_points) : mount_points[j].path = path => i <= j
<1> DEFINE hits == {k \in DOMAIN mount_points : mount_points[k].path = path}
<1>1. /\ Len(mount_points) \in Nat /\ hits \in SUBSET (1..Len(mount_points))
      /\ DOMAIN mount_points = 1..Len(mount_points)
  BY EntryFields
<1>2. \/ FirstHit(hits) = 0 /\ hits = {}
      \/ FirstHit(hits) \in hits /\ \A j \in hits : FirstHit(hits) <= j
  <2> HIDE DEF hits
  <2> QED
    BY <1>1, FirstOfIsFirst
<1>3. QED
  BY <1>1, <1>2 DEF FirstAt

-----------------------------------------------------------------------------
(* Types, handles and dummies *)

\* An entry joins the head of the list: a dummy of a type no entry has, or a
\* mount with a handle nothing else has.
LEMMA LinkInv ==
  ASSUME CommonInv, NEW m \in MountPoint, mount_points' = <<m>> \o mount_points,
         \/ /\ m = Dummy(m.fs) /\ ~Known(m.fs)
            /\ opened' = opened
         \/ /\ m.data \in Handles \ opened
            /\ opened' = opened \cup {m.data}
  PROVE  /\ mount_points' \in Seq(MountPoint)
         /\ \A i \in DOMAIN (mount_points') :
              mount_points'[i].data = NoData => mount_points'[i].path = Root
         /\ opened' \subseteq Handles
         /\ HandlesAreMounted'
         /\ OneDummyPerType'
         /\ m \notin Range(mount_points)
         /\ Range(mount_points') = Range(mount_points) \cup {m}
<1> DEFINE n == Len(mount_points)
<1>1. /\ mount_points \in Seq(MountPoint)
      /\ n \in Nat /\ DOMAIN mount_points = 1..n
      /\ opened \subseteq Handles /\ NoData \notin Handles
      /\ \A i \in 1..n : mount_points[i].data = NoData => mount_points[i].path = Root
      /\ \A i \in 1..n : mount_points[i] \in MountPoint
  BY EntryFields, FsCommonAssumption DEF CommonInv, TypeOK, FsCommonAssumption
<1>2. /\ mount_points' \in Seq(MountPoint)
      /\ Len(mount_points') = n + 1
      /\ mount_points'[1] = m
      /\ \A i \in 1..n : mount_points'[i + 1] = mount_points[i]
  BY <1>1, PrependProperties
<1>3. DOMAIN (mount_points') = 1..(n + 1)
  BY <1>2, LenProperties
<1>4. /\ opened = {mount_points[i].data : i \in 1..n} \ {NoData}
      /\ \A i, j \in 1..n : mount_points[i].data # NoData
           /\ mount_points[i].data = mount_points[j].data => i = j
      /\ \A i, j \in 1..n : mount_points[i] = mount_points[j] => i = j
  BY <1>1 DEF CommonInv, HandlesAreMounted, OneDummyPerType
<1>5. /\ m.data = NoData => /\ m.path = Root /\ opened' = opened
                            /\ \A i \in 1..n : mount_points[i].fs # m.fs
      /\ m.data # NoData => /\ m.data \in Handles \ opened
                            /\ opened' = opened \cup {m.data}
      /\ m.data \in Handles \cup {NoData}
  <2>1. m.data \in Handles \cup {NoData}
    BY DEF MountPoint
  <2>2. Dummy(m.fs).data = NoData /\ Dummy(m.fs).path = Root
    BY DEF Dummy
  <2>3. QED
    BY <1>1, <2>1, <2>2 DEF Known
<1>6. /\ \A i \in 1..(n + 1) : i = 1 \/ (i - 1 \in 1..n /\ (i - 1) + 1 = i)
      /\ \A i \in 1..n : i + 1 \in 1..(n + 1)
      /\ 1 \in 1..(n + 1)
      /\ \A i, j \in 1..(n + 1) : i - 1 = j - 1 => i = j
  BY <1>1
<1> HIDE DEF n
<1>7. \A i \in 1..(n + 1) :
        \/ i = 1 /\ mount_points'[i] = m
        \/ i - 1 \in 1..n /\ mount_points'[i] = mount_points[i - 1]
  BY <1>2, <1>6
<1>8. \A i \in 1..n : m.data # NoData => mount_points[i].data # m.data
  <2>1. \A i \in 1..n : mount_points[i].data # NoData => mount_points[i].data \in opened
    BY <1>4
  <2>2. QED
    BY <1>5, <2>1
<1>9. \A i \in 1..n : mount_points[i] # m
  BY <1>5, <1>8
<1>10. Range(mount_points') = Range(mount_points) \cup {m}
  <2>1. ASSUME NEW x \in Range(mount_points') PROVE x \in Range(mount_points) \cup {m}
    <3>1. PICK i \in 1..(n + 1) : x = mount_points'[i]
      BY <1>3 DEF Range
    <3>2. QED
      BY <1>1, <1>7, <3>1 DEF Range
  <2>2. ASSUME NEW x \in Range(mount_points) PROVE x \in Range(mount_points')
    <3>1. PICK i \in 1..n : x = mount_points[i]
      BY <1>1 DEF Range
    <3>2. QED
      BY <1>2, <1>3, <1>6, <3>1 DEF Range
  <2>3. m \in Range(mount_points')
    BY <1>2, <1>3, <1>6 DEF Range
  <2>4. QED
    BY <2>1, <2>2, <2>3
<1>11. m \notin Range(mount_points)
  BY <1>1, <1>9 DEF Range
<1>12. HandlesAreMounted'
  <2>1. opened' = {mount_points'[i].data : i \in 1..(n + 1)} \ {NoData}
    <3>1. ASSUME NEW x \in opened'
          PROVE  x \in {mount_points'[i].data : i \in 1..(n + 1)} \ {NoData}
      <4>1. CASE x \in opened
        <5>1. PICK i \in 1..n : x = mount_points[i].data
          BY <1>4, <4>1
        <5>2. x # NoData
          BY <1>1, <4>1
        <5>3. QED
          BY <1>2, <1>6, <5>1, <5>2
      <4>2. CASE x = m.data /\ m.data # NoData
        BY <1>2, <1>6, <4>2
      <4>3. QED
        BY <1>5, <3>1, <4>1, <4>2
    <3>2. ASSUME NEW i \in 1..(n + 1), mount_points'[i].data # NoData
          PROVE  mount_points'[i].data \in opened'
      <4>1. CASE mount_points'[i] = m
        BY <1>5, <3>2, <4>1
      <4>2. CASE i - 1 \in 1..n /\ mount_points'[i] = mount_points[i - 1]
        <5>1. mount_points[i - 1].data \in opened
          BY <1>4, <3>2, <4>2
        <5>2. QED
          BY <1>5, <4>2, <5>1
      <4>3. QED
        BY <1>7, <4>1, <4>2
    <3>3. QED
      BY <3>1, <3>2
  <2>2. ASSUME NEW i \in 1..(n + 1), NEW j \in 1..(n + 1),
               mount_points'[i].data # NoData,
               mount_points'[i].data = mount_points'[j].data
        PROVE  i = j
    <3>1. CASE i = 1 /\ mount_points'[i] = m
      <4>1. ~(j - 1 \in 1..n /\ mount_points'[j] = mount_points[j - 1])
        BY <1>8, <2>2, <3>1
      <4>2. QED
        BY <1>7, <3>1, <4>1
    <3>2. CASE i - 1 \in 1..n /\ mount_points'[i] = mount_points[i - 1]
      <4>1. mount_points'[j] # m
        BY <1>8, <2>2, <3>2
      <4>2. j - 1 \in 1..n /\ mount_points'[j] = mount_points[j - 1]
        BY <1>7, <4>1
      <4>3. i - 1 = j - 1
        BY <1>4, <2>2, <3>2, <4>2
      <4>4. QED
        BY <1>6, <4>3
    <3>3. QED
      BY <1>7, <3>1, <3>2
  <2>3. QED
    BY <1>3, <2>1, <2>2 DEF HandlesAreMounted
<1>13. OneDummyPerType'
  <2>1. ASSUME NEW i \in 1..(n + 1), NEW j \in 1..(n + 1), mount_points'[i] = mount_points'[j]
        PROVE  i = j
    <3>1. CASE i = 1 /\ mount_points'[i] = m
      <4>1. ~(j - 1 \in 1..n /\ mount_points'[j] = mount_points[j - 1])
        BY <1>9, <2>1, <3>1
      <4>2. QED
        BY <1>7, <3>1, <4>1
    <3>2. CASE i - 1 \in 1..n /\ mount_points'[i] = mount_points[i - 1]
      <4>1. mount_points'[j] # m
        BY <1>9, <2>1, <3>2
      <4>2. j - 1 \in 1..n /\ mount_points'[j] = mount_points[j - 1]
        BY <1>7, <4>1
      <4>3. i - 1 = j - 1
        BY <1>4, <2>1, <3>2, <4>2
      <4>4. QED
        BY <1>6, <4>3
    <3>3. QED
      BY <1>7, <3>1, <3>2
  <2>2. QED
    BY <1>3, <2>1 DEF OneDummyPerType
<1>14. \A i \in 1..(n + 1) : mount_points'[i].data = NoData => mount_points'[i].path = Root
  BY <1>1, <1>5, <1>7 DEF n
<1>15. opened' \subseteq Handles
  BY <1>1, <1>5
<1>16. QED
  BY <1>2, <1>3, <1>10, <1>11, <1>12, <1>13, <1>14, <1>15
\* An entry taken out gives back its handle and no other.
LEMMA UnlinkInv ==
  ASSUME CommonInv, NEW i \in 1..Len(mount_points),
         mount_points' = RemoveAt(mount_points, i),
         opened' = opened \ {mount_points[i].data}
  PROVE  /\ mount_points' \in Seq(MountPoint)
         /\ \A j \in DOMAIN (mount_points') :
              mount_points'[j].data = NoData => mount_points'[j].path = Root
         /\ opened' \subseteq Handles
         /\ HandlesAreMounted'
         /\ OneDummyPerType'
         /\ mount_points[i] \in Range(mount_points)
         /\ Range(mount_points') = Range(mount_points) \ {mount_points[i]}
<1> DEFINE n == Len(mount_points)
           from(j) == IF j < i THEN j ELSE j + 1
           m == mount_points[i]
<1>1. /\ mount_points \in Seq(MountPoint)
      /\ n \in Nat /\ DOMAIN mount_points = 1..n
      /\ opened \subseteq Handles /\ NoData \notin Handles
      /\ \A j \in 1..n : mount_points[j].data = NoData => mount_points[j].path = Root
  BY EntryFields, FsCommonAssumption DEF CommonInv, TypeOK, FsCommonAssumption
<1>2. /\ mount_points' \in Seq(MountPoint)
      /\ Len(mount_points') = n - 1
      /\ \A j \in 1..(n - 1) : mount_points'[j] = mount_points[from(j)]
  BY <1>1, RemoveAtProperties
<1>3. DOMAIN (mount_points') = 1..(n - 1)
  BY <1>2, LenProperties
<1>4. /\ opened = {mount_points[j].data : j \in 1..n} \ {NoData}
      /\ \A j, k \in 1..n : /\ mount_points[j].data # NoData
                            /\ mount_points[j].data = mount_points[k].data
                            => j = k
      /\ \A j, k \in 1..n : mount_points[j] = mount_points[k] => j = k
  BY <1>1 DEF CommonInv, HandlesAreMounted, OneDummyPerType
<1>5. /\ i \in 1..n
      /\ \A j \in 1..(n - 1) : from(j) \in 1..n /\ from(j) # i
      /\ \A j, k \in 1..(n - 1) : from(j) = from(k) => j = k
  BY <1>1
<1>6. \A k \in 1..n : k # i => \E j \in 1..(n - 1) : from(j) = k
  <2>1. ASSUME NEW k \in 1..n, k # i PROVE \E j \in 1..(n - 1) : from(j) = k
    <3>1. CASE k < i
      <4>1. k \in 1..(n - 1) /\ from(k) = k
        BY <1>1, <3>1
      <4>2. QED
        BY <4>1
    <3>2. CASE ~(k < i)
      <4>1. k - 1 \in 1..(n - 1) /\ from(k - 1) = k
        BY <1>1, <2>1, <3>2
      <4>2. QED
        BY <4>1
    <3>3. QED
      BY <3>1, <3>2
  <2>2. QED
    BY <2>1
<1> HIDE DEF n, from
<1>7. HandlesAreMounted'
  <2>1. \A j, k \in 1..(n - 1) : /\ mount_points'[j].data # NoData
                               /\ mount_points'[j].data = mount_points'[k].data
                               => j = k
    BY <1>2, <1>4, <1>5
  <2>2. ASSUME NEW d \in opened'
        PROVE  d \in {mount_points'[j].data : j \in 1..(n - 1)} \ {NoData}
    <3>1. PICK k \in 1..n : mount_points[k].data = d
      BY <1>4
    <3>2. k # i /\ d # NoData
      BY <1>4, <3>1
    <3>3. PICK j \in 1..(n - 1) : from(j) = k
      BY <1>6, <3>2
    <3>4. QED
      BY <1>2, <3>1, <3>2, <3>3
  <2>3. ASSUME NEW j \in 1..(n - 1), mount_points'[j].data # NoData
        PROVE  mount_points'[j].data \in opened'
    <3>1. /\ mount_points'[j].data = mount_points[from(j)].data
          /\ from(j) \in 1..n /\ from(j) # i
      BY <1>2, <1>5
    <3>2. mount_points[from(j)].data \in opened
      BY <1>4, <2>3, <3>1
    <3>3. mount_points[from(j)].data # mount_points[i].data
      BY <1>4, <1>5, <2>3, <3>1
    <3>4. QED
      BY <3>1, <3>2, <3>3
  <2>4. opened' = {mount_points'[j].data : j \in 1..(n - 1)} \ {NoData}
    BY <2>2, <2>3
  <2>5. QED
    BY <1>3, <2>1, <2>4 DEF HandlesAreMounted
<1>8. OneDummyPerType'
  <2>1. \A j, k \in 1..(n - 1) : mount_points'[j] = mount_points'[k] => j = k
    BY <1>2, <1>4, <1>5
  <2>2. QED
    BY <1>3, <2>1 DEF OneDummyPerType
<1>9. Range(mount_points') = Range(mount_points) \ {m}
  <2>1. ASSUME NEW x \in Range(mount_points') PROVE x \in Range(mount_points) \ {m}
    <3>1. PICK j \in 1..(n - 1) : x = mount_points'[j]
      BY <1>3 DEF Range
    <3>2. x = mount_points[from(j)] /\ from(j) \in 1..n /\ from(j) # i
      BY <1>2, <1>5, <3>1
    <3>3. QED
      BY <1>1, <1>4, <1>5, <3>2 DEF Range
  <2>2. ASSUME NEW x \in Range(mount_points), x # m PROVE x \in Range(mount_points')
    <3>1. PICK k \in 1..n : x = mount_points[k]
      BY <1>1 DEF Range
    <3>2. \E j \in 1..(n - 1) : from(j) = k
      BY <1>6, <2>2, <3>1
    <3>3. QED
      BY <1>2, <1>3, <3>1, <3>2 DEF Range
  <2>3. QED
    BY <2>1, <2>2
<1>10. m \in Range(mount_points)
  BY <1>1, <1>5 DEF Range
<1>11. \A j \in 1..(n - 1) : mount_points'[j].data = NoData => mount_points'[j].path = Root
  BY <1>1, <1>2, <1>5
<1>12. opened' \subseteq Handles
  BY <1>1
<1>13. QED
  BY <1>2, <1>3, <1>7, <1>8, <1>9, <1>10, <1>11, <1>12

\* fs_register, when it links, links a dummy of a type no entry has.
LEMMA RegisterLinks ==
  ASSUME CommonInv, NEW fs \in Types, fs_register(fs), ~UNCHANGED mount_points
  PROVE  \E m \in MountPoint : /\ mount_points' = <<m>> \o mount_points
                               /\ m = Dummy(m.fs) /\ ~Known(m.fs)
                               /\ opened' = opened
<1>1. Dummy(fs) \in MountPoint /\ Dummy(fs).fs = fs
  BY FsCommonAssumption DEF FsCommonAssumption, Dummy, MountPoint
<1>2. ~Known(fs) /\ mount_points' = <<Dummy(fs)>> \o mount_points /\ opened' = opened
  BY DEF fs_register
<1>3. QED
  BY <1>1, <1>2

\* fs_mount, when it links, links a mount with a handle nothing else has.
LEMMA MountLinks ==
  ASSUME CommonInv, NEW path \in MountPaths, NEW name, fs_mount(path, name),
         ~UNCHANGED <<mount_points, opened>>
  PROVE  \E m \in MountPoint : /\ mount_points' = <<m>> \o mount_points
                               /\ m.data \in Handles \ opened
                               /\ opened' = opened \cup {m.data}
<1> DEFINE fs == TypeNamed(name)
<1>1. fs # NoType
  BY DEF fs_mount
<1>2. fs \in Types
  BY <1>1, TypeNamedType DEF CommonInv
<1>3. PICK d \in Handles \ opened :
        /\ opened' = opened \cup {d}
        /\ mount_points' = <<[path |-> path, fs |-> fs, data |-> d]>> \o mount_points
  BY DEF fs_mount, OutOfMemory
<1>4. PICK m \in MountPoint : m = [path |-> path, fs |-> fs, data |-> d]
  BY <1>2 DEF MountPoint
<1>5. QED
  BY <1>3, <1>4

\* fs_unmount takes out the first entry of the path, or leaves the list.
LEMMA UnmountUnlinks ==
  ASSUME CommonInv, NEW path \in MountPaths, fs_unmount(path)
  PROVE  \/ FirstAt(path) = 0 /\ UNCHANGED <<mount_points, opened>>
         \/ /\ FirstAt(path) \in 1..Len(mount_points)
            /\ mount_points[FirstAt(path)].path = path
            /\ mount_points' = RemoveAt(mount_points, FirstAt(path))
            /\ opened' = opened \ {mount_points[FirstAt(path)].data}
<1>1. CASE FirstAt(path) = 0
  BY <1>1 DEF fs_unmount
<1>2. CASE FirstAt(path) # 0
  BY <1>2, FirstAtIsFirst DEF fs_unmount, CommonInv
<1>3. QED
  BY <1>1, <1>2

\* The initial state satisfies the invariant.
LEMMA CommonInitInv == CommonInit => CommonInv
<1> SUFFICES ASSUME CommonInit PROVE CommonInv
  OBVIOUS
<1>1. DOMAIN mount_points = {} /\ opened = {}
  BY DEF CommonInit
<1>2. mount_points \in Seq(MountPoint)
  BY DEF CommonInit
<1>3. faulted \in BOOLEAN
  BY DEF CommonInit
<1>4. QED
  BY <1>1, <1>2, <1>3 DEF CommonInv, TypeOK, HandlesAreMounted, OneDummyPerType

\* No step breaks the invariant: one step of the proof per call.
LEMMA CommonNextInv == CommonInv /\ [CommonNext]_commonVars => CommonInv'
<1> SUFFICES ASSUME CommonInv, [CommonNext]_commonVars
             PROVE  CommonInv'
  OBVIOUS
<1> DEFINE Kept == /\ mount_points' \in Seq(MountPoint)
                   /\ \A i \in DOMAIN (mount_points') :
                        mount_points'[i].data = NoData => mount_points'[i].path = Root
                   /\ opened' \subseteq Handles
                   /\ HandlesAreMounted'
                   /\ OneDummyPerType'
<1>1. Kept /\ faulted' \in BOOLEAN => CommonInv'
  BY DEF CommonInv, TypeOK
<1>2. faulted \in BOOLEAN
  BY DEF CommonInv, TypeOK
<1>3. ASSUME UNCHANGED <<mount_points, opened>> PROVE Kept
  BY <1>3 DEF CommonInv, TypeOK, HandlesAreMounted, OneDummyPerType
<1> HIDE DEF Kept
<1>4. ASSUME NEW fs \in Types, fs_register(fs) PROVE CommonInv'
  <2>1. UNCHANGED <<opened, faulted>>
    BY <1>4 DEF fs_register
  <2>2. CASE UNCHANGED mount_points
    BY <1>1, <1>2, <1>3, <2>1, <2>2
  <2>3. CASE ~UNCHANGED mount_points
    <3>1. PICK m \in MountPoint : /\ mount_points' = <<m>> \o mount_points
                                 /\ m = Dummy(m.fs) /\ ~Known(m.fs)
                                 /\ opened' = opened
      BY <1>4, <2>3, RegisterLinks
    <3>2. Kept
      BY <3>1, LinkInv DEF Kept
    <3>3. QED
      BY <1>1, <1>2, <2>1, <3>2
  <2>4. QED
    BY <2>2, <2>3
<1>5. ASSUME NEW p \in MountPaths, NEW name \in Names, fs_mount(p, name) PROVE CommonInv'
  <2>1. UNCHANGED faulted
    BY <1>5 DEF fs_mount
  <2>2. CASE UNCHANGED <<mount_points, opened>>
    BY <1>1, <1>2, <1>3, <2>1, <2>2
  <2>3. CASE ~UNCHANGED <<mount_points, opened>>
    <3>1. PICK m \in MountPoint : /\ mount_points' = <<m>> \o mount_points
                                 /\ m.data \in Handles \ opened
                                 /\ opened' = opened \cup {m.data}
      BY <1>5, <2>3, MountLinks
    <3>2. Kept
      BY <3>1, LinkInv DEF Kept
    <3>3. QED
      BY <1>1, <1>2, <2>1, <3>2
  <2>4. QED
    BY <2>2, <2>3
<1>6. ASSUME NEW p \in MountPaths, fs_unmount(p) PROVE CommonInv'
  <2>1. faulted' \in BOOLEAN
    BY <1>6 DEF fs_unmount
  <2>2. CASE UNCHANGED <<mount_points, opened>>
    BY <1>1, <1>3, <2>1, <2>2
  <2>3. CASE /\ FirstAt(p) \in 1..Len(mount_points)
             /\ mount_points' = RemoveAt(mount_points, FirstAt(p))
             /\ opened' = opened \ {mount_points[FirstAt(p)].data}
    <3>1. Kept
      BY <2>3, UnlinkInv DEF Kept
    <3>2. QED
      BY <1>1, <2>1, <3>1
  <2>4. QED
    BY <1>6, <2>2, <2>3, UnmountUnlinks
<1>7. ASSUME NEW op \in Operations, NEW p \in FilePaths, file_operation(op, p) PROVE CommonInv'
  BY <1>1, <1>2, <1>3, <1>7 DEF file_operation
<1>8. CASE UNCHANGED commonVars
  BY <1>1, <1>2, <1>3, <1>8 DEF commonVars
<1>9. QED
  BY <1>4, <1>5, <1>6, <1>7, <1>8 DEF CommonNext

\* Every behaviour keeps the invariant.
THEOREM CommonInvariance == CommonSpec => []CommonInv
<1>1. CommonInit => CommonInv
  BY CommonInitInv
<1>2. CommonInv /\ [CommonNext]_commonVars => CommonInv'
  BY CommonNextInv
<1>3. QED
  BY <1>1, <1>2, PTL DEF CommonSpec

\* The list holds only well-formed entries, and one without private data
\* stands at the root.
THEOREM CommonTypeCorrect == CommonSpec => []TypeOK
<1>1. CommonInv => TypeOK
  BY DEF CommonInv
<1>2. QED
  BY <1>1, CommonInvariance, PTL

\* Every handle a driver gave out is kept by exactly one mount point.
THEOREM CommonHandlesSafe == CommonSpec => []HandlesAreMounted
<1>1. CommonInv => HandlesAreMounted
  BY DEF CommonInv
<1>2. QED
  BY <1>1, CommonInvariance, PTL

\* A type has at most one dummy, however often its driver registers.
THEOREM CommonDummiesSafe == CommonSpec => []OneDummyPerType
<1>1. CommonInv => OneDummyPerType
  BY DEF CommonInv
<1>2. QED
  BY <1>1, CommonInvariance, PTL
-----------------------------------------------------------------------------
(* What a step may never do *)

\* A path some entry has is served by the first that has it.
LEMMA FirstAtServes ==
  ASSUME TypeOK, NEW path \in MountPaths, FirstAt(path) # 0
  PROVE  fs_find_mount_point(path) = FirstAt(path)
<1> DEFINE i == FirstAt(path)
           w == fs_find_mount_point(path)
           n == Len(mount_points)
<1>1. /\ i \in 1..n /\ mount_points[i].path = path
      /\ \A j \in 1..n : mount_points[j].path = path => i <= j
  BY FirstAtIsFirst
<1>2. path \in Seq(STRING) /\ Len(path) \in Nat
  BY FsCommonAssumption, LenProperties DEF FsCommonAssumption
<1>3. Longest(w, Hits(path), Lens)
  BY ServingIsLongest
<1> HIDE DEF i, w, n
<1>4. i \in Hits(path)
  BY <1>1, <1>2, CoversProperties DEF Hits, n
<1>5. /\ w \in Hits(path)
      /\ Lens[i] <= Lens[w]
      /\ i < w => Lens[i] < Lens[w]
  BY <1>3, <1>4 DEF Longest
<1>6. /\ w \in 1..n /\ n \in Nat
      /\ Covers(mount_points[w].path, path)
      /\ mount_points[w].path \in Seq(STRING)
      /\ Lens[w] = Len(mount_points[w].path)
      /\ Lens[i] = Len(path)
  BY <1>1, <1>5, EntryFields DEF Hits, n
<1>7. Len(mount_points[w].path) \in Nat
  BY <1>6, LenProperties
<1>8. mount_points[w].path = path
  BY <1>2, <1>5, <1>6, <1>7, CoversProperties
<1>9. i <= w /\ ~(i < w)
  BY <1>1, <1>5, <1>6, <1>7, <1>8
<1>10. QED
  BY <1>1, <1>6, <1>9 DEF i, w

\* An entry goes only when it was serving its path.
LEMMA UnmountStep ==
  ASSUME CommonInv, [CommonNext]_commonVars, NEW i \in DOMAIN mount_points,
         mount_points[i] \notin Range(mount_points')
  PROVE  fs_find_mount_point(mount_points[i].path) = i
<1>1. /\ TypeOK /\ i \in 1..Len(mount_points) /\ mount_points[i] \in Range(mount_points)
      /\ DOMAIN mount_points = 1..Len(mount_points)
  BY EntryFields DEF CommonInv, Range
<1>2. ~(Range(mount_points) \subseteq Range(mount_points'))
  BY <1>1
<1>3. mount_points' # mount_points
  BY <1>2
<1>4. PICK p \in MountPaths : fs_unmount(p)
  <2>1. ~UNCHANGED commonVars
    BY <1>3 DEF commonVars
  <2>2. \A fs \in Types : ~fs_register(fs)
    <3>1. ASSUME NEW fs \in Types, fs_register(fs) PROVE FALSE
      <4>1. PICK m \in MountPoint : /\ mount_points' = <<m>> \o mount_points
                                   /\ m = Dummy(m.fs) /\ ~Known(m.fs)
                                   /\ opened' = opened
        BY <1>3, <3>1, RegisterLinks
      <4>2. Range(mount_points') = Range(mount_points) \cup {m}
        BY <4>1, LinkInv
      <4>3. QED
        BY <1>2, <4>2
    <3>2. QED
      BY <3>1
  <2>3. \A p \in MountPaths, name \in Names : ~fs_mount(p, name)
    <3>1. ASSUME NEW p \in MountPaths, NEW name \in Names, fs_mount(p, name) PROVE FALSE
      <4>1. PICK m \in MountPoint : /\ mount_points' = <<m>> \o mount_points
                                   /\ m.data \in Handles \ opened
                                   /\ opened' = opened \cup {m.data}
        BY <1>3, <3>1, MountLinks
      <4>2. Range(mount_points') = Range(mount_points) \cup {m}
        BY <4>1, LinkInv
      <4>3. QED
        BY <1>2, <4>2
    <3>2. QED
      BY <3>1
  <2>4. \A op \in Operations, p \in FilePaths : ~file_operation(op, p)
    BY <1>3 DEF file_operation
  <2>5. QED
    BY <2>1, <2>2, <2>3, <2>4 DEF CommonNext
<1>5. /\ FirstAt(p) \in 1..Len(mount_points)
      /\ mount_points[FirstAt(p)].path = p
      /\ mount_points' = RemoveAt(mount_points, FirstAt(p))
      /\ opened' = opened \ {mount_points[FirstAt(p)].data}
  BY <1>3, <1>4, UnmountUnlinks
<1>6. Range(mount_points') = Range(mount_points) \ {mount_points[FirstAt(p)]}
  BY <1>5, UnlinkInv
<1>7. mount_points[i] = mount_points[FirstAt(p)]
  BY <1>1, <1>6
<1>8. FirstAt(p) = i
  BY <1>1, <1>5, <1>7 DEF CommonInv, OneDummyPerType
<1>9. FirstAt(p) # 0
  BY <1>5
<1>10. QED
  BY <1>1, <1>5, <1>8, <1>9, FirstAtServes

\* The entry fs_unmount takes from a path is the one fs_find_mount_point
\* serves that very path from.
THEOREM CommonUnmountsServing == CommonSpec => UnmountTakesServing
<1>1. CommonInv /\ [CommonNext]_commonVars =>
        [\A i \in DOMAIN mount_points :
           mount_points[i] \notin Range(mount_points') =>
             fs_find_mount_point(mount_points[i].path) = i]_commonVars
  BY UnmountStep
<1>2. QED
  BY <1>1, CommonInvariance, PTL DEF CommonSpec, UnmountTakesServing

-----------------------------------------------------------------------------
(* fs_common.c implements MountTable *)

\* The code's test is the table's.
LEMMA CoversIsTableUnder ==
  ASSUME TypeOK, NEW i \in 1..Len(mount_points), NEW path \in FilePaths
  PROVE  path \in Table!Under(mount_points[i]) <=> i \in Hits(path)
<1>1. mount_points[i].path \in Seq(STRING) /\ path \in Seq(STRING)
  BY EntryFields, FsCommonAssumption DEF FsCommonAssumption
<1>2. Covers(mount_points[i].path, path) <=>
        \/ path = mount_points[i].path
        \/ \E s \in Separators : IsPrefix(Append(mount_points[i].path, s), path)
  BY <1>1, CoversProperties
<1>3. \A a, b : Table!IsPrefix(a, b) <=> IsPrefix(a, b)
  BY DEF Table!IsPrefix, IsPrefix
<1>4. QED
  BY <1>2, <1>3 DEF Table!Under, Hits

\* What fs_find_mount_point returns is a deepest mount the path lies under,
\* and it returns none only when there is none.
LEMMA ServingIsDeepest ==
  ASSUME TypeOK, NEW path \in FilePaths
  PROVE  LET w == fs_find_mount_point(path)
         IN  /\ w = 0 => Table!Deepest(path) = {}
             /\ w # 0 => /\ w \in 1..Len(mount_points)
                         /\ mount_points[w] \in Table!Deepest(path)
                         /\ mount_points[w].path \in Seq(STRING)
                         /\ Covers(mount_points[w].path, path)
<1> DEFINE w == fs_find_mount_point(path)
           n == Len(mount_points)
<1>1. Longest(w, Hits(path), Lens) /\ DOMAIN mount_points = 1..n
  BY ServingIsLongest, EntryFields
<1>2. ASSUME NEW m \in Range(mount_points)
      PROVE  \E i \in 1..n : /\ m = mount_points[i]
                             /\ path \in Table!Under(m) <=> i \in Hits(path)
                             /\ Lens[i] = Len(m.path)
  <2>1. PICK i \in 1..n : m = mount_points[i]
    BY <1>1 DEF Range
  <2>2. QED
    BY <2>1, CoversIsTableUnder, EntryFields
<1>3. ASSUME NEW i \in Hits(path)
      PROVE  /\ i \in 1..n /\ mount_points[i] \in Range(mount_points)
             /\ path \in Table!Under(mount_points[i])
             /\ Lens[i] = Len(mount_points[i].path)
             /\ mount_points[i].path \in Seq(STRING)
             /\ Covers(mount_points[i].path, path)
  <2>1. i \in 1..n /\ Covers(mount_points[i].path, path)
    BY DEF Hits
  <2>2. QED
    BY <1>1, <2>1, CoversIsTableUnder, EntryFields DEF Range
<1> HIDE DEF w, n
<1>4. Table!Deepest(path) =
        {m \in Range(mount_points) :
           /\ path \in Table!Under(m)
           /\ \A k \in Range(mount_points) :
                path \in Table!Under(k) => Len(k.path) <= Len(m.path)}
  BY DEF Table!Deepest
<1>5. CASE w = 0
  <2>1. Hits(path) = {}
    BY <1>1, <1>5 DEF Longest
  <2>2. QED
    BY <1>2, <1>4, <1>5, <2>1 DEF w
<1>6. CASE w # 0
  <2>1. w \in Hits(path) /\ \A j \in Hits(path) : Lens[j] <= Lens[w]
    BY <1>1, <1>6 DEF Longest
  <2>2. \A k \in Range(mount_points) :
          path \in Table!Under(k) => Len(k.path) <= Len(mount_points[w].path)
    BY <1>2, <1>3, <2>1
  <2>3. mount_points[w] \in Table!Deepest(path)
    BY <1>3, <1>4, <2>1, <2>2
  <2>4. QED
    BY <1>3, <1>6, <2>1, <2>3 DEF w, n
<1>7. QED
  BY <1>5, <1>6

\* The initial list is the empty table.
LEMMA CommonInitTable == CommonInit => Table!Init
<1> SUFFICES ASSUME CommonInit PROVE Table!Init
  OBVIOUS
<1>1. DOMAIN mount_points = {}
  BY DEF CommonInit
<1>2. QED
  BY <1>1 DEF Table!Init, Range, CommonInit

\* A file operation reaches a deepest mount, with the rest of the path, or
\* misses.
LEMMA FileOperationTable ==
  ASSUME CommonInv, NEW op \in Operations, NEW path \in FilePaths,
         UNCHANGED mount_points,
         last' = [op |-> op, path |-> path,
                  to |-> IF fs_find_mount_point(path) = 0 THEN NoCall
                         ELSE CallTo(mount_points[fs_find_mount_point(path)], op, path)]
  PROVE  Table!Next
<1> DEFINE w == fs_find_mount_point(path)
           m == mount_points[w]
<1>1. /\ w = 0 => Table!Deepest(path) = {}
      /\ w # 0 => /\ m \in Table!Deepest(path)
                  /\ m.path \in Seq(STRING)
                  /\ Covers(m.path, path)
  BY ServingIsDeepest DEF CommonInv
<1>2. UNCHANGED Range(mount_points)
  BY DEF Range
<1>3. path \in Seq(STRING)
  BY FsCommonAssumption DEF FsCommonAssumption
<1>4. last' = [op |-> op, path |-> path, to |-> IF w = 0 THEN NoCall ELSE CallTo(m, op, path)]
  OBVIOUS
<1> HIDE DEF w, m
<1>5. CASE w # 0 /\ op \in Ops(m.fs)
  <2>1. RelPath(m.path, path) = Table!Rest(m, path)
    BY <1>1, <1>3, <1>5, CoversProperties DEF Table!Rest
  <2>2. last' = [op |-> op, path |-> path,
                 to |-> [data |-> m.data, rel |-> Table!Rest(m, path)]]
    BY <1>4, <1>5, <2>1 DEF CallTo
  <2>3. Table!Reach(op, path)
    BY <1>1, <1>2, <1>5, <2>2 DEF Table!Reach
  <2>4. QED
    BY <2>3 DEF Table!Next
<1>6. CASE ~(w # 0 /\ op \in Ops(m.fs))
  <2>1. last' = [op |-> op, path |-> path, to |-> NoCall]
    BY <1>4, <1>6 DEF CallTo
  <2>2. Table!Miss(op, path)
    BY <1>1, <1>2, <1>6, <2>1 DEF Table!Miss
  <2>3. QED
    BY <2>2 DEF Table!Next
<1>7. QED
  BY <1>5, <1>6

\* Every step of fs_common.c is a step of the table or leaves it alone.
LEMMA CommonStepTable == CommonInv /\ [CommonNext]_commonVars => [Table!Next]_(Table!vars)
<1> SUFFICES ASSUME CommonInv, [CommonNext]_commonVars PROVE [Table!Next]_(Table!vars)
  OBVIOUS
<1>1. ASSUME UNCHANGED mount_points, last' = Idle PROVE Table!Next
  BY <1>1 DEF Table!Next, Table!Fails, Range
<1>2. ASSUME NEW m \in MountPoint, m \notin Range(mount_points), last' = Idle,
             Range(mount_points') = Range(mount_points) \cup {m}
      PROVE  Table!Next
  <2>1. Table!Mount(m)
    BY <1>2 DEF Table!Mount, Range
  <2>2. QED
    BY <2>1 DEF Table!Next
<1>3. ASSUME NEW m \in MountPoint, m \in Range(mount_points), last' = Idle,
             Range(mount_points') = Range(mount_points) \ {m}
      PROVE  Table!Next
  <2>1. Table!Unmount(m)
    BY <1>3 DEF Table!Unmount, Range
  <2>2. QED
    BY <2>1 DEF Table!Next
<1>4. ASSUME NEW fs \in Types, fs_register(fs) PROVE Table!Next
  <2>1. last' = Idle
    BY <1>4 DEF fs_register
  <2>2. CASE ~UNCHANGED mount_points
    <3>1. PICK m \in MountPoint : /\ mount_points' = <<m>> \o mount_points
                                 /\ m = Dummy(m.fs) /\ ~Known(m.fs)
                                 /\ opened' = opened
      BY <1>4, <2>2, RegisterLinks
    <3>2. QED
      BY <1>2, <2>1, <3>1, LinkInv
  <2>3. QED
    BY <1>1, <2>1, <2>2
<1>5. ASSUME NEW p \in MountPaths, NEW name \in Names, fs_mount(p, name) PROVE Table!Next
  <2>1. last' = Idle
    BY <1>5 DEF fs_mount
  <2>2. CASE ~UNCHANGED <<mount_points, opened>>
    <3>1. PICK m \in MountPoint : /\ mount_points' = <<m>> \o mount_points
                                 /\ m.data \in Handles \ opened
                                 /\ opened' = opened \cup {m.data}
      BY <1>5, <2>2, MountLinks
    <3>2. QED
      BY <1>2, <2>1, <3>1, LinkInv
  <2>3. QED
    BY <1>1, <2>1, <2>2
<1>6. ASSUME NEW p \in MountPaths, fs_unmount(p) PROVE Table!Next
  <2>1. last' = Idle
    BY <1>6 DEF fs_unmount
  <2>2. CASE /\ FirstAt(p) \in 1..Len(mount_points)
             /\ mount_points' = RemoveAt(mount_points, FirstAt(p))
             /\ opened' = opened \ {mount_points[FirstAt(p)].data}
    <3>1. PICK m \in MountPoint : m = mount_points[FirstAt(p)]
      BY <2>2, EntryFields DEF CommonInv
    <3>2. m \in Range(mount_points) /\ Range(mount_points') = Range(mount_points) \ {m}
      BY <2>2, <3>1, UnlinkInv
    <3>3. QED
      BY <1>3, <2>1, <3>2
  <2>3. QED
    BY <1>1, <1>6, <2>1, <2>2, UnmountUnlinks
<1>7. ASSUME NEW op \in Operations, NEW p \in FilePaths, file_operation(op, p) PROVE Table!Next
  BY <1>7, FileOperationTable DEF file_operation
<1>8. CASE UNCHANGED commonVars
  BY <1>8 DEF commonVars, Table!vars, Range
<1>9. QED
  BY <1>4, <1>5, <1>6, <1>7, <1>8 DEF CommonNext

\* fs_common.c implements MountTable.
THEOREM CommonServesDeepest == CommonSpec => ServesDeepest
<1>1. CommonInit => Table!Init
  BY CommonInitTable
<1>2. CommonInv /\ [CommonNext]_commonVars => [Table!Next]_(Table!vars)
  BY CommonStepTable
<1>3. QED
  BY <1>1, <1>2, CommonInvariance, PTL DEF CommonSpec, ServesDeepest, Table!Spec
=============================================================================
