------------------------------- MODULE Loops -------------------------------
(***************************************************************************)
(* What the proofs share about loops: induction over the naturals, stated  *)
(* for sets instead of predicates, and functions defined by recursion over *)
(* an interval, what the loops of the source become in the models; lists   *)
(* with an element taken out or put in front; the search for the longest   *)
(* match in a list; prefixes of paths; and the names of some entries of a  *)
(* list.  The induction rests on the library theorem that < is             *)
(* well-founded on the naturals.                                           *)
(***************************************************************************)
EXTENDS Integers, SequencesExt, WellFoundedInduction, FiniteSetTheorems, SequenceTheorems, TLAPS

\* Every non-empty set of naturals has a least element.
LEMMA LeastElement ==
  ASSUME NEW T, T \subseteq Nat, T # {}
  PROVE  \E x \in T : \A y \in T : x <= y
<1>1. PICK x \in T : \A y \in T : ~(<<y, x>> \in OpToRel(<, Nat))
  BY NatLessThanWellFounded, WFMin
<1>2. ASSUME NEW y \in T, y < x PROVE FALSE
  <2>1. <<y, x>> \in OpToRel(<, Nat)
    BY <1>2 DEF OpToRel
  <2>2. QED
    BY <1>1, <2>1, Zenon
<1>3. \A y \in T : x <= y
  BY <1>2
<1>4. QED
  BY <1>3

\* The first index of a set is chosen when there is one.
LEMMA FirstIndex ==
  ASSUME NEW n \in Nat, NEW hits \in SUBSET (1..n), hits # {}
  PROVE  LET i == CHOOSE i \in hits : \A j \in hits : i <= j
         IN  i \in hits /\ \A j \in hits : i <= j
<1>1. \E i \in hits : \A j \in hits : i <= j
  <2>1. hits \subseteq Nat
    OBVIOUS
  <2>2. QED
    BY <2>1, LeastElement
<1>2. QED
  BY <1>1, Zenon

\* A bounded non-empty set of naturals has a greatest element.
LEMMA GreatestElement ==
  ASSUME NEW n \in Nat, NEW T, T \subseteq 0..n, T # {}
  PROVE  \E x \in T : \A y \in T : y <= x
<1> DEFINE U == {u \in 0..n : n - u \in T}
<1>1. PICK t \in T : TRUE
  OBVIOUS
<1>2. n - t \in U /\ U \subseteq Nat
  BY <1>1
<1>3. PICK u \in U : \A v \in U : u <= v
  <2> HIDE DEF U
  <2> QED
    BY <1>2, LeastElement
<1>4. ASSUME NEW y \in T PROVE y <= n - u
  <2>1. n - y \in U
    OBVIOUS
  <2>2. u <= n - y
    BY <1>3, <2>1
  <2>3. QED
    BY <2>2, <1>3
<1>5. QED
  BY <1>3, <1>4

\* What holds of m, and of k + 1 when it holds of k, holds from m to n.
LEMMA IntervalInduction ==
  ASSUME NEW m \in Nat, NEW n \in Nat, NEW S, m \in S,
         \A k \in m..(n - 1) : k \in S => k + 1 \in S
  PROVE  m..n \subseteq S
<1> DEFINE T == (m..n) \ S
<1>1. T # {} => \E x \in T : \A y \in T : x <= y
  <2>1. T \subseteq Nat
    OBVIOUS
  <2>2. QED
    BY <2>1, LeastElement
<1>2. QED
  BY <1>1

\* f holds the value of a loop over 1..n before its first turn and after each.
Unfolds(f, n, d0, step) ==
  f[0] = d0 /\ \A i \in 1..n : f[i] = step[<<i, f[i - 1]>>]

\* A loop over 1..n that computes its next value from the index and the last
\* one has a value after each turn.
LEMMA RecursionOverInterval ==
  ASSUME NEW n \in Nat, NEW D, NEW d0 \in D, NEW step \in [(1..n) \X D -> D]
  PROVE  \E f \in [0..n -> D] : Unfolds(f, n, d0, step)
<1> DEFINE Good(k, g) == g[0] = d0 /\ \A i \in 1..k : g[i] = step[<<i, g[i - 1]>>]
           S == {k \in 0..n : \E g \in [0..k -> D] : Good(k, g)}
<1>1. 0 \in S
  <2> DEFINE g == [i \in 0..0 |-> d0]
  <2>1. g \in [0..0 -> D] /\ Good(0, g)
    OBVIOUS
  <2> HIDE DEF g
  <2>2. QED
    BY <2>1
<1>2. ASSUME NEW k \in 0..(n - 1), k \in S PROVE k + 1 \in S
  <2>1. PICK g \in [0..k -> D] : Good(k, g)
    BY <1>2
  <2> DEFINE last == step[<<k + 1, g[k]>>]
             h == [i \in 0..(k + 1) |-> IF i <= k THEN g[i] ELSE last]
  <2>2. last \in D
    OBVIOUS
  <2>3. h \in [0..(k + 1) -> D]
    <3> HIDE DEF last
    <3> QED
      BY <2>2
  <2>4. Good(k + 1, h)
    <3>1. /\ h[0] = g[0] /\ h[k + 1] = last
          /\ \A i \in 1..k : h[i] = g[i] /\ h[i - 1] = g[i - 1]
          /\ h[k] = g[k]
      OBVIOUS
    <3>2. h[k + 1] = step[<<k + 1, h[k]>>]
      BY <3>1
    <3> HIDE DEF h, last
    <3>3. \A i \in 1..k : h[i] = step[<<i, h[i - 1]>>]
      BY <2>1, <3>1
    <3>4. ASSUME NEW i \in 1..(k + 1) PROVE h[i] = step[<<i, h[i - 1]>>]
      <4>1. CASE i \in 1..k
        BY <3>3, <4>1
      <4>2. CASE i = k + 1
        <5>1. i - 1 = k
          BY <4>2
        <5>2. QED
          BY <3>2, <4>2, <5>1
      <4>3. QED
        BY <4>1, <4>2
    <3>5. QED
      BY <2>1, <3>1, <3>4
  <2>5. k + 1 \in 0..n
    OBVIOUS
  <2> HIDE DEF h
  <2>6. QED
    BY <2>3, <2>4, <2>5
<1>3. n \in S
  <2> HIDE DEF S
  <2>1. 0..n \subseteq S
    BY <1>1, <1>2, IntervalInduction
  <2>2. QED
    BY <2>1
<1>4. QED
  BY <1>3 DEF Unfolds

-----------------------------------------------------------------------------
(* Lists *)

\* A list without its element i.
LEMMA RemoveAtProperties ==
  ASSUME NEW S, NEW s \in Seq(S), NEW i \in 1..Len(s)
  PROVE  /\ RemoveAt(s, i) \in Seq(S)
         /\ Len(RemoveAt(s, i)) = Len(s) - 1
         /\ \A j \in 1..(Len(s) - 1) :
              RemoveAt(s, i)[j] = IF j < i THEN s[j] ELSE s[j + 1]
<1> DEFINE a == SubSeq(s, 1, i - 1)
           b == SubSeq(s, i + 1, Len(s))
<1>1. Len(s) \in Nat /\ \A j \in 1..Len(s) : s[j] \in S
  BY LenProperties
<1>2. /\ a \in Seq(S) /\ Len(a) = i - 1
      /\ \A j \in 1..(i - 1) : a[j] = s[j]
  <2>1. \A j \in 1..(i - 1) : s[j] \in S
    BY <1>1
  <2>2. /\ a \in Seq(S) /\ Len(a) = IF 1 <= i - 1 THEN (i - 1) - 1 + 1 ELSE 0
        /\ \A j \in 1..((i - 1) - 1 + 1) : a[j] = s[1 + j - 1]
    BY <2>1, SubSeqProperties
  <2> HIDE DEF a
  <2>3. QED
    BY <2>2
<1>3. /\ b \in Seq(S) /\ Len(b) = Len(s) - i
      /\ \A j \in 1..(Len(s) - i) : b[j] = s[i + j]
  <2>1. \A j \in (i + 1)..Len(s) : s[j] \in S
    BY <1>1
  <2>2. /\ b \in Seq(S) /\ Len(b) = IF i + 1 <= Len(s) THEN Len(s) - (i + 1) + 1 ELSE 0
        /\ \A j \in 1..(Len(s) - (i + 1) + 1) : b[j] = s[(i + 1) + j - 1]
    BY <1>1, <2>1, SubSeqProperties
  <2> HIDE DEF b
  <2>3. QED
    BY <1>1, <2>2
<1>4. RemoveAt(s, i) = a \o b
  BY DEF RemoveAt
<1> HIDE DEF a, b
<1>5. /\ a \o b \in Seq(S)
      /\ Len(a \o b) = Len(a) + Len(b)
      /\ \A j \in 1..(Len(a) + Len(b)) :
           (a \o b)[j] = IF j <= Len(a) THEN a[j] ELSE b[j - Len(a)]
  BY <1>2, <1>3, ConcatProperties
<1>6. ASSUME NEW j \in 1..(Len(s) - 1)
      PROVE  (a \o b)[j] = IF j < i THEN s[j] ELSE s[j + 1]
  <2>1. CASE j < i
    BY <1>1, <1>2, <1>3, <1>5, <2>1
  <2>2. CASE ~(j < i)
    <3>1. j - (i - 1) \in 1..(Len(s) - i) /\ i + (j - (i - 1)) = j + 1
      BY <1>1, <2>2
    <3>2. (a \o b)[j] = b[j - (i - 1)]
      BY <1>1, <1>2, <1>3, <1>5, <2>2
    <3>3. QED
      BY <1>3, <2>2, <3>1, <3>2
  <2>3. QED
    BY <2>1, <2>2
<1>7. QED
  BY <1>1, <1>2, <1>3, <1>4, <1>5, <1>6

\* A list with a new head.
LEMMA PrependProperties ==
  ASSUME NEW S, NEW s \in Seq(S), NEW x \in S
  PROVE  /\ <<x>> \o s \in Seq(S)
         /\ Len(<<x>> \o s) = Len(s) + 1
         /\ (<<x>> \o s)[1] = x
         /\ \A j \in 1..Len(s) : (<<x>> \o s)[j + 1] = s[j]
<1>1. <<x>> \in Seq(S) /\ Len(<<x>>) = 1 /\ <<x>>[1] = x /\ Len(s) \in Nat
  BY LenProperties
<1> DEFINE h == <<x>>
<1> HIDE DEF h
<1>2. /\ h \o s \in Seq(S)
      /\ Len(h \o s) = Len(h) + Len(s)
      /\ \A j \in 1..(Len(h) + Len(s)) :
           (h \o s)[j] = IF j <= Len(h) THEN h[j] ELSE s[j - Len(h)]
  BY <1>1, ConcatProperties DEF h
<1>3. Len(h) = 1 /\ h[1] = x
  BY <1>1 DEF h
<1>4. (h \o s)[1] = x
  BY <1>1, <1>2, <1>3
<1>5. ASSUME NEW j \in 1..Len(s) PROVE (h \o s)[j + 1] = s[j]
  <2>1. /\ j + 1 \in 1..(1 + Len(s)) /\ ~(j + 1 <= 1) /\ (j + 1) - 1 = j
    BY <1>1
  <2>2. QED
    BY <1>2, <1>3, <2>1
<1>6. QED
  BY <1>1, <1>2, <1>3, <1>4, <1>5 DEF h

\* The loop of both look-ups: f[i] is the best of the first i mount points.
Walk(f, n, hits, len) ==
  /\ f[0] = 0
  /\ \A i \in 1..n :
       f[i] = IF i \in hits /\ (f[i - 1] = 0 \/ len[i] > len[f[i - 1]])
              THEN i ELSE f[i - 1]

\* w is the first of the longest in hits, 0 when there is none.
Longest(w, hits, len) ==
  /\ w = 0 => hits = {}
  /\ w # 0 => /\ w \in hits
              /\ \A j \in hits : len[j] <= len[w]
              /\ \A j \in hits : j < w => len[j] < len[w]

\* One turn of the loop.
LEMMA WalkStep ==
  ASSUME NEW k \in Nat, NEW hits \in SUBSET (1..(k + 1)),
         NEW len, \A j \in hits : len[j] \in Nat,
         NEW w \in 0..k, Longest(w, hits \ {k + 1}, len)
  PROVE  Longest(IF k + 1 \in hits /\ (w = 0 \/ len[k + 1] > len[w]) THEN k + 1 ELSE w,
                 hits, len)
<1> DEFINE before == hits \ {k + 1}
<1>1. /\ \A j \in before : j \in hits /\ j \in Nat /\ j < k + 1
      /\ \A j \in hits : j # k + 1 => j \in before
  OBVIOUS
<1>2. /\ w = 0 => before = {}
      /\ w # 0 => /\ w \in before
                  /\ \A j \in before : len[j] <= len[w]
                  /\ \A j \in before : j < w => len[j] < len[w]
  BY DEF Longest
<1> HIDE DEF before
<1>3. CASE k + 1 \in hits /\ (w = 0 \/ len[k + 1] > len[w])
  <2>1. \A j \in before : len[j] < len[k + 1]
    BY <1>1, <1>2, <1>3
  <2>2. Longest(k + 1, hits, len)
    BY <1>1, <1>3, <2>1 DEF Longest
  <2>3. QED
    BY <1>3, <2>2
<1>4. CASE k + 1 \notin hits
  <2>1. hits = before
    BY <1>1, <1>4
  <2>2. QED
    BY <1>4, <2>1 DEF before
<1>5. CASE k + 1 \in hits /\ w # 0 /\ ~(len[k + 1] > len[w])
  <2>1. /\ w \in hits /\ w < k + 1 /\ len[k + 1] <= len[w]
    BY <1>1, <1>2, <1>5
  <2>2. /\ \A j \in hits : len[j] <= len[w]
        /\ \A j \in hits : j < w => len[j] < len[w]
    BY <1>1, <1>2, <1>5, <2>1
  <2>3. Longest(w, hits, len)
    BY <1>5, <2>1, <2>2 DEF Longest
  <2>4. QED
    BY <1>5, <2>3
<1>6. QED
  BY <1>3, <1>4, <1>5

\* After the last turn f[n] is the first of the longest that match.
LEMMA WalkFindsLongest ==
  ASSUME NEW n \in Nat, NEW hits \in SUBSET (1..n), NEW len \in [1..n -> Nat],
         NEW f \in [0..n -> Nat], Walk(f, n, hits, len)
  PROVE  Longest(f[n], hits, len)
<1> DEFINE S == {k \in 0..n : f[k] \in 0..k /\ Longest(f[k], hits \cap (1..k), len)}
<1>1. 0 \in S
  <2>1. hits \cap (1..0) = {} /\ f[0] = 0 /\ 0 \in 0..n
    BY DEF Walk
  <2>2. QED
    BY <2>1 DEF Longest
<1>2. ASSUME NEW k \in 0..(n - 1), k \in S PROVE k + 1 \in S
  <2> DEFINE now == hits \cap (1..(k + 1))
  <2>1. /\ k + 1 \in 1..n /\ (k + 1) - 1 = k /\ k \in Nat
        /\ now \in SUBSET (1..(k + 1)) /\ now \ {k + 1} = hits \cap (1..k)
        /\ k + 1 \in hits <=> k + 1 \in now
        /\ \A j \in now : len[j] \in Nat
    OBVIOUS
  <2>2. f[k] \in 0..k /\ Longest(f[k], now \ {k + 1}, len)
    BY <1>2, <2>1
  <2>3. f[k + 1] = IF k + 1 \in hits /\ (f[k] = 0 \/ len[k + 1] > len[f[k]])
                   THEN k + 1 ELSE f[k]
    BY <2>1 DEF Walk
  <2> HIDE DEF now
  <2>4. Longest(f[k + 1], now, len)
    BY <2>1, <2>2, <2>3, WalkStep
  <2>5. f[k + 1] \in 0..(k + 1) /\ k + 1 \in 0..n
    BY <2>1, <2>2, <2>3
  <2>6. QED
    BY <2>4, <2>5 DEF now
<1>3. n \in S
  <2> HIDE DEF S
  <2>1. 0..n \subseteq S
    BY <1>1, <1>2, IntervalInduction
  <2>2. QED
    BY <2>1
<1>4. hits \cap (1..n) = hits
  OBVIOUS
<1>5. QED
  BY <1>3, <1>4

\* The loop has a value after each turn, whatever matches.
LEMMA WalkExists ==
  ASSUME NEW n \in Nat, NEW hits \in SUBSET (1..n), NEW len
  PROVE  \E f : /\ f \in [0..n -> {0} \cup hits]
               /\ Walk(f, n, hits, len)
<1> DEFINE D == {0} \cup hits
           Turn(i, best) == IF i \in hits /\ (best = 0 \/ len[i] > len[best])
                            THEN i ELSE best
           step == [x \in (1..n) \X D |-> Turn(x[1], x[2])]
<1>1. step \in [(1..n) \X D -> D]
  <2>1. ASSUME NEW x \in (1..n) \X D PROVE Turn(x[1], x[2]) \in D
    OBVIOUS
  <2> HIDE DEF Turn, D
  <2>2. QED
    BY <2>1
<1>2. 0 \in D
  OBVIOUS
<1>3. ASSUME NEW i \in 1..n, NEW b \in D PROVE step[<<i, b>>] = Turn(i, b)
  <2> HIDE DEF Turn, D
  <2> QED
    OBVIOUS
<1> HIDE DEF step, D
<1>4. PICK f \in [0..n -> D] : Unfolds(f, n, 0, step)
  BY <1>1, <1>2, RecursionOverInterval
<1>5. ASSUME NEW i \in 1..n PROVE f[i] = Turn(i, f[i - 1])
  <2>1. i - 1 \in 0..n
    OBVIOUS
  <2>2. f[i - 1] \in D
    BY <1>4, <2>1
  <2>3. QED
    BY <1>3, <1>4, <2>2 DEF Unfolds
<1>6. Walk(f, n, hits, len)
  BY <1>4, <1>5 DEF Walk, Unfolds
<1>7. QED
  BY <1>4, <1>6 DEF D

\* No turn leaves the indices that match.
LEMMA WalkStays ==
  ASSUME NEW n \in Nat, NEW hits \in SUBSET (1..n), NEW f, f[0] = 0,
         \A i \in 1..n : f[i] = f[i - 1] \/ (f[i] = i /\ i \in hits)
  PROVE  \A k \in 0..n : f[k] \in {0} \cup hits
<1> DEFINE S == {k \in 0..n : f[k] \in {0} \cup hits}
<1>1. 0 \in S
  OBVIOUS
<1>2. ASSUME NEW k \in 0..(n - 1), k \in S PROVE k + 1 \in S
  <2>1. k + 1 \in 1..n /\ k + 1 \in 0..n /\ (k + 1) - 1 = k
    OBVIOUS
  <2>2. f[k + 1] = f[k] \/ (f[k + 1] = k + 1 /\ k + 1 \in hits)
    BY <2>1
  <2>3. QED
    BY <1>2, <2>1, <2>2
<1>3. 0..n \subseteq S
  <2> HIDE DEF S
  <2> QED
    BY <1>1, <1>2, IntervalInduction
<1>4. QED
  BY <1>3

-----------------------------------------------------------------------------
(* Prefixes *)

\* IsPrefix, character by character.
LEMMA PrefixByCharacter ==
  ASSUME NEW C, NEW s \in Seq(C), NEW t \in Seq(C)
  PROVE  IsPrefix(s, t) <=> Len(s) <= Len(t) /\ \A i \in 1..Len(s) : s[i] = t[i]
<1>1. /\ Len(s) \in Nat /\ Len(t) \in Nat
      /\ \A i \in 1..Len(s) : s[i] \in C
      /\ \A i \in 1..Len(t) : t[i] \in C
  BY LenProperties
<1>2. SUFFICES ASSUME Len(s) <= Len(t)
               PROVE  SubSeq(s, 1, Len(s)) = SubSeq(t, 1, Len(s))
                        <=> \A i \in 1..Len(s) : s[i] = t[i]
  BY DEF IsPrefix
<1> DEFINE u == SubSeq(t, 1, Len(s))
<1>3. SubSeq(s, 1, Len(s)) = s
  BY SubSeqFull
<1>4. u \in Seq(C) /\ Len(u) = Len(s) /\ \A i \in 1..Len(s) : u[i] = t[i]
  <2>1. \A i \in 1..Len(s) : t[i] \in C
    BY <1>1, <1>2
  <2>2. /\ u \in Seq(C) /\ Len(u) = IF 1 <= Len(s) THEN Len(s) - 1 + 1 ELSE 0
        /\ \A i \in 1..(Len(s) - 1 + 1) : u[i] = t[1 + i - 1]
    BY <1>1, <2>1, SubSeqProperties
  <2> HIDE DEF u
  <2>3. QED
    BY <1>1, <2>2
<1> HIDE DEF u
<1>5. (\A i \in 1..Len(s) : s[i] = u[i]) => s = u
  BY <1>4, SeqEqual
<1>6. QED
  BY <1>3, <1>4, <1>5 DEF u

\* The test of find_mount_point in both filesystem layers: q is a prefix of
\* path, which ends there or goes on with a separator.
Reaches(q, path, seps) ==
  IsPrefix(q, path) /\ (Len(path) = Len(q) \/ path[Len(q) + 1] \in seps)

\* A path is covered by no longer path than itself, and by itself only of its
\* own length.
LEMMA ReachesLength ==
  ASSUME NEW C, NEW seps, NEW q \in Seq(C), NEW path \in Seq(C)
  PROVE  /\ Reaches(path, path, seps)
         /\ Reaches(q, path, seps) => Len(q) <= Len(path)
         /\ Reaches(q, path, seps) /\ Len(q) = Len(path) => q = path
<1>1. IsPrefix(path, path) /\ Len(path) \in Nat
  BY PrefixByCharacter, LenProperties
<1>2. IsPrefix(q, path) => /\ Len(q) <= Len(path)
                           /\ Len(q) = Len(path) => q = path
  BY PrefixByCharacter, SeqEqual
<1>3. QED
  BY <1>1, <1>2 DEF Reaches

\* The test of find_mount_point is MountTable's: the path itself, or the path,
\* a separator and more.
LEMMA ReachesIsUnder ==
  ASSUME NEW C, NEW seps, NEW q \in Seq(C), NEW path \in Seq(C)
  PROVE  Reaches(q, path, seps) <=>
           path = q \/ \E s \in seps : IsPrefix(Append(q, s), path)
<1>1. Len(q) \in Nat /\ Len(path) \in Nat
  BY LenProperties
<1>2. ASSUME NEW s \in seps
      PROVE  IsPrefix(Append(q, s), path) <=>
               /\ Len(q) + 1 <= Len(path)
               /\ \A i \in 1..Len(q) : q[i] = path[i]
               /\ path[Len(q) + 1] = s
  <2> DEFINE D == C \cup {s}
             a == Append(q, s)
  <2>1. q \in Seq(D) /\ path \in Seq(D) /\ s \in D
    BY SeqMonotonic
  <2> HIDE DEF D
  <2>2. /\ a \in Seq(D) /\ Len(a) = Len(q) + 1
        /\ \A i \in 1..Len(q) : a[i] = q[i]
        /\ a[Len(q) + 1] = s
    BY <2>1, AppendProperties
  <2> HIDE DEF a
  <2>3. IsPrefix(a, path) <=> Len(a) <= Len(path) /\ \A i \in 1..Len(a) : a[i] = path[i]
    BY <2>1, <2>2, PrefixByCharacter
  <2>4. \A i \in 1..(Len(q) + 1) : i \in 1..Len(q) \/ i = Len(q) + 1
    BY <1>1
  <2>5. 1..Len(q) \subseteq 1..(Len(q) + 1) /\ Len(q) + 1 \in 1..(Len(q) + 1)
    BY <1>1
  <2>6. QED
    BY <1>1, <2>2, <2>3, <2>4, <2>5 DEF a
<1>3. Reaches(q, path, seps) <=>
        /\ Len(q) <= Len(path) /\ \A i \in 1..Len(q) : q[i] = path[i]
        /\ Len(path) = Len(q) \/ path[Len(q) + 1] \in seps
  BY PrefixByCharacter DEF Reaches
<1>4. (Len(path) = Len(q) /\ \A i \in 1..Len(q) : q[i] = path[i]) <=> path = q
  BY SeqEqual
<1>5. QED
  BY <1>1, <1>2, <1>3, <1>4

\* What is left of a path behind q, without one leading separator.
Behind(q, path, seps) ==
  LET rest == SubSeq(path, Len(q) + 1, Len(path))
  IN  IF rest # << >> /\ Head(rest) \in seps THEN Tail(rest) ELSE rest

\* What the code passes to the driver is what follows the mount's path and its
\* separator.
LEMMA RestBehindSeparator ==
  ASSUME NEW C, NEW seps, NEW q \in Seq(C), NEW path \in Seq(C), Reaches(q, path, seps)
  PROVE  Behind(q, path, seps) = SubSeq(path, Len(q) + 2, Len(path))
<1> DEFINE rest == SubSeq(path, Len(q) + 1, Len(path))
<1>1. Len(q) \in Nat /\ Len(path) \in Nat /\ Len(q) <= Len(path)
  BY LenProperties, ReachesLength
<1>2. CASE Len(path) = Len(q)
  <2>1. rest = << >> /\ SubSeq(path, Len(q) + 2, Len(path)) = << >>
    BY <1>1, <1>2, SubSeqEmpty
  <2>2. QED
    BY <2>1 DEF Behind
<1>3. CASE Len(path) # Len(q)
  <2>1. Len(q) + 1 \in 1..Len(path) /\ Len(path) \in (Len(q) + 1)..Len(path)
    BY <1>1, <1>3
  <2>2. /\ Head(rest) = path[Len(q) + 1]
        /\ Tail(rest) = SubSeq(path, (Len(q) + 1) + 1, Len(path))
    BY <2>1, HeadTailOfSubSeq
  <2>3. rest # << >>
    <3>1. \A i \in (Len(q) + 1)..Len(path) : path[i] \in C
      BY <1>1, LenProperties
    <3>2. Len(rest) = IF Len(q) + 1 <= Len(path) THEN Len(path) - (Len(q) + 1) + 1 ELSE 0
      BY <1>1, <3>1, SubSeqProperties
    <3>3. Len(rest) # 0
      BY <1>1, <2>1, <3>2
    <3>4. QED
      BY <3>3, EmptySeq
  <2>4. path[Len(q) + 1] \in seps
    BY <1>3 DEF Reaches
  <2>5. (Len(q) + 1) + 1 = Len(q) + 2
    BY <1>1
  <2> HIDE DEF rest
  <2>6. Behind(q, path, seps) = Tail(rest)
    BY <2>2, <2>3, <2>4 DEF Behind, rest
  <2>7. QED
    BY <2>2, <2>5, <2>6
<1>4. QED
  BY <1>2, <1>3

-----------------------------------------------------------------------------
(* Functions of the naturals that go round, lists of lists, division *)

\* Each value of f is computed from the last.
Iterates(f, d0, step) == f[0] = d0 /\ \A n \in Nat : f[n + 1] = step[f[n]]

\* A function of the naturals each of whose values is computed from the last.
LEMMA RecursionOverNat ==
  ASSUME NEW D, NEW d0 \in D, NEW step \in [D -> D]
  PROVE  \E f \in [Nat -> D] : Iterates(f, d0, step)
<1> DEFINE Good(n, g) == g \in [0..n -> D] /\ g[0] = d0 /\ \A i \in 1..n : g[i] = step[g[i - 1]]
           G(n) == CHOOSE g : Good(n, g)
           f == [n \in Nat |-> G(n)[n]]
<1>1. ASSUME NEW n \in Nat PROVE \E g : Good(n, g)
  <2> DEFINE turn == [x \in (1..n) \X D |-> step[x[2]]]
  <2>1. turn \in [(1..n) \X D -> D]
    OBVIOUS
  <2>2. \A i \in 1..n : \A d \in D : turn[<<i, d>>] = step[d]
    OBVIOUS
  <2> HIDE DEF turn
  <2>3. PICK g \in [0..n -> D] : Unfolds(g, n, d0, turn)
    BY <2>1, RecursionOverInterval
  <2>4. ASSUME NEW i \in 1..n PROVE g[i] = step[g[i - 1]]
    <3>1. g[i - 1] \in D
      OBVIOUS
    <3>2. QED
      BY <2>2, <2>3, <3>1 DEF Unfolds
  <2>5. QED
    BY <2>3, <2>4 DEF Unfolds
<1>2. ASSUME NEW n \in Nat PROVE Good(n, G(n))
  <2> HIDE DEF Good
  <2> QED
    BY <1>1, Zenon
<1>3. ASSUME NEW n \in Nat, NEW g, Good(n, g), NEW h, Good(n + 1, h)
      PROVE  g[n] = h[n]
  <2> DEFINE S == {i \in 0..n : g[i] = h[i]}
  <2>1. 0 \in S
    BY <1>3
  <2>2. ASSUME NEW i \in 0..(n - 1), i \in S PROVE i + 1 \in S
    <3>1. i + 1 \in 1..n /\ i + 1 \in 1..(n + 1) /\ (i + 1) - 1 = i
      OBVIOUS
    <3>2. g[i + 1] = step[g[i]] /\ h[i + 1] = step[h[i]]
      BY <1>3, <3>1
    <3>3. QED
      BY <2>2, <3>1, <3>2
  <2>3. 0..n \subseteq S
    <3> HIDE DEF S
    <3> QED
      BY <2>1, <2>2, IntervalInduction
  <2>4. QED
    BY <2>3
<1> HIDE DEF G
<1>4. ASSUME NEW n \in Nat PROVE f[n] \in D /\ f[n + 1] = step[f[n]]
  <2>1. Good(n, G(n)) /\ Good(n + 1, G(n + 1))
    BY <1>2
  <2>2. G(n)[n] = G(n + 1)[n] /\ G(n)[n] \in D
    BY <1>3, <2>1
  <2>3. G(n + 1)[n + 1] = step[G(n + 1)[(n + 1) - 1]] /\ (n + 1) - 1 = n
    BY <2>1
  <2>4. QED
    BY <2>2, <2>3
<1>5. f[0] = d0
  BY <1>2
<1>6. f \in [Nat -> D]
  BY <1>4
<1>7. Iterates(f, d0, step)
  BY <1>4, <1>5 DEF Iterates
<1>8. QED
  BY <1>6, <1>7

\* Among more than N steps along a chain of numbers below N it comes back.
LEMMA ComesBack ==
  ASSUME NEW N \in Nat, NEW link \in [Nat -> Nat], NEW n \in Nat, n >= N,
         \A i, j \in Nat : link[i] = link[j] => link[i + 1] = link[j + 1],
         \A i \in 0..n : link[i] < N
  PROVE  \E m \in 0..(n - 1) : m < N /\ link[m] = link[n]
<1> DEFINE f == [i \in 0..N |-> link[i]]
<1>1. f \in [0..N -> 0..(N - 1)]
  OBVIOUS
<1>2. PICK i, j \in 0..N : i < j /\ link[i] = link[j]
  <2>1. /\ IsFiniteSet(0..N) /\ IsFiniteSet(0..(N - 1))
        /\ Cardinality(0..(N - 1)) < Cardinality(0..N)
    <3>1. /\ IsFiniteSet(0..N) /\ Cardinality(0..N) = N + 1
      BY FS_Interval
    <3>2. /\ IsFiniteSet(0..(N - 1)) /\ Cardinality(0..(N - 1)) = N
      <4>1. 0 \in Int /\ N - 1 \in Int
        OBVIOUS
      <4>2. /\ IsFiniteSet(0..(N - 1))
            /\ Cardinality(0..(N - 1)) = IF 0 > N - 1 THEN 0 ELSE (N - 1) - 0 + 1
        BY <4>1, FS_Interval
      <4>3. QED
        BY <4>2
    <3>3. QED
      BY <3>1, <3>2
  <2> HIDE DEF f
  <2>2. PICK x, y \in 0..N : x # y /\ f[x] = f[y]
    <3> DEFINE A == 0..N
               B == 0..(N - 1)
    <3>1. IsFiniteSet(A) /\ IsFiniteSet(B) /\ Cardinality(B) < Cardinality(A) /\ f \in [A -> B]
      BY <1>1, <2>1
    <3> HIDE DEF A, B
    <3>2. \E x, y \in A : x # y /\ f[x] = f[y]
      BY <3>1, FS_PigeonHole
    <3>3. QED
      BY <3>2 DEF A
  <2>3. link[x] = link[y]
    BY <2>2 DEF f
  <2>4. CASE x < y
    BY <2>3, <2>4
  <2>5. CASE y < x
    BY <2>3, <2>5
  <2>6. QED
    BY <2>2, <2>4, <2>5
<1>3. \A t \in 0..(n - j) : link[i + t] = link[j + t]
  <2> DEFINE S == {t \in Nat : link[i + t] = link[j + t]}
  <2>1. 0 \in S
    <3>1. i + 0 = i /\ j + 0 = j
      OBVIOUS
    <3>2. QED
      BY <1>2, <3>1
  <2>2. ASSUME NEW t \in 0..(n - j - 1), t \in S PROVE t + 1 \in S
    <3>1. i + t \in Nat /\ j + t \in Nat /\ link[i + t] = link[j + t]
      BY <2>2
    <3>2. link[(i + t) + 1] = link[(j + t) + 1]
      BY <3>1
    <3>3. (i + t) + 1 = i + (t + 1) /\ (j + t) + 1 = j + (t + 1)
      OBVIOUS
    <3>4. QED
      BY <2>2, <3>2, <3>3
  <2>3. n - j \in Nat
    OBVIOUS
  <2>4. 0..(n - j) \subseteq S
    <3> HIDE DEF S
    <3> QED
      BY <2>1, <2>2, <2>3, IntervalInduction
  <2>5. QED
    BY <2>4
<1> DEFINE p == i + (n - j)
<1>4. p \in 0..(n - 1) /\ link[p] = link[n]
  <2>1. n - j \in 0..(n - j) /\ j + (n - j) = n
    OBVIOUS
  <2>2. link[i + (n - j)] = link[j + (n - j)]
    BY <1>3, <2>1
  <2>3. i + (n - j) \in 0..(n - 1)
    BY <1>2
  <2>4. QED
    BY <2>1, <2>2, <2>3
<1> DEFINE T == {m \in 0..(n - 1) : link[m] = link[n]}
<1>5. PICK m \in T : \A k \in T : m <= k
  <2>1. T # {} /\ T \subseteq Nat
    <3> HIDE DEF p
    <3> QED
      BY <1>4
  <2> HIDE DEF T
  <2>2. QED
    BY <2>1, LeastElement
<1>6. m < N
  <2>1. CASE m >= N
    \* a chain of length m + 1 comes back before m
    <3>1. m >= j
      BY <2>1
    <3> DEFINE r == i + (m - j)
    <3>2. r \in 0..(m - 1) /\ link[r] = link[m]
      <4>1. m - j \in 0..(n - j) /\ j + (m - j) = m
        BY <3>1
      <4>2. link[i + (m - j)] = link[j + (m - j)]
        BY <1>3, <4>1
      <4>3. i + (m - j) \in 0..(m - 1)
        BY <1>2, <3>1
      <4>4. QED
        BY <4>1, <4>2, <4>3
    <3>3. r \in T
      BY <3>2
    <3>4. QED
      BY <1>5, <3>2, <3>3
  <2>2. QED
    BY <2>1
<1>7. QED
  BY <1>5, <1>6

\* f holds the lists joined up to each.
Joins(f, g, n) == f[1] = g[1] /\ \A i \in 2..n : f[i] = f[i - 1] \o g[i]

\* A sequence of lists is joined list by list.
LEMMA JoinExists ==
  ASSUME NEW S, NEW n \in Nat \ {0}, NEW g \in [1..n -> Seq(S)]
  PROVE  \E f \in [1..n -> Seq(S)] : Joins(f, g, n)
<1> DEFINE step == [x \in (1..n) \X Seq(S) |-> IF x[1] = 1 THEN g[1] ELSE x[2] \o g[x[1]]]
<1>1. step \in [(1..n) \X Seq(S) -> Seq(S)]
  <2>1. ASSUME NEW i \in 1..n, NEW s \in Seq(S)
        PROVE  (IF i = 1 THEN g[1] ELSE s \o g[i]) \in Seq(S)
    <3>1. g[i] \in Seq(S) /\ g[1] \in Seq(S)
      OBVIOUS
    <3>2. QED
      BY <3>1, ConcatProperties
  <2>2. QED
    BY <2>1
<1>2. \A i \in 1..n : \A s \in Seq(S) : step[<<i, s>>] = IF i = 1 THEN g[1] ELSE s \o g[i]
  OBVIOUS
<1>3. << >> \in Seq(S)
  BY EmptySeq
<1> HIDE DEF step
<1>4. PICK h \in [0..n -> Seq(S)] : Unfolds(h, n, << >>, step)
  BY <1>1, <1>3, RecursionOverInterval
<1> DEFINE f == [i \in 1..n |-> h[i]]
<1>5. ASSUME NEW i \in 1..n PROVE h[i] = IF i = 1 THEN g[1] ELSE h[i - 1] \o g[i]
  <2>1. i - 1 \in 0..n
    OBVIOUS
  <2>2. h[i - 1] \in Seq(S) /\ h[i] = step[<<i, h[i - 1]>>]
    BY <1>4, <2>1 DEF Unfolds
  <2>3. QED
    BY <1>2, <2>2
<1>6. Joins(f, g, n)
  <2>1. f[1] = g[1]
    BY <1>5
  <2>2. ASSUME NEW i \in 2..n PROVE f[i] = f[i - 1] \o g[i]
    <3>1. i \in 1..n /\ i - 1 \in 1..n /\ i # 1
      OBVIOUS
    <3>2. QED
      BY <1>5, <3>1
  <2>3. QED
    BY <2>1, <2>2 DEF Joins
<1>7. f \in [1..n -> Seq(S)]
  OBVIOUS
<1>8. QED
  BY <1>6, <1>7

\* There is one way to join.
LEMMA JoinsOnce ==
  ASSUME NEW n \in Nat \ {0}, NEW f, NEW e, NEW g, NEW h, Joins(f, g, n), Joins(e, h, n),
         \A i \in 1..n : g[i] = h[i]
  PROVE  f[n] = e[n]
<1> DEFINE T == {i \in 1..n : f[i] = e[i]}
<1>1. 1 \in T
  BY DEF Joins
<1>2. ASSUME NEW i \in 1..(n - 1), i \in T PROVE i + 1 \in T
  <2>1. i + 1 \in 2..n /\ i + 1 \in 1..n /\ (i + 1) - 1 = i
    OBVIOUS
  <2>2. f[i + 1] = f[i] \o g[i + 1] /\ e[i + 1] = e[i] \o h[i + 1] /\ g[i + 1] = h[i + 1]
    BY <2>1 DEF Joins
  <2>3. QED
    BY <1>2, <2>1, <2>2
<1> HIDE DEF T
<1>3. 1..n \subseteq T
  BY <1>1, <1>2, IntervalInduction
<1>4. QED
  BY <1>3 DEF T

\* FlattenSeq joins the lists.
LEMMA FlattenJoins ==
  ASSUME NEW S, NEW n \in Nat \ {0}, NEW g \in [1..n -> Seq(S)]
  PROVE  \E f \in [1..n -> Seq(S)] : Joins(f, g, n) /\ FlattenSeq(g) = f[n]
<1> DEFINE Made(f) == f = [i \in 1..n |-> IF i = 1 THEN g[i] ELSE f[i - 1] \o g[i]]
           c == CHOOSE f : Made(f)
<1>1. PICK f \in [1..n -> Seq(S)] : Joins(f, g, n)
  BY JoinExists
<1>2. Made(f)
  <2>1. ASSUME NEW i \in 1..n PROVE f[i] = IF i = 1 THEN g[i] ELSE f[i - 1] \o g[i]
    <3>1. CASE i = 1
      BY <1>1, <3>1 DEF Joins
    <3>2. CASE i \in 2..n
      BY <1>1, <3>2 DEF Joins
    <3>3. QED
      BY <3>1, <3>2
  <2>2. QED
    BY <2>1
<1>3. Made(c)
  <2> HIDE DEF Made
  <2> QED
    BY <1>2, Zenon
<1>4. Joins(c, g, n)
  <2> HIDE DEF c
  <2>1. \A i \in 1..n : c[i] = IF i = 1 THEN g[i] ELSE c[i - 1] \o g[i]
    BY <1>3
  <2>2. \A i \in 2..n : i \in 1..n /\ i # 1
    OBVIOUS
  <2>3. \A i \in 2..n : c[i] = c[i - 1] \o g[i]
    BY <2>1, <2>2
  <2>4. c[1] = g[1]
    BY <2>1
  <2>5. QED
    BY <2>3, <2>4 DEF Joins
<1>5. g \in Seq(Seq(S)) /\ Len(g) = n
  OBVIOUS
<1>6. FlattenSeq(g) = c[n]
  BY <1>5, Zenon DEF FlattenSeq
<1> HIDE DEF c
<1>7. c[n] = f[n]
  BY <1>1, <1>4, JoinsOnce
<1>8. QED
  BY <1>1, <1>6, <1>7

\* One list after another.
LEMMA FlattenSteps ==
  ASSUME NEW S, NEW n \in Nat, NEW g \in [1..n -> Seq(S)]
  PROVE  /\ n = 0 => FlattenSeq(g) = << >>
         /\ FlattenSeq(g) \in Seq(S)
         /\ n > 0 => FlattenSeq(g) = FlattenSeq([i \in 1..(n - 1) |-> g[i]]) \o g[n]
<1>1. CASE n = 0
  <2>1. g \in Seq(Seq(S)) /\ Len(g) = 0
    BY <1>1
  <2>2. g = << >>
    BY <2>1, EmptySeq
  <2>3. FlattenSeq(g) = << >>
    BY <2>1, <2>2 DEF FlattenSeq
  <2>4. QED
    BY <1>1, <2>3, EmptySeq
<1>2. CASE n = 1
  <2>1. PICK f \in [1..n -> Seq(S)] : Joins(f, g, n) /\ FlattenSeq(g) = f[n]
    <3>1. n \in Nat \ {0}
      BY <1>2
    <3>2. QED
      BY <3>1, FlattenJoins
  <2> DEFINE h == [i \in 1..(n - 1) |-> g[i]]
  <2>2. h \in Seq(Seq(S)) /\ Len(h) = 0
    BY <1>2
  <2> HIDE DEF h
  <2>3. h = << >> /\ FlattenSeq(h) = << >>
    <3>1. h = << >>
      BY <2>2, EmptySeq
    <3>2. QED
      BY <2>2, <3>1 DEF FlattenSeq
  <2>4. FlattenSeq(g) = g[1] /\ g[1] \in Seq(S)
    BY <1>2, <2>1 DEF Joins
  <2>5. << >> \o g[1] = g[1]
    BY <2>4, ConcatEmptySeq
  <2>6. QED
    BY <1>2, <2>3, <2>4, <2>5 DEF h
<1>3. CASE n > 1
  <2> DEFINE k == n - 1
             h == [i \in 1..k |-> g[i]]
  <2>1. k \in Nat \ {0} /\ h \in [1..k -> Seq(S)] /\ n \in Nat \ {0} /\ n \in 2..n /\ k \in 1..k
    BY <1>3
  <2>2. PICK f \in [1..n -> Seq(S)] : Joins(f, g, n) /\ FlattenSeq(g) = f[n]
    BY <2>1, FlattenJoins
  <2>3. Joins(f, g, k) /\ k \in Nat \ {0}
    <3>1. \A i \in 2..k : i \in 2..n
      OBVIOUS
    <3>2. QED
      BY <2>1, <2>2, <3>1 DEF Joins
  <2>5. \A i \in 1..k : h[i] = g[i]
    OBVIOUS
  <2>6. f[n] = f[k] \o g[n] /\ f[n] \in Seq(S)
    <3>1. \A i \in 2..n : f[i] = f[i - 1] \o g[i]
      BY <2>2 DEF Joins
    <3>2. f[n] = f[n - 1] \o g[n]
      BY <2>1, <3>1
    <3>3. f[n] \in Seq(S)
      BY <2>1
    <3>4. QED
      BY <3>2, <3>3
  <2> HIDE DEF h, k
  <2>4. PICK e \in [1..k -> Seq(S)] : Joins(e, h, k) /\ FlattenSeq(h) = e[k]
    BY <2>1, FlattenJoins
  <2>7. e[k] = f[k]
    <3>1. Joins(f, g, k) /\ Joins(e, h, k) /\ k \in Nat \ {0}
      BY <2>3, <2>4
    <3>2. \A i \in 1..k : g[i] = h[i]
      BY <2>5
    <3>3. QED
      BY <3>1, <3>2, JoinsOnce
  <2>8. FlattenSeq(g) = FlattenSeq(h) \o g[n] /\ FlattenSeq(g) \in Seq(S)
    BY <2>2, <2>4, <2>6, <2>7
  <2>9. QED
    BY <1>3, <2>8 DEF h, k
<1>4. QED
  BY <1>1, <1>2, <1>3

\* The first n of some lists in one.
Joined(h, n) == FlattenSeq([i \in 1..n |-> h[i]])

\* The first n of h are lists over S.
AllLists(h, n, S) == \A i \in 1..n : h[i] \in Seq(S)

\* It grows by one list at a time.
LEMMA JoinedLists ==
  ASSUME NEW S, NEW n \in Nat, NEW h, AllLists(h, n, S)
  PROVE  /\ n = 0 => Joined(h, n) = << >>
         /\ Joined(h, n) \in Seq(S)
         /\ n > 0 => Joined(h, n) = Joined(h, n - 1) \o h[n]
<1> DEFINE g == [i \in 1..n |-> h[i]]
<1>1. g \in [1..n -> Seq(S)]
  BY DEF AllLists
<1>2. n > 0 => [i \in 1..(n - 1) |-> g[i]] = [i \in 1..(n - 1) |-> h[i]] /\ g[n] = h[n]
  OBVIOUS
<1> HIDE DEF g
<1>3. /\ n = 0 => FlattenSeq(g) = << >>
      /\ FlattenSeq(g) \in Seq(S)
      /\ n > 0 => FlattenSeq(g) = FlattenSeq([i \in 1..(n - 1) |-> g[i]]) \o g[n]
  BY <1>1, FlattenSteps
<1>4. Joined(h, n) = FlattenSeq(g)
  BY DEF Joined, g
<1>5. n > 0 => FlattenSeq([i \in 1..(n - 1) |-> g[i]]) = Joined(h, n - 1)
  BY <1>2 DEF Joined
<1>6. QED
  BY <1>2, <1>3, <1>4, <1>5

\* t begins with s.
Continues(t, s, S) == \E r \in Seq(S) : t = s \o r

\* What comes first stays first.
LEMMA JoinedPrefix ==
  ASSUME NEW S, NEW N \in Nat, NEW h, AllLists(h, N, S), NEW n \in 0..N
  PROVE  Continues(Joined(h, N), Joined(h, n), S)
<1> DEFINE Longer(m) == \E r \in Seq(S) : Joined(h, m) = Joined(h, n) \o r
           T == {m \in n..N : Longer(m)}
<1>1. Joined(h, n) \in Seq(S)
  <2>1. AllLists(h, n, S) /\ n \in Nat
    BY DEF AllLists
  <2>2. QED
    BY <2>1, JoinedLists
<1>2. n \in T
  <2>1. Joined(h, n) = Joined(h, n) \o << >> /\ << >> \in Seq(S)
    BY <1>1, ConcatEmptySeq, EmptySeq
  <2>2. Longer(n)
    BY <2>1, Zenon
  <2> HIDE DEF Longer
  <2>3. QED
    BY <2>2
<1>3. ASSUME NEW m \in n..(N - 1), m \in T PROVE m + 1 \in T
  <2>1. PICK r \in Seq(S) : Joined(h, m) = Joined(h, n) \o r
    <3> HIDE DEF Longer
    <3>1. Longer(m)
      BY <1>3
    <3>2. QED
      BY <3>1 DEF Longer
  <2>2. m + 1 \in 1..N /\ (m + 1) - 1 = m /\ m + 1 \in n..N /\ m + 1 \in Nat /\ m + 1 > 0
    OBVIOUS
  <2>3. Joined(h, m + 1) = Joined(h, m) \o h[m + 1] /\ h[m + 1] \in Seq(S)
    <3>1. AllLists(h, m + 1, S) /\ h[m + 1] \in Seq(S)
      BY <2>2 DEF AllLists
    <3>2. Joined(h, m + 1) = Joined(h, (m + 1) - 1) \o h[m + 1]
      BY <2>2, <3>1, JoinedLists
    <3>3. QED
      BY <2>2, <3>1, <3>2
  <2>4. (Joined(h, n) \o r) \o h[m + 1] = Joined(h, n) \o (r \o h[m + 1])
    <3> DEFINE p == Joined(h, n)
               x == h[m + 1]
    <3>1. p \in Seq(S) /\ x \in Seq(S)
      BY <1>1, <2>3
    <3> HIDE DEF p, x
    <3>2. (p \o r) \o x = p \o (r \o x)
      BY <3>1, ConcatAssociative
    <3>3. QED
      BY <3>2 DEF p, x
  <2>5. r \o h[m + 1] \in Seq(S)
    BY <2>3, ConcatProperties
  <2>6. Joined(h, m + 1) = Joined(h, n) \o (r \o h[m + 1])
    BY <2>1, <2>3, <2>4
  <2>7. Longer(m + 1)
    BY <2>5, <2>6, Zenon
  <2> HIDE DEF Longer
  <2>8. QED
    BY <2>2, <2>7
<1>4. n..N \subseteq T
  <2> HIDE DEF T
  <2>1. n \in Nat
    OBVIOUS
  <2> QED
    BY <1>2, <1>3, <2>1, IntervalInduction
<1>5. Longer(N)
  <2> HIDE DEF Longer
  <2>1. N \in n..N
    OBVIOUS
  <2>2. QED
    BY <1>4, <2>1
<1>6. QED
  BY <1>5 DEF Continues

\* Where the first element of H is in a list that continues two others.
LEMMA FirstMatch ==
  ASSUME NEW S, NEW H, NEW a \in Seq(S \ H), NEW b \in Seq(S), NEW r \in Seq(S),
         NEW j \in 1..Len(b), b[j] \in H, \A i \in 1..(j - 1) : b[i] \notin H
  PROVE  /\ (a \o b) \o r \in Seq(S)
         /\ Len(a) + j \in 1..Len((a \o b) \o r)
         /\ ((a \o b) \o r)[Len(a) + j] = b[j]
         /\ \A i \in 1..(Len(a) + j - 1) : ((a \o b) \o r)[i] \notin H
<1> DEFINE c == a \o b
           d == c \o r
<1>1. a \in Seq(S) /\ Len(a) \in Nat /\ Len(b) \in Nat /\ Len(r) \in Nat
  BY SeqMonotonic, LenProperties
<1>2. /\ c \in Seq(S) /\ Len(c) = Len(a) + Len(b)
      /\ \A i \in 1..(Len(a) + Len(b)) : c[i] = IF i <= Len(a) THEN a[i] ELSE b[i - Len(a)]
  BY <1>1, ConcatProperties
<1> HIDE DEF c
<1>3. /\ d \in Seq(S) /\ Len(d) = Len(c) + Len(r)
      /\ \A i \in 1..(Len(c) + Len(r)) : d[i] = IF i <= Len(c) THEN c[i] ELSE r[i - Len(c)]
  BY <1>1, <1>2, ConcatProperties
<1> HIDE DEF d
<1>4. \A i \in 1..(Len(a) + j) : d[i] = IF i <= Len(a) THEN a[i] ELSE b[i - Len(a)]
  BY <1>1, <1>2, <1>3
<1>5. \A i \in 1..Len(a) : a[i] \notin H
  BY ElementOfSeq
<1>6. d[Len(a) + j] = b[j] /\ Len(a) + j \in 1..Len(d)
  BY <1>1, <1>2, <1>3, <1>4
<1>7. ASSUME NEW i \in 1..(Len(a) + j - 1) PROVE d[i] \notin H
  <2>1. CASE i <= Len(a)
    BY <1>1, <1>4, <1>5, <2>1
  <2>2. CASE i > Len(a)
    <3>1. i - Len(a) \in 1..(j - 1) /\ i \in 1..(Len(a) + j)
      BY <1>1, <2>2
    <3>2. QED
      BY <1>1, <1>4, <2>2, <3>1
  <2>3. QED
    BY <1>1, <2>1, <2>2
<1>8. QED
  BY <1>3, <1>6, <1>7 DEF d, c

\* A quotient and a remainder are the only ones.
LEMMA DivMod ==
  ASSUME NEW a \in Nat, NEW b \in Nat \ {0}
  PROVE  /\ a \div b \in Nat /\ a % b \in 0..(b - 1) /\ a = b * (a \div b) + (a % b)
         /\ \A q \in Nat, r \in 0..(b - 1) : a = b * q + r => a \div b = q /\ a % b = r
<1>1. a \div b \in Nat /\ a % b \in 0..(b - 1) /\ a = b * (a \div b) + (a % b)
  OBVIOUS
<1>2. ASSUME NEW q \in Nat, NEW r \in 0..(b - 1), a = b * q + r
      PROVE  a \div b = q /\ a % b = r
  BY <1>1, <1>2
<1>3. QED
  BY <1>1, <1>2

\* The quotient and the rest.
LEMMA DivModIs ==
  ASSUME NEW a \in Nat, NEW b \in Nat \ {0}
  PROVE  a \div b \in Nat /\ a % b \in 0..(b - 1) /\ a = b * (a \div b) + (a % b)
  BY DivMod

\* A product grows with its factor.
LEMMA ProductGrows ==
  ASSUME NEW c \in Nat, NEW a \in Nat, NEW b \in Nat, a <= b
  PROVE  c * a \in Nat /\ c * b \in Nat /\ c * a <= c * b
<1>1. b - a \in Nat /\ b = a + (b - a)
  OBVIOUS
<1>2. c * (b - a) \in Nat
  BY <1>1
<1>3. c * b = c * a + c * (b - a)
  BY <1>1
<1>4. QED
  BY <1>2, <1>3

\* A number below the modulus stays.
LEMMA ModSmall ==
  ASSUME NEW a \in Nat, NEW b \in Nat \ {0}, a < b
  PROVE  a % b = a
  OBVIOUS

\* One multiple after the other.
LEMMA Multiples ==
  ASSUME NEW b \in Nat, NEW m \in Nat
  PROVE  b * m \in Nat /\ b * (m + 1) \in Nat /\ b * (m + 1) = b * m + b
<1>1. b * m \in Nat /\ b * (m + 1) = b * m + b
  OBVIOUS
<1>2. QED
  BY <1>1

\* A function of nothing is the empty list.
LEMMA NoBytes ==
  ASSUME NEW f, f = [k \in 0..(0 - 1) |-> f[k]]
  PROVE  f = << >>
<1>1. f \in [1..0 -> {}] /\ 0 \in Nat
  OBVIOUS
<1>2. f \in Seq({})
  BY <1>1, SeqDef
<1>3. Len(f) = 0
  BY <1>1, <1>2, LenProperties
<1>4. QED
  BY <1>2, <1>3, EmptySeq

\* A list whose pieces have the same length in a row: how many there are.
LEMMA RoundedUp ==
  ASSUME NEW s \in Nat, NEW b \in Nat \ {0}, NEW q \in Nat, s <= b * q,
         q = 0 \/ b * (q - 1) < s
  PROVE  (s + b - 1) \div b = q
<1> DEFINE p == b * q
           r == s + b - 1 - p
<1>1. p \in Nat
  OBVIOUS
<1>2. r \in 0..(b - 1)
  <2>1. CASE q = 0
    <3>1. p = 0 /\ s <= p
      BY <2>1
    <3> HIDE DEF p
    <3>2. QED
      BY <3>1
  <2>2. CASE q # 0
    <3>1. b * (q - 1) = p - b
      BY <2>2
    <3>2. p - b < s
      BY <2>2, <3>1
    <3> HIDE DEF p
    <3>3. QED
      BY <1>1, <3>2 DEF p
  <2>3. QED
    BY <2>1, <2>2
<1>3. s + b - 1 \in Nat /\ s + b - 1 = p + r
  BY <1>1
<1> HIDE DEF r
<1>4. QED
  BY <1>2, <1>3, DivMod

\* A remainder taken twice.
LEMMA ModAdd ==
  ASSUME NEW a \in Nat, NEW c \in Nat, NEW w \in Nat \ {0}
  PROVE  ((a % w) + c) % w = (a + c) % w
<1> DEFINE q == a \div w
           r == a % w
<1>1. q \in Nat /\ r \in 0..(w - 1) /\ a = w * q + r
  BY DivModIs
<1> HIDE DEF q, r
<1> DEFINE x == r + c
           q2 == x \div w
           r2 == x % w
<1>2. x \in Nat
  BY <1>1
<1> HIDE DEF x
<1>3. q2 \in Nat /\ r2 \in 0..(w - 1) /\ x = w * q2 + r2
  BY <1>2, DivModIs
<1> HIDE DEF q2, r2
<1>4. w * (q + q2) = w * q + w * q2 /\ q + q2 \in Nat /\ w * q \in Nat /\ w * q2 \in Nat
  BY <1>1, <1>3
<1>5. a + c = w * (q + q2) + r2 /\ a + c \in Nat
  BY <1>1, <1>3, <1>4 DEF x
<1>6. (a + c) % w = r2
  BY <1>3, <1>4, <1>5, DivMod
<1>7. QED
  BY <1>6 DEF r2, x, r

\* A byte behind the remainder of an offset is the byte behind the offset.
LEMMA DivAdd ==
  ASSUME NEW a \in Nat, NEW k \in Nat, NEW b \in Nat \ {0}
  PROVE  /\ (a + k) \div b = (a \div b) + (((a % b) + k) \div b)
         /\ (a + k) % b = ((a % b) + k) % b
<1> DEFINE q == a \div b
           r == a % b
<1>1. q \in Nat /\ r \in 0..(b - 1) /\ a = b * q + r
  BY DivModIs
<1> HIDE DEF q, r
<1> DEFINE x == r + k
           q2 == x \div b
           r2 == x % b
<1>2. x \in Nat
  BY <1>1
<1> HIDE DEF x
<1>3. q2 \in Nat /\ r2 \in 0..(b - 1) /\ x = b * q2 + r2
  BY <1>2, DivModIs
<1> HIDE DEF q2, r2
<1>4. b * (q + q2) = b * q + b * q2 /\ q + q2 \in Nat /\ b * q \in Nat /\ b * q2 \in Nat
  BY <1>1, <1>3
<1>5. a + k = b * (q + q2) + r2 /\ a + k \in Nat
  BY <1>1, <1>3, <1>4 DEF x
<1>6. (a + k) \div b = q + q2 /\ (a + k) % b = r2
  <2> DEFINE y == a + k
             m == q + q2
  <2>1. y \in Nat /\ m \in Nat /\ y = b * m + r2
    BY <1>4, <1>5
  <2> HIDE DEF y, m
  <2>2. y \div b = m /\ y % b = r2
    BY <1>3, <2>1, DivMod
  <2>3. QED
    BY <2>2 DEF y, m
<1>7. QED
  BY <1>6 DEF q2, r2, x, r, q

\* A quotient and a remainder that fit.
LEMMA DivModOf ==
  ASSUME NEW a \in Nat, NEW b \in Nat \ {0}, NEW q \in Nat, NEW r \in 0..(b - 1), a = b * q + r
  PROVE  a \div b = q /\ a % b = r
  BY DivMod

\* A number less than the divisor.
LEMMA WithinOne ==
  ASSUME NEW b \in Nat \ {0}, NEW k \in 0..(b - 1)
  PROVE  k \div b = 0 /\ k % b = k
<1>1. k \in Nat /\ 0 \in Nat /\ b * 0 = 0
  OBVIOUS
<1>2. k = b * 0 + k
  BY <1>1
<1>3. QED
  BY <1>1, <1>2, DivModOf

-----------------------------------------------------------------------------
(* The names of some entries of a list *)

\* f holds the names of the entries in H among the first of s, for each number of them.
Collects(f, s, H) ==
  /\ f[0] = << >>
  /\ \A i \in 1..Len(s) : f[i] = IF s[i] \in H THEN Append(f[i - 1], s[i].name) ELSE f[i - 1]

\* All entries have a name of N.
AllNamed(S, N) == \A e \in S : e.name \in N

\* The names can be collected.
LEMMA CollectExists ==
  ASSUME NEW S, NEW N, NEW H, AllNamed(S, N), NEW s \in Seq(S)
  PROVE  \E f \in [0..Len(s) -> Seq(N)] : Collects(f, s, H)
<1> DEFINE step == [x \in (1..Len(s)) \X Seq(N) |-> IF s[x[1]] \in H THEN Append(x[2], s[x[1]].name) ELSE x[2]]
<1>1. Len(s) \in Nat
  BY LenProperties
<1>2. step \in [(1..Len(s)) \X Seq(N) -> Seq(N)]
  <2>1. ASSUME NEW i \in 1..Len(s), NEW t \in Seq(N)
        PROVE  (IF s[i] \in H THEN Append(t, s[i].name) ELSE t) \in Seq(N)
    <3>1. s[i] \in S
      BY ElementOfSeq
    <3>2. s[i].name \in N
      BY <3>1 DEF AllNamed
    <3>3. Append(t, s[i].name) \in Seq(N)
      BY <3>2, AppendProperties
    <3>4. QED
      BY <3>3
  <2>2. QED
    BY <2>1
<1>3. \A i \in 1..Len(s) : \A t \in Seq(N) :
        step[<<i, t>>] = IF s[i] \in H THEN Append(t, s[i].name) ELSE t
  OBVIOUS
<1>4. << >> \in Seq(N)
  BY EmptySeq
<1> HIDE DEF step
<1>5. PICK f \in [0..Len(s) -> Seq(N)] : Unfolds(f, Len(s), << >>, step)
  BY <1>1, <1>2, <1>4, RecursionOverInterval
<1>6. ASSUME NEW i \in 1..Len(s) PROVE f[i] = IF s[i] \in H THEN Append(f[i - 1], s[i].name) ELSE f[i - 1]
  <2>1. i - 1 \in 0..Len(s)
    BY <1>1
  <2>2. f[i - 1] \in Seq(N) /\ f[i] = step[<<i, f[i - 1]>>]
    BY <1>5, <2>1 DEF Unfolds
  <2>3. QED
    BY <1>3, <2>2
<1>7. Collects(f, s, H)
  BY <1>5, <1>6 DEF Collects, Unfolds
<1>8. QED
  BY <1>7

\* The names of the entries of s in H, in order.
Picked(s, H) ==
  LET names[i \in 0..Len(s)] ==
        IF i = 0 THEN << >>
        ELSE IF s[i] \in H THEN Append(names[i - 1], s[i].name)
        ELSE names[i - 1]
  IN  names[Len(s)]

\* They are collected entry by entry, by a function that is defined for each.
LEMMA PickedIs ==
  ASSUME NEW S, NEW N, NEW H, AllNamed(S, N), NEW s \in Seq(S)
  PROVE  \E f : Collects(f, s, H) /\ Picked(s, H) = f[Len(s)]
<1> DEFINE Made(f) == f = [i \in 0..Len(s) |-> IF i = 0 THEN << >>
                             ELSE IF s[i] \in H THEN Append(f[i - 1], s[i].name) ELSE f[i - 1]]
           names == CHOOSE f : Made(f)
<1>1. PICK f \in [0..Len(s) -> Seq(N)] : Collects(f, s, H)
  BY CollectExists
<1>2. Made(f)
  <2>1. ASSUME NEW i \in 0..Len(s)
        PROVE f[i] = IF i = 0 THEN << >> ELSE IF s[i] \in H THEN Append(f[i - 1], s[i].name) ELSE f[i - 1]
    <3>1. i = 0 \/ i \in 1..Len(s)
      BY LenProperties
    <3>2. i \in 1..Len(s) => i # 0
      BY LenProperties
    <3>3. QED
      BY <1>1, <3>1, <3>2 DEF Collects
  <2>2. QED
    BY <2>1
<1>3. Made(names)
  <2> HIDE DEF Made
  <2> QED
    BY <1>2, Zenon
<1>4. Picked(s, H) = names[Len(s)]
  BY DEF Picked
<1> HIDE DEF names
<1>5. Collects(names, s, H)
  <2>1. \A i \in 0..Len(s) : names[i] = IF i = 0 THEN << >>
           ELSE IF s[i] \in H THEN Append(names[i - 1], s[i].name) ELSE names[i - 1]
    BY <1>3
  <2>2. QED
    BY <2>1, LenProperties DEF Collects
<1>6. QED
  BY <1>4, <1>5

\* There is one way to collect them, and it gives names of N.
LEMMA PickedBy ==
  ASSUME NEW S, NEW N, NEW H, AllNamed(S, N), NEW s \in Seq(S), NEW f, Collects(f, s, H)
  PROVE  Picked(s, H) = f[Len(s)] /\ Picked(s, H) \in Seq(N)
<1>1. PICK g : Collects(g, s, H) /\ Picked(s, H) = g[Len(s)]
  BY PickedIs
<1>2. Len(s) \in Nat /\ \A i \in 1..Len(s) : s[i].name \in N
  BY LenProperties, ElementOfSeq DEF AllNamed
<1> DEFINE T == {i \in 0..Len(s) : f[i] = g[i] /\ f[i] \in Seq(N)}
<1>3. 0 \in T
  <2>1. f[0] = << >> /\ g[0] = << >> /\ 0 \in 0..Len(s) /\ << >> \in Seq(N)
    BY <1>1, <1>2, EmptySeq DEF Collects
  <2>2. QED
    BY <2>1
<1>4. ASSUME NEW k \in 0..(Len(s) - 1), k \in T PROVE k + 1 \in T
  <2>1. k + 1 \in 1..Len(s) /\ (k + 1) - 1 = k /\ k + 1 \in 0..Len(s)
    BY <1>2
  <2>2. /\ f[k + 1] = IF s[k + 1] \in H THEN Append(f[k], s[k + 1].name) ELSE f[k]
        /\ g[k + 1] = IF s[k + 1] \in H THEN Append(g[k], s[k + 1].name) ELSE g[k]
    <3>1. /\ f[k + 1] = IF s[k + 1] \in H THEN Append(f[(k + 1) - 1], s[k + 1].name) ELSE f[(k + 1) - 1]
          /\ g[k + 1] = IF s[k + 1] \in H THEN Append(g[(k + 1) - 1], s[k + 1].name) ELSE g[(k + 1) - 1]
      BY <1>1, <2>1 DEF Collects
    <3>2. QED
      BY <2>1, <3>1
  <2>3. f[k] = g[k] /\ f[k] \in Seq(N) /\ s[k + 1].name \in N
    BY <1>2, <1>4, <2>1
  <2>4. Append(f[k], s[k + 1].name) \in Seq(N)
    BY <2>3, AppendProperties
  <2>5. f[k + 1] = g[k + 1] /\ f[k + 1] \in Seq(N)
    BY <2>2, <2>3, <2>4
  <2>6. QED
    BY <2>1, <2>5
<1> HIDE DEF T
<1>5. 0..Len(s) \subseteq T
  BY <1>2, <1>3, <1>4, IntervalInduction
<1>6. Len(s) \in T
  BY <1>2, <1>5
<1>7. QED
  BY <1>1, <1>6 DEF T

\* The names with one entry more.
PickedWith(s, e, H, N) ==
  /\ Picked(s, H) \in Seq(N)
  /\ Picked(Append(s, e), H) = IF e \in H THEN Append(Picked(s, H), e.name) ELSE Picked(s, H)

\* There is one name more if the entry is in H.
LEMMA PickedAppend ==
  ASSUME NEW S, NEW N, NEW H, AllNamed(S, N), NEW s \in Seq(S), NEW e \in S
  PROVE  PickedWith(s, e, H, N)
<1> DEFINE t == Append(s, e)
<1>1. t \in Seq(S) /\ Len(t) = Len(s) + 1 /\ Len(s) \in Nat
      /\ (\A i \in 1..Len(s) : t[i] = s[i]) /\ t[Len(s) + 1] = e
  BY AppendProperties, LenProperties
<1> HIDE DEF t
<1>2. PICK f : Collects(f, t, H) /\ Picked(t, H) = f[Len(t)]
  BY <1>1, PickedIs
<1>3. Collects(f, s, H)
  <2>1. ASSUME NEW i \in 1..Len(s)
        PROVE  f[i] = IF s[i] \in H THEN Append(f[i - 1], s[i].name) ELSE f[i - 1]
    <3>1. i \in 1..Len(t) /\ t[i] = s[i]
      BY <1>1
    <3>2. f[i] = IF t[i] \in H THEN Append(f[i - 1], t[i].name) ELSE f[i - 1]
      BY <1>2, <3>1 DEF Collects
    <3>3. QED
      BY <3>1, <3>2
  <2>2. QED
    BY <1>2, <2>1 DEF Collects
<1>4. Picked(s, H) = f[Len(s)] /\ Picked(s, H) \in Seq(N)
  BY <1>3, PickedBy
<1>5. f[Len(t)] = IF e \in H THEN Append(f[Len(s)], e.name) ELSE f[Len(s)]
  <2>1. Len(t) \in 1..Len(t) /\ Len(t) - 1 = Len(s) /\ t[Len(t)] = e
    BY <1>1
  <2>2. f[Len(t)] = IF t[Len(t)] \in H THEN Append(f[Len(t) - 1], t[Len(t)].name) ELSE f[Len(t) - 1]
    BY <1>2, <2>1 DEF Collects
  <2>3. QED
    BY <2>1, <2>2
<1>6. QED
  BY <1>1, <1>2, <1>4, <1>5 DEF t, PickedWith

\* The names of two sequences in a row.
PickedInARow(a, b, H, N) ==
  /\ Picked(a, H) \in Seq(N) /\ Picked(b, H) \in Seq(N)
  /\ Picked(a \o b, H) = Picked(a, H) \o Picked(b, H)

\* They are the names of both, one behind the other.
LEMMA PickedConcat ==
  ASSUME NEW S, NEW N, NEW H, AllNamed(S, N), NEW a \in Seq(S), NEW b \in Seq(S)
  PROVE  PickedInARow(a, b, H, N)
<1> DEFINE t == a \o b
<1>1. /\ t \in Seq(S) /\ Len(t) = Len(a) + Len(b) /\ Len(a) \in Nat /\ Len(b) \in Nat
      /\ \A i \in 1..(Len(a) + Len(b)) : t[i] = IF i <= Len(a) THEN a[i] ELSE b[i - Len(a)]
  BY ConcatProperties, LenProperties
<1> HIDE DEF t
<1>2. PICK f : Collects(f, t, H) /\ Picked(t, H) = f[Len(t)]
  BY <1>1, PickedIs
<1>3. PICK g : Collects(g, b, H) /\ Picked(b, H) = g[Len(b)]
  BY PickedIs
<1>4. Collects(f, a, H)
  <2>1. ASSUME NEW i \in 1..Len(a)
        PROVE  f[i] = IF a[i] \in H THEN Append(f[i - 1], a[i].name) ELSE f[i - 1]
    <3>1. i \in 1..Len(t) /\ t[i] = a[i]
      BY <1>1
    <3>2. f[i] = IF t[i] \in H THEN Append(f[i - 1], t[i].name) ELSE f[i - 1]
      BY <1>2, <3>1 DEF Collects
    <3>3. QED
      BY <3>1, <3>2
  <2>2. QED
    BY <1>2, <2>1 DEF Collects
<1>5. Picked(a, H) = f[Len(a)] /\ Picked(a, H) \in Seq(N) /\ Picked(b, H) \in Seq(N)
  BY <1>3, <1>4, PickedBy
<1> DEFINE p == f[Len(a)]
           T == {j \in 0..Len(b) : g[j] \in Seq(N) /\ f[Len(a) + j] = p \o g[j]}
<1>6. p \in Seq(N)
  BY <1>5
<1> HIDE DEF p
<1>7. 0 \in T
  <2>1. g[0] = << >> /\ << >> \in Seq(N) /\ p \o << >> = p /\ Len(a) + 0 = Len(a)
    BY <1>1, <1>3, <1>6, EmptySeq, ConcatEmptySeq DEF Collects
  <2>2. f[Len(a) + 0] = p
    BY <2>1 DEF p
  <2>3. f[Len(a) + 0] = p \o g[0] /\ g[0] \in Seq(N) /\ 0 \in 0..Len(b)
    BY <1>1, <2>1, <2>2
  <2>4. QED
    BY <2>3
<1>8. ASSUME NEW k \in 0..(Len(b) - 1), k \in T PROVE k + 1 \in T
  <2>1. /\ k + 1 \in 1..Len(b) /\ (k + 1) - 1 = k /\ k + 1 \in 0..Len(b)
        /\ Len(a) + (k + 1) \in 1..Len(t) /\ (Len(a) + (k + 1)) - 1 = Len(a) + k
        /\ t[Len(a) + (k + 1)] = b[k + 1]
    <3>1. Len(a) + (k + 1) \in 1..(Len(a) + Len(b)) /\ ~(Len(a) + (k + 1) <= Len(a))
          /\ (Len(a) + (k + 1)) - Len(a) = k + 1
      BY <1>1
    <3>2. t[Len(a) + (k + 1)] = b[(Len(a) + (k + 1)) - Len(a)]
      BY <1>1, <3>1
    <3>3. /\ k + 1 \in 1..Len(b) /\ (k + 1) - 1 = k /\ k + 1 \in 0..Len(b)
          /\ (Len(a) + (k + 1)) - 1 = Len(a) + k
      <4>1. Len(a) \in Nat /\ Len(b) \in Nat
        BY <1>1
      <4> HIDE DEF T
      <4>2. QED
        BY <4>1
    <3>4. Len(a) + (k + 1) \in 1..Len(t)
      BY <1>1, <3>1
    <3>5. t[Len(a) + (k + 1)] = b[k + 1]
      BY <3>1, <3>2
    <3>6. QED
      BY <3>3, <3>4, <3>5
  <2> DEFINE e == b[k + 1]
             m == Len(a) + (k + 1)
  <2>2. g[k + 1] = IF e \in H THEN Append(g[k], e.name) ELSE g[k]
    <3>1. g[k + 1] = IF b[k + 1] \in H THEN Append(g[(k + 1) - 1], b[k + 1].name) ELSE g[(k + 1) - 1]
      BY <1>3, <2>1 DEF Collects
    <3>2. QED
      BY <2>1, <3>1
  <2>3. f[m] = IF e \in H THEN Append(f[Len(a) + k], e.name) ELSE f[Len(a) + k]
    <3>1. f[m] = IF t[m] \in H THEN Append(f[m - 1], t[m].name) ELSE f[m - 1]
      BY <1>2, <2>1 DEF Collects
    <3>2. QED
      BY <2>1, <3>1
  <2>4. e.name \in N /\ g[k] \in Seq(N) /\ f[Len(a) + k] = p \o g[k]
    <3>1. e \in S
      BY <2>1, ElementOfSeq
    <3>2. QED
      BY <1>8, <3>1 DEF AllNamed
  <2> HIDE DEF e, m
  <2>5. /\ Append(g[k], e.name) \in Seq(N)
        /\ Append(p \o g[k], e.name) = p \o Append(g[k], e.name)
    <3> DEFINE x == g[k]
               y == e.name
    <3>1. x \in Seq(N) /\ y \in N /\ <<y>> \in Seq(N) /\ p \o x \in Seq(N)
      BY <1>6, <2>4, ConcatProperties
    <3> HIDE DEF x, y
    <3>2. Append(x, y) = x \o <<y>> /\ Append(p \o x, y) = (p \o x) \o <<y>>
      BY <3>1, AppendIsConcat
    <3>3. (p \o x) \o <<y>> = p \o (x \o <<y>>)
      BY <1>6, <3>1, ConcatAssociative
    <3>4. Append(x, y) \in Seq(N)
      BY <3>1, AppendProperties
    <3>5. QED
      BY <3>2, <3>3, <3>4 DEF x, y
  <2>6. g[k + 1] \in Seq(N) /\ f[m] = p \o g[k + 1]
    <3>1. CASE e \in H
      BY <2>2, <2>3, <2>4, <2>5, <3>1
    <3>2. CASE e \notin H
      BY <2>2, <2>3, <2>4, <3>2
    <3>3. QED
      BY <3>1, <3>2
  <2>7. QED
    BY <2>1, <2>6 DEF m
<1> HIDE DEF T
<1>9. 0..Len(b) \subseteq T
  BY <1>1, <1>7, <1>8, IntervalInduction
<1>10. Len(b) \in T
  BY <1>1, <1>9
<1>11. f[Len(a) + Len(b)] = p \o g[Len(b)]
  BY <1>10 DEF T
<1>12. QED
  BY <1>1, <1>2, <1>3, <1>5, <1>11 DEF t, p, PickedInARow

\* Nothing is picked from nothing.
LEMMA PickedNone ==
  ASSUME NEW S, NEW N, NEW H, AllNamed(S, N)
  PROVE  Picked(<< >>, H) = << >>
<1>1. << >> \in Seq(S) /\ Len(<< >>) = 0
  BY EmptySeq
<1>2. PICK f : Collects(f, << >>, H) /\ Picked(<< >>, H) = f[Len(<< >>)]
  BY <1>1, PickedIs
<1>3. QED
  BY <1>1, <1>2 DEF Collects
=============================================================================
