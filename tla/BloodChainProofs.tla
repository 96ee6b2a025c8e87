-------------------------- MODULE BloodChainProofs --------------------------
(***************************************************************************)
(* For any layout, any modules and any contents of memory: the strings     *)
(* bcbp_add_module copies never reach the table, so every entry reads back *)
(* as it was added; and of what boot_bloodchain_wrapper builds with them.  *)
(***************************************************************************)
EXTENDS BloodChainBoot, Loops

-----------------------------------------------------------------------------
(* Bytes *)

\* Writing bytes into memory leaves memory.
LEMMA PutType ==
  ASSUME NEW m \in [Cells -> Bytes], NEW a \in Int, NEW s \in Seq(Bytes)
  PROVE  Put(m, a, s) \in [Cells -> Bytes]
<1> SUFFICES ASSUME NEW b \in Cells, b - a + 1 \in 1..Len(s)
             PROVE  s[b - a + 1] \in Bytes
  BY DEF Put
<1> QED
  OBVIOUS

\* What a byte of memory is after a write.
LEMMA PutAt ==
  ASSUME NEW m \in [Cells -> Bytes], NEW a \in Int, NEW s \in Seq(Bytes), NEW b \in Cells
  PROVE  /\ b < a \/ b >= a + Len(s) => Put(m, a, s)[b] = m[b]
         /\ a <= b /\ b < a + Len(s) => Put(m, a, s)[b] = s[b - a + 1]
  BY DEF Put, Cells

\* A number is its upper part and its lowest byte.
LEMMA UpperDigit ==
  ASSUME NEW v \in Nat
  PROVE  Upper(v) \in Nat /\ v % 256 \in Bytes /\ (v % 256) + 256 * Upper(v) = v
  BY DEF Upper, Bytes

\* What is below a number is a number.
LEMMA NumbersBelow ==
  ASSUME NEW v \in Numbers, NEW u \in Nat, u <= v
  PROVE  u \in Numbers
<1>1. ASSUME NEW x \in Nat, NEW y \in Nat, x <= y
      PROVE  Upper(x) \in Nat /\ Upper(y) \in Nat /\ Upper(x) <= Upper(y)
  BY <1>1 DEF Upper
<1>2. Highest(u) \in Nat /\ Highest(v) \in Nat /\ Highest(u) <= Highest(v)
  BY <1>1 DEF Highest, Numbers
<1>3. QED
  BY <1>2 DEF Numbers

\* A number is recovered from its field.
LEMMA LittleWord ==
  ASSUME NEW v \in Numbers
  PROVE  /\ Little(v) \in Seq(Bytes)
         /\ Len(Little(v)) = FieldSize
         /\ Number(Little(v)) = v
<1> DEFINE v2 == Upper(v)
           v3 == Upper(v2)
           v4 == Upper(v3)
           v5 == Upper(v4)
           v6 == Upper(v5)
           v7 == Upper(v6)
           v8 == Upper(v7)
<1>1. v \in Nat /\ v8 < 256
  BY DEF Numbers, Highest
<1>2. Little(v) = <<v % 256, v2 % 256, v3 % 256, v4 % 256,
                    v5 % 256, v6 % 256, v7 % 256, v8 % 256>>
  BY DEF Little
<1> HIDE DEF v8
<1>3. v7 \in Nat /\ v8 \in Nat /\ v7 = (v7 % 256) + 256 * v8
  <2>1. v2 \in Nat /\ v3 \in Nat /\ v4 \in Nat /\ v5 \in Nat /\ v6 \in Nat /\ v7 \in Nat
    BY <1>1, UpperDigit
  <2>2. QED
    BY <2>1, UpperDigit DEF v8
<1> HIDE DEF v7
<1>4. v6 \in Nat /\ v6 = (v6 % 256) + 256 * v7
  <2>1. v2 \in Nat /\ v3 \in Nat /\ v4 \in Nat /\ v5 \in Nat /\ v6 \in Nat
    BY <1>1, UpperDigit
  <2>2. QED
    BY <2>1, UpperDigit DEF v7
<1> HIDE DEF v6
<1>5. v5 \in Nat /\ v5 = (v5 % 256) + 256 * v6
  <2>1. v2 \in Nat /\ v3 \in Nat /\ v4 \in Nat /\ v5 \in Nat
    BY <1>1, UpperDigit
  <2>2. QED
    BY <2>1, UpperDigit DEF v6
<1> HIDE DEF v5
<1>6. v4 \in Nat /\ v4 = (v4 % 256) + 256 * v5
  <2>1. v2 \in Nat /\ v3 \in Nat /\ v4 \in Nat
    BY <1>1, UpperDigit
  <2>2. QED
    BY <2>1, UpperDigit DEF v5
<1> HIDE DEF v4
<1>7. v3 \in Nat /\ v3 = (v3 % 256) + 256 * v4
  <2>1. v2 \in Nat /\ v3 \in Nat
    BY <1>1, UpperDigit
  <2>2. QED
    BY <2>1, UpperDigit DEF v4
<1> HIDE DEF v3
<1>8. v2 \in Nat /\ v2 = (v2 % 256) + 256 * v3 /\ v = (v % 256) + 256 * v2
  BY <1>1, UpperDigit DEF v3
<1> HIDE DEF v2
<1>9. v8 % 256 = v8
  BY <1>1, <1>3
<1>10. /\ v % 256 \in Bytes /\ v2 % 256 \in Bytes /\ v3 % 256 \in Bytes /\ v4 % 256 \in Bytes
       /\ v5 % 256 \in Bytes /\ v6 % 256 \in Bytes /\ v7 % 256 \in Bytes /\ v8 % 256 \in Bytes
  <2>1. /\ v \in Nat /\ v2 \in Nat /\ v3 \in Nat /\ v4 \in Nat
        /\ v5 \in Nat /\ v6 \in Nat /\ v7 \in Nat /\ v8 \in Nat
    <3>1. v2 \in Nat
      BY <1>1, UpperDigit DEF v2
    <3>2. QED
      BY <1>1, <1>3, <1>4, <1>5, <1>6, <1>7, <3>1
  <2>2. \A n \in Nat : n % 256 \in Bytes
    BY UpperDigit
  <2>3. QED
    BY <2>1, <2>2
<1>11. Number(Little(v)) =
         (v % 256) + 256 * ((v2 % 256) + 256 * ((v3 % 256) + 256 * ((v4 % 256) + 256 *
           ((v5 % 256) + 256 * ((v6 % 256) + 256 * ((v7 % 256) + 256 * (v8 % 256)))))))
  BY <1>2 DEF Number
<1>12. Number(Little(v)) = v
  BY <1>3, <1>4, <1>5, <1>6, <1>7, <1>8, <1>9, <1>11
<1>13. FieldSize = 8
  BY BloodChainAssumption DEF BloodChainAssumption
<1>14. QED
  BY <1>2, <1>10, <1>12, <1>13

\* A field holds the number whose bytes are there.
LEMMA FieldIs ==
  ASSUME NEW m, NEW a \in Nat, NEW s \in Seq(Bytes), Len(s) = FieldSize,
         \A k \in 1..FieldSize : m[a + k - 1] = s[k]
  PROVE  Field(m, a) = s
  BY DEF Field

\* A field whose bytes were not written keeps its value.
LEMMA FieldKept ==
  ASSUME NEW m, NEW w, NEW a \in Nat, \A b \in a..(a + FieldSize - 1) : w[b] = m[b]
  PROVE  Field(w, a) = Field(m, a)
<1>1. FieldSize = 8
  BY BloodChainAssumption DEF BloodChainAssumption
<1>2. \A k \in 1..FieldSize : a + k - 1 \in a..(a + FieldSize - 1)
  BY <1>1
<1>3. QED
  BY <1>2 DEF Field

\* Concatenation, read from either of its parts.
LEMMA Concat ==
  ASSUME NEW s \in Seq(Bytes), NEW t \in Seq(Bytes)
  PROVE  /\ s \o t \in Seq(Bytes)
         /\ Len(s \o t) = Len(s) + Len(t)
         /\ \A k \in 1..Len(s) : (s \o t)[k] = s[k]
         /\ \A k \in 1..Len(t) : (s \o t)[Len(s) + k] = t[k]
<1>1. \A i \in 1..(Len(s) + Len(t)) :
        (s \o t)[i] = IF i <= Len(s) THEN s[i] ELSE t[i - Len(s)]
  BY ConcatProperties
<1>2. Len(s) \in Nat /\ Len(t) \in Nat
  BY LenProperties
<1>3. ASSUME NEW k \in 1..Len(t) PROVE (s \o t)[Len(s) + k] = t[k]
  BY <1>1, <1>2
<1>4. QED
  BY <1>1, <1>2, <1>3, ConcatProperties

\* One more field behind n bytes.
LEMMA ConcatField ==
  ASSUME NEW n \in Nat, NEW s \in Seq(Bytes), Len(s) = n, NEW v \in Numbers
  PROVE  LET t == s \o Little(v)
         IN  /\ t \in Seq(Bytes)
             /\ Len(t) = n + FieldSize
             /\ \A k \in 1..n : t[k] = s[k]
             /\ \A k \in 1..FieldSize : t[n + k] = Little(v)[k]
<1>1. /\ Little(v) \in Seq(Bytes) /\ Len(Little(v)) = FieldSize
      /\ \A k \in 1..FieldSize : k \in 1..Len(Little(v))
  BY LittleWord, BloodChainAssumption DEF BloodChainAssumption
<1>2. QED
  BY <1>1, Concat

\* Where each field of an entry is.
LEMMA EntryBytesAt ==
  ASSUME NEW x \in ArgType, NEW name \in Numbers, NEW cmdline \in Numbers
  PROVE  LET e == EntryBytes(x, name, cmdline)
         IN  /\ e \in Seq(Bytes)
             /\ Len(e) = 4 * FieldSize + 1
             /\ \A k \in 1..FieldSize : /\ e[k] = Little(x.start)[k]
                                /\ e[FieldSize + k] = Little(x.size)[k]
                                /\ e[2 * FieldSize + k] = Little(cmdline)[k]
                                /\ e[3 * FieldSize + k] = Little(name)[k]
             /\ e[4 * FieldSize + 1] = x.type
<1> DEFINE A == Little(x.start) \o Little(x.size)
           B == A \o Little(cmdline)
           C == B \o Little(name)
<1>1. /\ x.start \in Numbers /\ x.size \in Numbers /\ x.type \in Bytes
      /\ FieldSize \in Nat
  BY BloodChainAssumption DEF BloodChainAssumption, ArgType
<1>2. /\ Little(x.start) \in Seq(Bytes) /\ Len(Little(x.start)) = FieldSize
      /\ Little(x.size) \in Seq(Bytes) /\ Len(Little(x.size)) = FieldSize
      /\ Little(cmdline) \in Seq(Bytes) /\ Len(Little(cmdline)) = FieldSize
      /\ Little(name) \in Seq(Bytes) /\ Len(Little(name)) = FieldSize
  BY <1>1, LittleWord
<1>3. /\ A \in Seq(Bytes) /\ Len(A) = 2 * FieldSize
      /\ \A k \in 1..FieldSize : A[k] = Little(x.start)[k] /\ A[FieldSize + k] = Little(x.size)[k]
  <2>1. /\ A \in Seq(Bytes)
        /\ Len(A) = FieldSize + FieldSize
        /\ \A k \in 1..FieldSize : A[k] = Little(x.start)[k]
        /\ \A k \in 1..FieldSize : A[FieldSize + k] = Little(x.size)[k]
    BY <1>1, <1>2, ConcatField
  <2> HIDE DEF A
  <2>2. QED
    BY <1>1, <2>1
<1>4. /\ B \in Seq(Bytes) /\ Len(B) = 3 * FieldSize
      /\ \A k \in 1..(2 * FieldSize) : B[k] = A[k]
      /\ \A k \in 1..FieldSize : B[2 * FieldSize + k] = Little(cmdline)[k]
  <2> HIDE DEF A
  <2> DEFINE n == 2 * FieldSize
  <2>1. n \in Nat /\ Len(A) = n /\ A \in Seq(Bytes)
    BY <1>1, <1>3
  <2> HIDE DEF n
  <2>2. /\ B \in Seq(Bytes)
        /\ Len(B) = n + FieldSize
        /\ \A k \in 1..n : B[k] = A[k]
        /\ \A k \in 1..FieldSize : B[n + k] = Little(cmdline)[k]
    BY <2>1, ConcatField
  <2> HIDE DEF B
  <2>3. n + FieldSize = 3 * FieldSize
    BY <1>1 DEF n
  <2>4. QED
    BY <2>2, <2>3 DEF n
<1>5. /\ C \in Seq(Bytes) /\ Len(C) = 4 * FieldSize
      /\ \A k \in 1..(3 * FieldSize) : C[k] = B[k]
      /\ \A k \in 1..FieldSize : C[3 * FieldSize + k] = Little(name)[k]
  <2> HIDE DEF B
  <2> DEFINE n == 3 * FieldSize
  <2>1. n \in Nat /\ Len(B) = n /\ B \in Seq(Bytes)
    BY <1>1, <1>4
  <2> HIDE DEF n
  <2>2. /\ C \in Seq(Bytes)
        /\ Len(C) = n + FieldSize
        /\ \A k \in 1..n : C[k] = B[k]
        /\ \A k \in 1..FieldSize : C[n + k] = Little(name)[k]
    BY <2>1, ConcatField
  <2> HIDE DEF C
  <2>3. n + FieldSize = 4 * FieldSize
    BY <1>1 DEF n
  <2>4. QED
    BY <2>2, <2>3 DEF n
<1>6. <<x.type>> \in Seq(Bytes) /\ Len(<<x.type>>) = 1 /\ <<x.type>>[1] = x.type
  BY <1>1
<1>7. /\ C \o <<x.type>> \in Seq(Bytes)
      /\ Len(C \o <<x.type>>) = 4 * FieldSize + 1
      /\ \A k \in 1..(4 * FieldSize) : (C \o <<x.type>>)[k] = C[k]
      /\ (C \o <<x.type>>)[4 * FieldSize + 1] = x.type
  <2> HIDE DEF C
  <2>1. 1 \in 1..Len(<<x.type>>)
    BY <1>6
  <2>2. QED
    BY <1>5, <1>6, <2>1, Concat
<1>8. EntryBytes(x, name, cmdline) = C \o <<x.type>>
  BY DEF EntryBytes
<1> HIDE DEF A, B, C
<1>9. ASSUME NEW k \in 1..FieldSize
      PROVE  /\ C[k] = Little(x.start)[k]
             /\ C[FieldSize + k] = Little(x.size)[k]
             /\ C[2 * FieldSize + k] = Little(cmdline)[k]
             /\ C[3 * FieldSize + k] = Little(name)[k]
  <2>1. k \in 1..(2 * FieldSize) /\ FieldSize + k \in 1..(2 * FieldSize)
    BY <1>1
  <2>2. 2 * FieldSize + k \in 1..(3 * FieldSize)
    BY <1>1
  <2>3. k \in 1..(3 * FieldSize) /\ FieldSize + k \in 1..(3 * FieldSize)
    BY <1>1
  <2>4. QED
    BY <1>3, <1>4, <1>5, <2>1, <2>2, <2>3
<1>10. QED
  <2>1. ASSUME NEW k \in 1..FieldSize
        PROVE  /\ k \in 1..(4 * FieldSize)
               /\ FieldSize + k \in 1..(4 * FieldSize)
               /\ 2 * FieldSize + k \in 1..(4 * FieldSize)
               /\ 3 * FieldSize + k \in 1..(4 * FieldSize)
    BY <1>1
  <2>2. QED
    BY <1>7, <1>8, <1>9, <2>1

-----------------------------------------------------------------------------
(* bcbp_add_module *)

\* A string and its NUL are bytes.
LEMMA StrType ==
  ASSUME NEW s \in Strings
  PROVE  Str(s) \in Seq(Bytes) /\ Len(Str(s)) = Len(s) + 1
<1>1. s \in Seq(Bytes)
  BY SeqMonotonic DEF Strings, Bytes
<1>2. QED
  BY <1>1 DEF Str, Bytes

\* An entry is EntrySize bytes behind the one before it, and those before it
\* end where it starts.
LEMMA EntriesApart ==
  ASSUME NEW a \in Nat, NEW i \in Nat, NEW n \in Nat
  PROVE  /\ i * EntrySize \in Nat
         /\ a + (n + 1) * EntrySize = a + n * EntrySize + EntrySize
         /\ i < n => a + i * EntrySize + EntrySize <= a + n * EntrySize
<1>1. EntrySize \in Nat
  BY BloodChainAssumption DEF BloodChainAssumption
<1>2. i * EntrySize \in Nat /\ n * EntrySize \in Nat
  BY <1>1
<1>3. (n + 1) * EntrySize = n * EntrySize + EntrySize
  BY <1>1
<1>4. ASSUME i < n PROVE i * EntrySize + EntrySize <= n * EntrySize
  <2> DEFINE d == n - (i + 1)
  <2>1. d \in Nat /\ n = i + 1 + d
    BY <1>4
  <2> HIDE DEF d
  <2>2. d * EntrySize \in Nat
    BY <1>1, <2>1
  <2>3. n * EntrySize = i * EntrySize + EntrySize + d * EntrySize
    BY <1>1, <2>1
  <2>4. QED
    BY <1>1, <1>2, <2>2, <2>3
<1>5. QED
  BY <1>1, <1>2, <1>3, <1>4

\* The three strcpys and the assignments of bcbp_add_module change the new
\* entry, and bytes from str_ptr on.
LEMMA StoreModuleWrites ==
  ASSUME TypeOK, NEW x \in ModuleArgs, ~Refused(x), NEW p \in Cells,
         p >= ModAddr(hdr.module_count + 1), FitsIn(x, p), StoreModule(x, p)
  PROVE  LET first == ModAddr(hdr.module_count)
             cmdline == IF HasCmdline(x) THEN p + Len(x.name) + 1 ELSE 0
             e == EntryBytes(x, p, cmdline)
         IN  /\ mem' \in [Cells -> Bytes]
             /\ first \in Nat /\ first + EntrySize <= p /\ first >= Base + HeaderSize
             /\ p \in Numbers /\ cmdline \in Numbers /\ (cmdline = 0) = ~HasCmdline(x)
             /\ \A b \in Cells : b < first => mem'[b] = mem[b]
             /\ \A k \in 1..Len(e) : mem'[first + k - 1] = e[k]
             /\ \A b \in Cells : b < p /\ b \notin first..(first + EntrySize - 1)
                                   => mem'[b] = mem[b]
<1> DEFINE first == ModAddr(hdr.module_count)
           cmdline == IF HasCmdline(x) THEN p + Len(x.name) + 1 ELSE 0
           e == EntryBytes(x, p, cmdline)
           m1 == Put(mem, first, e)
           m2 == Put(m1, p, Str(x.name))
<1>1. /\ x \in ArgType /\ x.name \in Strings /\ Len(x.name) \in Nat
      /\ HasCmdline(x) => x.cmdline \in Strings /\ Len(x.cmdline) \in Nat
  BY BloodChainAssumption DEF BloodChainAssumption, ArgType, Refused, HasCmdline, Strings
<1>2. /\ hdr.magic /\ hdr.modules = Base + HeaderSize
      /\ hdr.module_count \in Nat /\ mem \in [Cells -> Bytes]
  BY DEF TypeOK, HeaderType, Refused
<1>3. /\ Base \in Nat \ {0} /\ HeaderSize \in Nat /\ Limit \in Numbers /\ Limit \in Nat
      /\ FieldSize \in Nat /\ EntrySize \in Nat /\ EntrySize > 4 * FieldSize
  BY BloodChainAssumption DEF BloodChainAssumption, Numbers
<1>4. /\ first \in Nat /\ first + EntrySize <= p /\ first >= Base + HeaderSize
  BY <1>2, <1>3, EntriesApart DEF ModAddr
<1>5. p \in Nat /\ p # 0 /\ p < Limit /\ p >= Base + HeaderSize
  BY <1>3 DEF Cells
<1>6. HasCmdline(x) => p + Len(x.name) + 1 < Limit
  BY <1>1, <1>3, <1>5 DEF FitsIn
<1>7. p \in Numbers /\ cmdline \in Numbers /\ (cmdline = 0) = ~HasCmdline(x)
  <2>1. cmdline \in Nat /\ cmdline <= Limit /\ p <= Limit /\ (cmdline = 0) = ~HasCmdline(x)
    BY <1>1, <1>3, <1>5, <1>6
  <2> HIDE DEF cmdline
  <2>2. QED
    BY <1>3, <1>5, <2>1, NumbersBelow
<1>8. e \in Seq(Bytes) /\ Len(e) = 4 * FieldSize + 1
  BY <1>1, <1>7, EntryBytesAt
<1>9. Str(x.name) \in Seq(Bytes)
  BY <1>1, StrType
<1>10. HasCmdline(x) => Str(x.cmdline) \in Seq(Bytes)
  BY <1>1, StrType
<1>11. mem' = IF HasCmdline(x) THEN Put(m2, cmdline, Str(x.cmdline)) ELSE m2
  BY DEF StoreModule
<1> HIDE DEF e, m1, m2, first
<1>12. m1 \in [Cells -> Bytes] /\ m2 \in [Cells -> Bytes]
  BY <1>2, <1>4, <1>5, <1>8, <1>9, PutType DEF m1, m2
<1>13. mem' \in [Cells -> Bytes]
  BY <1>7, <1>10, <1>11, <1>12, PutType DEF Numbers
<1>14. ASSUME NEW b \in Cells, b < p
       PROVE  mem'[b] = m1[b]
  <2>1. b \in Int
    BY <1>3 DEF Cells
  <2>2. m2[b] = m1[b]
    <3> DEFINE name == Str(x.name)
    <3>1. m1 \in [Cells -> Bytes] /\ p \in Int /\ name \in Seq(Bytes)
      BY <1>5, <1>9, <1>12
    <3> HIDE DEF name
    <3>2. Put(m1, p, name)[b] = m1[b]
      BY <1>14, <3>1, PutAt
    <3>3. QED
      BY <3>2 DEF m2, name
  <2>3. HasCmdline(x) => b < cmdline
    BY <1>1, <1>5, <1>14, <2>1
  <2>4. HasCmdline(x) => Put(m2, cmdline, Str(x.cmdline))[b] = m2[b]
    BY <1>7, <1>10, <1>12, <2>1, <2>3, PutAt DEF Numbers
  <2>5. QED
    BY <1>11, <2>2, <2>4
<1>15. ASSUME NEW b \in Cells, b < first
       PROVE  mem'[b] = mem[b]
  <2>1. b \in Int /\ b < p
    BY <1>3, <1>4, <1>5, <1>15 DEF Cells
  <2>2. m1[b] = mem[b]
    <3>1. mem \in [Cells -> Bytes] /\ first \in Nat /\ e \in Seq(Bytes)
      BY <1>2, <1>4, <1>8
    <3>2. Put(mem, first, e)[b] = mem[b]
      BY <1>15, <3>1, PutAt
    <3>3. QED
      BY <3>2 DEF m1
  <2>3. QED
    BY <1>14, <2>1, <2>2
<1>16. ASSUME NEW k \in 1..Len(e)
       PROVE  mem'[first + k - 1] = e[k]
  <2> DEFINE b == first + k - 1
  <2>1. b \in Cells /\ b < p /\ first <= b /\ b < first + Len(e) /\ b - first + 1 = k
    BY <1>3, <1>4, <1>5, <1>8, <1>16 DEF Cells
  <2> HIDE DEF b
  <2>2. m1[b] = e[b - first + 1]
    BY <1>2, <1>4, <1>8, <2>1, PutAt DEF m1
  <2>3. QED
    BY <1>14, <2>1, <2>2 DEF b
<1>17. ASSUME NEW b \in Cells, b < p, b \notin first..(first + EntrySize - 1)
       PROVE  mem'[b] = mem[b]
  <2>1. b \in Int
    BY <1>3 DEF Cells
  <2>2. b < first \/ b >= first + Len(e)
    BY <1>3, <1>4, <1>8, <1>17, <2>1
  <2>3. m1[b] = mem[b]
    BY <1>2, <1>4, <1>8, <2>2, PutAt DEF m1
  <2>4. QED
    BY <1>14, <1>17, <2>3
<1>18. QED
  BY <1>4, <1>7, <1>13, <1>15, <1>16, <1>17 DEF first, e

-----------------------------------------------------------------------------
(* The table *)

\* Entries are only read back when they are memory: the inductive invariant
\* also keeps the table below Limit, which str_ptr, behind it, always is.
TableInv ==
  /\ TypeOK
  /\ TableIntact
  /\ hdr.module_count > 0 => ModAddr(hdr.module_count) <= Limit

\* Before bcbp_init there is no table.
LEMMA TableInitInv == Init => TableInv
<1> SUFFICES ASSUME Init PROVE TableInv
  OBVIOUS
<1>1. TypeOK
  BY BloodChainAssumption DEF BloodChainAssumption, Init, TypeOK, NoHeader, HeaderType
<1>2. hdr.module_count = 0
  BY DEF Init, NoHeader
<1>3. QED
  BY <1>1, <1>2 DEF TableInv, TableIntact, Indices

\* A module added behind an intact table leaves an intact table.
LEMMA AddInv ==
  ASSUME TableInv, NEW x \in ModuleArgs, ~Refused(x),
         NEW p \in Ends \cap Cells, \A end \in Ends : end <= p,
         FitsIn(x, p), StoreModule(x, p),
         hdr' = [hdr EXCEPT !.module_count = @ + 1], added' = Append(added, x)
  PROVE  TableInv'
<1> DEFINE n == hdr.module_count
           first == ModAddr(n)
           cmdline == IF HasCmdline(x) THEN p + Len(x.name) + 1 ELSE 0
           e == EntryBytes(x, p, cmdline)
           F == FieldSize
<1>1. TypeOK /\ TableIntact
  BY DEF TableInv
<1>2. /\ hdr \in HeaderType /\ hdr.module_count \in Nat
      /\ hdr.modules = Base + HeaderSize
      /\ n = Len(added) /\ added \in Seq(ModuleArgs) /\ mem \in [Cells -> Bytes]
  <2>1. hdr.magic
    BY DEF Refused
  <2>2. QED
    BY <1>1, <2>1 DEF TypeOK, HeaderType
<1>3. /\ Base \in Nat \ {0} /\ HeaderSize \in Nat /\ Limit \in Nat
      /\ F \in Nat /\ EntrySize \in Nat /\ EntrySize > 4 * F
  BY BloodChainAssumption DEF BloodChainAssumption, Numbers
<1>4. p \in Cells /\ p >= ModAddr(n + 1)
  BY <1>2, <1>3 DEF Ends
<1>5. /\ hdr' \in HeaderType /\ hdr'.module_count = n + 1
      /\ hdr'.modules = hdr.modules /\ hdr'.magic = hdr.magic
  BY <1>2 DEF HeaderType
<1>6. /\ mem' \in [Cells -> Bytes]
      /\ first \in Nat /\ first + EntrySize <= p /\ first >= Base + HeaderSize
      /\ p \in Numbers /\ cmdline \in Numbers /\ (cmdline = 0) = ~HasCmdline(x)
      /\ \A b \in Cells : b < first => mem'[b] = mem[b]
      /\ \A k \in 1..Len(e) : mem'[first + k - 1] = e[k]
  BY <1>1, <1>4, StoreModuleWrites
<1>7. TypeOK'
  <2>1. Len(added') = n + 1 /\ added' \in Seq(ModuleArgs)
    BY <1>2
  <2>2. hdr.modules = IF hdr.magic THEN Base + HeaderSize ELSE 0
    BY <1>1 DEF TypeOK
  <2>3. QED
    BY <1>5, <1>6, <2>1, <2>2 DEF TypeOK
<1>8. p \in Nat /\ p < Limit /\ \A b \in Nat : Base + HeaderSize <= b /\ b < p => b \in Cells
  BY <1>3, <1>4 DEF Cells
<1>9. /\ \A i \in Nat : ModAddr(i)' = ModAddr(i)
      /\ ModAddr(n + 1) <= Limit
  <2>1. ModAddr(n + 1) \in Nat
    <3>1. n + 1 \in Nat /\ (n + 1) * EntrySize \in Nat
      BY <1>2, <1>3
    <3>2. hdr.modules \in Nat
      BY <1>2, <1>3
    <3>3. QED
      BY <3>1, <3>2 DEF ModAddr
  <2>2. \A i \in Nat : ModAddr(i)' = ModAddr(i)
    BY <1>5 DEF ModAddr
  <2>3. QED
    BY <1>3, <1>4, <1>8, <2>1, <2>2
<1>10. ASSUME NEW i \in 0..(n - 1)
       PROVE  /\ i \in Indices /\ added'[i + 1] = added[i + 1]
              /\ ModAddr(i) \in Nat
              /\ \A k \in 0..(4 * F) : mem'[ModAddr(i) + k] = mem[ModAddr(i) + k]
  <2>1. i \in Nat /\ i < n
    BY <1>2
  <2>2. ModAddr(i) \in Nat /\ ModAddr(i) >= Base + HeaderSize
          /\ ModAddr(i) + EntrySize <= first
    <3>1. Base + HeaderSize \in Nat
      BY <1>3
    <3>2. i * EntrySize \in Nat
            /\ Base + HeaderSize + i * EntrySize + EntrySize
                 <= Base + HeaderSize + n * EntrySize
      BY <1>2, <2>1, <3>1, EntriesApart
    <3>3. /\ ModAddr(i) = Base + HeaderSize + i * EntrySize
          /\ first = Base + HeaderSize + n * EntrySize
      BY <1>2 DEF ModAddr
    <3> HIDE DEF first
    <3>4. QED
      BY <3>1, <3>2, <3>3
  <2>3. ASSUME NEW k \in 0..(4 * F)
        PROVE  mem'[ModAddr(i) + k] = mem[ModAddr(i) + k]
    <3>1. /\ ModAddr(i) + k \in Nat /\ ModAddr(i) + k < first
          /\ ModAddr(i) + k >= Base + HeaderSize
      <4>1. /\ F \in Nat /\ EntrySize \in Nat /\ EntrySize > 4 * F
            /\ Base + HeaderSize \in Nat
        BY <1>3
      <4>2. first \in Nat
        BY <1>6
      <4> HIDE DEF first, F
      <4>3. k \in Nat /\ k < EntrySize
        BY <4>1
      <4>4. QED
        BY <2>2, <4>1, <4>2, <4>3
    <3>2. ModAddr(i) + k \in Cells
      BY <1>3, <1>6, <1>8, <3>1
    <3>3. QED
      BY <1>6, <3>1, <3>2
  <2>4. i \in Indices /\ added'[i + 1] = added[i + 1]
    BY <1>2, <2>1 DEF Indices
  <2>5. QED
    BY <2>2, <2>3, <2>4
<1>11. /\ e[4 * F + 1] = x.type
       /\ Len(e) = 4 * F + 1 /\ e \in Seq(Bytes)
       /\ \A k \in 1..F : /\ e[k] = Little(x.start)[k]
                         /\ e[F + k] = Little(x.size)[k]
                         /\ e[2 * F + k] = Little(cmdline)[k]
       /\ Little(x.start) \in Seq(Bytes) /\ Len(Little(x.start)) = F
       /\ Little(x.size) \in Seq(Bytes) /\ Len(Little(x.size)) = F
       /\ Little(cmdline) \in Seq(Bytes) /\ Len(Little(cmdline)) = F
       /\ Number(Little(cmdline)) = cmdline
  <2>1. x \in ArgType /\ x.start \in Numbers /\ x.size \in Numbers
    BY BloodChainAssumption DEF BloodChainAssumption, ArgType
  <2> HIDE DEF cmdline
  <2>2. QED
    BY <1>6, <2>1, EntryBytesAt, LittleWord
<1>12. /\ Field(mem', first) = Little(x.start)
       /\ Field(mem', first + F) = Little(x.size)
       /\ Word(mem', first + 2 * F) = cmdline
       /\ mem'[first + 4 * F] = x.type
  <2>0. first \in Nat /\ F \in Nat /\ Len(e) = 4 * F + 1
    BY <1>3, <1>6, <1>11
  <2> HIDE DEF e, first, cmdline
  <2>1. ASSUME NEW k \in 0..(4 * F) PROVE mem'[first + k] = e[k + 1]
    <3>1. k + 1 \in 1..Len(e) /\ first + (k + 1) - 1 = first + k
      BY <2>0
    <3>2. QED
      BY <1>6, <3>1
  <2>2. ASSUME NEW j \in {0, F, 2 * F}, NEW k \in 1..F
        PROVE  mem'[first + j + k - 1] = e[j + k]
    <3>1. j \in Nat /\ j + k - 1 \in 0..(4 * F)
      BY <2>0
    <3>2. first + j + k - 1 = first + (j + k - 1) /\ (j + k - 1) + 1 = j + k
      BY <2>0, <3>1
    <3>3. QED
      BY <2>1, <3>1, <3>2
  <2>3. first \in Nat /\ first + F \in Nat /\ first + 2 * F \in Nat
    BY <2>0
  <2>4. Field(mem', first) = Little(x.start)
    <3>1. ASSUME NEW k \in 1..F PROVE mem'[first + k - 1] = Little(x.start)[k]
      <4>1. first + 0 + k - 1 = first + k - 1 /\ 0 + k = k
        BY <2>0
      <4>2. mem'[first + 0 + k - 1] = e[0 + k]
        BY <2>2
      <4>3. QED
        BY <1>11, <4>1, <4>2
    <3>2. /\ Little(x.start) \in Seq(Bytes) /\ Len(Little(x.start)) = F
          /\ first \in Nat
      BY <1>11, <2>3
    <3>3. QED
      BY <3>1, <3>2, FieldIs
  <2>5. Field(mem', first + F) = Little(x.size)
    <3>1. \A k \in 1..F : mem'[first + F + k - 1] = Little(x.size)[k]
      BY <1>11, <2>2
    <3>2. /\ Little(x.size) \in Seq(Bytes) /\ Len(Little(x.size)) = F
          /\ first + F \in Nat
      BY <1>11, <2>3
    <3>3. QED
      BY <3>1, <3>2, FieldIs
  <2>6. Field(mem', first + 2 * F) = Little(cmdline)
    <3>1. \A k \in 1..F : mem'[first + 2 * F + k - 1] = Little(cmdline)[k]
      BY <1>11, <2>2
    <3>2. /\ Little(cmdline) \in Seq(Bytes) /\ Len(Little(cmdline)) = F
          /\ first + 2 * F \in Nat
      BY <1>11, <2>3
    <3>3. QED
      BY <3>1, <3>2, FieldIs
  <2>7. mem'[first + 4 * F] = x.type
    <3>1. 4 * F \in 0..(4 * F)
      BY <2>0
    <3>2. QED
      BY <1>11, <2>1, <3>1
  <2>8. QED
    BY <1>11, <2>4, <2>5, <2>6, <2>7 DEF Word
<1>13. added'[n + 1] = x
  BY <1>2
<1>14. ASSUME NEW i \in Indices'
       PROVE  /\ Field(mem, ModAddr(i))' = Little(added'[i + 1].start)
              /\ Field(mem, ModAddr(i) + FieldSize)' = Little(added'[i + 1].size)
              /\ TypeOf(mem, i)' = added'[i + 1].type
              /\ (CmdlineOf(mem, i)' = 0) = ~HasCmdline(added'[i + 1])
  <2>1. i \in 0..n
    BY <1>2, <1>5 DEF Indices
  <2>2. CASE i = n
    <3>1. ModAddr(i)' = first /\ i \in Nat
      BY <1>2, <1>9, <2>2
    <3> HIDE DEF e, first, cmdline
    <3>2. added'[i + 1] = x
      BY <1>13, <2>2
    <3>3. QED
      BY <1>6, <1>12, <3>1, <3>2 DEF CmdlineOf, TypeOf
  <2>3. CASE i \in 0..(n - 1)
    <3> DEFINE a == ModAddr(i)
    <3>1. a \in Nat /\ ModAddr(i)' = a /\ added'[i + 1] = added[i + 1]
      BY <1>2, <1>9, <1>10, <2>3
    <3>2. \A k \in 0..(4 * F) : mem'[a + k] = mem[a + k]
      BY <1>10, <2>3
    <3> HIDE DEF a
    <3>3. ASSUME NEW j \in {0, F, 2 * F} PROVE Field(mem', a + j) = Field(mem, a + j)
      <4>0. F \in Nat /\ a \in Nat /\ F = FieldSize
        BY <1>3, <3>1
      <4> HIDE DEF F
      <4>1. ASSUME NEW b \in (a + j)..(a + j + F - 1) PROVE mem'[b] = mem[b]
        <5>1. b - a \in 0..(4 * F) /\ a + (b - a) = b
          BY <4>0
        <5>2. QED
          BY <3>2, <5>1
      <4>2. a + j \in Nat
        BY <4>0
      <4>3. QED
        BY <4>0, <4>1, <4>2, FieldKept
    <3>4. mem'[a + 4 * F] = mem[a + 4 * F]
      BY <1>3, <3>2
    <3>5. a + 0 = a
      BY <3>1
    <3>6. /\ Field(mem, a) = Little(added[i + 1].start)
          /\ Field(mem, a + FieldSize) = Little(added[i + 1].size)
          /\ TypeOf(mem, i) = added[i + 1].type
          /\ (CmdlineOf(mem, i) = 0) = ~HasCmdline(added[i + 1])
      BY <1>1, <1>10, <2>3 DEF TableIntact, a
    <3>7. /\ Field(mem', a) = Field(mem, a)
          /\ Field(mem', a + FieldSize) = Field(mem, a + FieldSize)
          /\ Word(mem', a + 2 * FieldSize) = Word(mem, a + 2 * FieldSize)
      BY <3>3, <3>5 DEF Word
    <3>8. QED
      BY <3>1, <3>4, <3>6, <3>7 DEF TypeOf, CmdlineOf, a
  <2>4. QED
    BY <1>2, <2>1, <2>2, <2>3
<1>15. TableIntact'
  BY <1>14 DEF TableIntact, HasCmdline
<1>16. ModAddr(hdr.module_count)' <= Limit
  BY <1>2, <1>5, <1>9 DEF ModAddr
<1>17. QED
  BY <1>7, <1>15, <1>16 DEF TableInv

\* The other calls of the library leave the table alone.
LEMMA TableNextInv == TableInv /\ [Next]_vars => TableInv'
<1> SUFFICES ASSUME TableInv, [Next]_vars PROVE TableInv'
  OBVIOUS
<1>1. ASSUME NEW entry_point \in Tables, bcbp_init(entry_point)
      PROVE  TableInv'
  <2>1. hdr' = [magic |-> TRUE, module_count |-> 0, modules |-> Base + HeaderSize,
                entry_point |-> entry_point, acpi_rsdp |-> 0, smbios |-> 0,
                framebuffer |-> 0]
    BY <1>1 DEF bcbp_init, NoHeader
  <2>2. entry_point \in Nat /\ Base + HeaderSize \in Nat
    BY <1>1, BloodChainAssumption DEF BloodChainAssumption
  <2>3. hdr' \in HeaderType /\ hdr'.module_count = 0 /\ hdr'.modules = Base + HeaderSize
          /\ hdr'.magic
    BY <2>1, <2>2 DEF HeaderType
  <2>4. TypeOK'
    BY <1>1, <2>3 DEF bcbp_init, TableInv, TypeOK
  <2>5. QED
    BY <2>3, <2>4 DEF TableInv, TableIntact, Indices
<1>2. ASSUME NEW x \in ModuleArgs, bcbp_add_module(x)
      PROVE  TableInv'
  <2>1. CASE Refused(x)
    <3>1. UNCHANGED vars
      BY <1>2, <2>1 DEF bcbp_add_module
    <3>2. QED
      BY <3>1 DEF vars, TableInv, TypeOK, TableIntact, Indices, ModAddr,
                  StartOf, SizeOf, TypeOf, CmdlineOf
  <2>2. CASE ~Refused(x)
    BY <1>2, <2>2, AddInv DEF bcbp_add_module
  <2>3. QED
    BY <2>1, <2>2
<1>3. ASSUME NEW field \in Fields, NEW address \in Tables, bcbp_set(field, address)
      PROVE  TableInv'
  <2>1. hdr \in HeaderType /\ address \in Nat
    BY BloodChainAssumption DEF BloodChainAssumption, TableInv, TypeOK
  <2>2. /\ hdr' \in HeaderType /\ hdr'.magic = hdr.magic
        /\ hdr'.module_count = hdr.module_count /\ hdr'.modules = hdr.modules
    BY <1>3, <2>1 DEF bcbp_set, HeaderType, Fields
  <2>3. UNCHANGED <<mem, added>>
    BY <1>3 DEF bcbp_set
  <2>4. QED
    BY <2>2, <2>3 DEF TableInv, TypeOK, TableIntact, Indices, ModAddr,
                      StartOf, SizeOf, TypeOf, CmdlineOf
<1>4. CASE UNCHANGED vars
  BY <1>4 DEF vars, TableInv, TypeOK, TableIntact, Indices, ModAddr,
              StartOf, SizeOf, TypeOf, CmdlineOf
<1>5. QED
  BY <1>1, <1>2, <1>3, <1>4 DEF Next

\* The inductive invariant holds always.
THEOREM TableInvariant == Spec => []TableInv
  BY TableInitInv, TableNextInv, PTL DEF Spec

\* Memory stays bytes, and the header counts exactly the modules accepted, with
\* addresses and sizes of 64 bits.
THEOREM TypeCorrect == Spec => []TypeOK
<1>1. TableInv => TypeOK
  BY DEF TableInv
<1>2. QED
  BY <1>1, TableInvariant, PTL

\* Whatever modules are added, with names and command lines of any length, every
\* entry of the table keeps the address, size and type it was given.
THEOREM TableStaysIntact == Spec => []TableIntact
<1>1. TableInv => TableIntact
  BY DEF TableInv
<1>2. QED
  BY <1>1, TableInvariant, PTL

-----------------------------------------------------------------------------
(* The strings *)

\* The string s and its NUL lie at a.
Reads(m, a, s) == m[a + Len(s)] = 0 /\ \A k \in 1..Len(s) : m[a + k - 1] = s[k]

\* The module added last, and the NUL behind all that was written for it.
Newest == added[hdr.module_count]
NewestName == NameOf(mem, hdr.module_count - 1)
NewestCmdline == CmdlineOf(mem, hdr.module_count - 1)
LastNul == IF HasCmdline(Newest) THEN NewestCmdline + Len(Newest.cmdline)
           ELSE NewestName + Len(Newest.name)

\* The inductive invariant: the strings of the newest module are whole, and
\* every pointer of the table is before the NUL that ends them.
StringsInv ==
  /\ ~hdr.magic => hdr.module_count = 0
  /\ hdr.module_count > 0 =>
       /\ Newest.name \in Strings
       /\ LastNul \in Cells /\ NewestName + Len(Newest.name) <= LastNul
       /\ \A q \in Pointers : q \in Cells /\ q <= LastNul
       /\ Reads(mem, NewestName, Newest.name)
       /\ HasCmdline(Newest) => Reads(mem, NewestCmdline, Newest.cmdline)

\* strlen stops at the first NUL, so at no later one than is known.
LEMMA EndsAtNul ==
  ASSUME NEW m \in [Cells -> Bytes], NEW a \in Cells, NEW z \in Cells, a <= z, m[z] = 0
  PROVE  /\ EndOf(m, a) \in Nat /\ a < EndOf(m, a) /\ EndOf(m, a) <= z + 1
         /\ m[EndOf(m, a) - 1] = 0 /\ \A y \in a..(EndOf(m, a) - 2) : m[y] # 0
<1> DEFINE T == {b \in Cells : b >= a /\ m[b] = 0}
           Nul(b) == b >= a /\ m[b] = 0 /\ \A y \in a..(b - 1) : m[y] # 0
           c == CHOOSE b \in Cells : Nul(b)
<1>1. Cells \subseteq Nat /\ \A b \in Cells : \A y \in a..(b - 1) : y \in Cells
  BY BloodChainAssumption DEF BloodChainAssumption, Cells, Numbers
<1>2. \E b \in Cells : Nul(b)
  <2>1. T \subseteq Nat /\ z \in T
    BY <1>1
  <2> HIDE DEF T
  <2>2. PICK b \in T : \A y \in T : b <= y
    BY <2>1, LeastElement
  <2>3. b \in Cells /\ b >= a /\ m[b] = 0
    BY DEF T
  <2>4. ASSUME NEW y \in a..(b - 1) PROVE m[y] # 0
    <3>1. y \in Cells /\ y >= a /\ ~(b <= y)
      BY <1>1, <2>3
    <3>2. QED
      BY <2>2, <3>1 DEF T
  <2>5. QED
    BY <2>3, <2>4
<1>3. c \in Cells /\ Nul(c)
  <2> HIDE DEF Nul
  <2>1. QED
    BY <1>2
<1>4. EndOf(m, a) = 1 + c
  BY DEF EndOf
<1> HIDE DEF c
<1>5. c \in Nat /\ a \in Nat /\ z \in Nat /\ c >= a
  BY <1>1, <1>3
<1>6. c <= z
  <2>1. ASSUME z < c PROVE FALSE
    <3>1. z \in a..(c - 1)
      BY <1>5, <2>1
    <3>2. QED
      BY <1>3, <3>1
  <2>2. QED
    BY <1>5, <2>1
<1>7. EndOf(m, a) - 1 = c /\ EndOf(m, a) - 2 = c - 1
  BY <1>4, <1>5
<1>8. QED
  BY <1>3, <1>4, <1>5, <1>6, <1>7

\* A string that lies in memory is what strlen and strcmp find there.
LEMMA ReadsString ==
  ASSUME NEW m \in [Cells -> Bytes], NEW a \in Cells, NEW s \in Strings,
         a + Len(s) \in Cells, Reads(m, a, s)
  PROVE  EndOf(m, a) = a + Len(s) + 1 /\ StringAt(m, a) = s
<1> DEFINE E == EndOf(m, a)
<1>1. /\ a \in Nat /\ Len(s) \in Nat /\ a <= a + Len(s)
      /\ \A k \in 1..Len(s) : s[k] \in 1..255
      /\ s = [k \in 1..Len(s) |-> s[k]]
  <2>1. a \in Nat
    BY BloodChainAssumption DEF BloodChainAssumption, Cells
  <2>2. s \in Seq(1..255)
    BY DEF Strings
  <2>3. /\ Len(s) \in Nat /\ \A k \in 1..Len(s) : s[k] \in 1..255
        /\ s = [k \in 1..Len(s) |-> s[k]]
    BY <2>2, LenProperties
  <2>4. QED
    BY <2>1, <2>3
<1>2. E \in Nat /\ a < E /\ E <= (a + Len(s)) + 1 /\ m[E - 1] = 0
  BY <1>1, EndsAtNul DEF Reads
<1> HIDE DEF E
<1>3. E = a + Len(s) + 1
  <2>1. ASSUME E # a + Len(s) + 1 PROVE FALSE
    <3>1. E - a \in 1..Len(s) /\ a + (E - a) - 1 = E - 1
      BY <1>1, <1>2, <2>1
    <3>2. m[E - 1] = s[E - a]
      BY <3>1 DEF Reads
    <3>3. s[E - a] \in 1..255
      BY <1>1, <3>1
    <3>4. s[E - a] = 0
      BY <1>2, <3>2, Zenon
    <3>5. QED
      BY <3>3, <3>4
  <2>2. QED
    BY <2>1
<1>4. E - a - 1 = Len(s)
  BY <1>1, <1>3
<1>5. StringAt(m, a) = [k \in 1..Len(s) |-> m[a + k - 1]]
  BY <1>4 DEF StringAt, E
<1>6. \A k \in 1..Len(s) : m[a + k - 1] = s[k]
  BY DEF Reads
<1>7. [k \in 1..Len(s) |-> m[a + k - 1]] = [k \in 1..Len(s) |-> s[k]]
  BY <1>6
<1>8. QED
  BY <1>1, <1>3, <1>5, <1>7 DEF E

\* A string that is written is there.
LEMMA PutReads ==
  ASSUME NEW m \in [Cells -> Bytes], NEW a \in Cells, NEW s \in Strings, a + Len(s) \in Cells
  PROVE  Reads(Put(m, a, Str(s)), a, s)
<1>1. /\ a \in Nat /\ Len(s) \in Nat
      /\ \A b \in a..(a + Len(s)) : b \in Cells
  BY BloodChainAssumption, LenProperties DEF BloodChainAssumption, Cells, Strings, Numbers
<1>2. /\ Str(s) \in Seq(Bytes) /\ Len(Str(s)) = Len(s) + 1
      /\ Str(s)[Len(s) + 1] = 0 /\ \A k \in 1..Len(s) : Str(s)[k] = s[k]
  BY StrType DEF Str, Strings
<1>3. ASSUME NEW k \in 1..(Len(s) + 1) PROVE Put(m, a, Str(s))[a + k - 1] = Str(s)[k]
  <2> DEFINE b == a + k - 1
  <2>1. b \in Cells /\ a <= b /\ b < a + Len(Str(s)) /\ b - a + 1 = k /\ a \in Int
    BY <1>1, <1>2
  <2> HIDE DEF b
  <2>2. Put(m, a, Str(s))[b] = Str(s)[b - a + 1]
    BY <1>2, <2>1, PutAt
  <2>3. QED
    BY <2>1, <2>2 DEF b
<1>4. Len(s) + 1 \in 1..(Len(s) + 1) /\ a + (Len(s) + 1) - 1 = a + Len(s)
  BY <1>1
<1>5. Put(m, a, Str(s))[a + Len(s)] = 0
  BY <1>2, <1>3, <1>4
<1>6. \A k \in 1..Len(s) : k \in 1..(Len(s) + 1)
  BY <1>1
<1>7. QED
  BY <1>2, <1>3, <1>5, <1>6 DEF Reads

\* A write behind a string leaves it.
LEMMA PutBehindReads ==
  ASSUME NEW m \in [Cells -> Bytes], NEW a \in Cells, NEW s \in Strings, a + Len(s) \in Cells,
         Reads(m, a, s), NEW c \in Nat, a + Len(s) < c, NEW t \in Seq(Bytes)
  PROVE  Reads(Put(m, c, t), a, s)
<1>1. /\ a \in Nat /\ Len(s) \in Nat
      /\ \A b \in a..(a + Len(s)) : b \in Cells /\ b < c
  BY BloodChainAssumption, LenProperties DEF BloodChainAssumption, Cells, Strings, Numbers
<1>2. \A b \in a..(a + Len(s)) : Put(m, c, t)[b] = m[b]
  BY <1>1, PutAt
<1>3. \A k \in 1..Len(s) : a + k - 1 \in a..(a + Len(s))
  BY <1>1
<1>4. a + Len(s) \in a..(a + Len(s))
  BY <1>1
<1>5. QED
  BY <1>2, <1>3, <1>4 DEF Reads

\* bcbp_add_module accepts x and puts its strings at p.
Adds(x, p) ==
  /\ x \in ModuleArgs /\ ~Refused(x)
  /\ p \in Ends \cap Cells /\ \A end \in Ends : end <= p
  /\ FitsIn(x, p) /\ StoreModule(x, p)
  /\ hdr' = [hdr EXCEPT !.module_count = @ + 1] /\ added' = Append(added, x)

\* The strings lie where the last writes put them.
LEMMA StoreModuleStrings ==
  ASSUME TableInv, NEW x, NEW p, Adds(x, p)
  PROVE  LET c == p + Len(x.name) + 1
         IN  /\ x.name \in Strings /\ p + Len(x.name) \in Cells /\ Reads(mem', p, x.name)
             /\ HasCmdline(x) => /\ x.cmdline \in Strings /\ c \in Cells
                                 /\ c + Len(x.cmdline) \in Cells /\ c <= c + Len(x.cmdline)
                                 /\ Reads(mem', c, x.cmdline)
<1> DEFINE c == p + Len(x.name) + 1
           cmdline == IF HasCmdline(x) THEN c ELSE 0
           first == ModAddr(hdr.module_count)
           e == EntryBytes(x, p, cmdline)
           m1 == Put(mem, first, e)
           m2 == Put(m1, p, Str(x.name))
<1>1. x \in ModuleArgs /\ ~Refused(x) /\ p \in Cells /\ FitsIn(x, p) /\ StoreModule(x, p) /\ TypeOK
  BY DEF Adds, TableInv
<1>2. /\ x \in ArgType /\ x.name \in Strings /\ Len(x.name) \in Nat
      /\ HasCmdline(x) => x.cmdline \in Strings /\ Len(x.cmdline) \in Nat
  BY <1>1, BloodChainAssumption DEF BloodChainAssumption, ArgType, Refused, HasCmdline, Strings
<1>3. /\ Base \in Nat /\ HeaderSize \in Nat /\ Limit \in Nat /\ p \in Nat
      /\ \A b \in Nat : p <= b /\ b < Limit => b \in Cells
      /\ mem \in [Cells -> Bytes]
  BY <1>1, BloodChainAssumption DEF BloodChainAssumption, Numbers, Cells, TypeOK
<1>4. /\ first \in Nat /\ p \in Numbers /\ cmdline \in Numbers
  <2>1. ModAddr(hdr.module_count + 1) \in Ends
    BY DEF Ends
  <2>2. p >= ModAddr(hdr.module_count + 1)
    <3>1. ModAddr(hdr.module_count + 1) <= p
      BY <2>1 DEF Adds
    <3>2. ModAddr(hdr.module_count + 1) \in Int
      BY <1>1, EntriesApart, BloodChainAssumption DEF BloodChainAssumption, ModAddr, TypeOK, HeaderType
    <3>3. QED
      BY <1>3, <3>1, <3>2
  <2>3. QED
    BY <1>1, <2>2, StoreModuleWrites
<1>5. e \in Seq(Bytes)
  BY <1>2, <1>4, EntryBytesAt
<1>6. Str(x.name) \in Seq(Bytes) /\ (HasCmdline(x) => Str(x.cmdline) \in Seq(Bytes))
  BY <1>2, StrType
<1>7. mem' = IF HasCmdline(x) THEN Put(m2, cmdline, Str(x.cmdline)) ELSE m2
  BY <1>1 DEF StoreModule
<1>8. /\ p + Len(x.name) \in Cells /\ c \in Nat /\ p + Len(x.name) < c
      /\ HasCmdline(x) => c \in Cells /\ c + Len(x.cmdline) \in Cells /\ c <= c + Len(x.cmdline)
  <2> DEFINE l == Len(x.name)
  <2>1. p \in Nat /\ l \in Nat /\ Limit \in Nat
    BY <1>2, <1>3
  <2>2. CASE HasCmdline(x)
    <3> DEFINE k == Len(x.cmdline)
    <3>1. k \in Nat /\ p + l + 1 + (k + 1) < Limit
      BY <1>1, <1>2, <2>2 DEF FitsIn
    <3> HIDE DEF k, l
    <3>2. /\ p + l \in Nat /\ p + l < Limit /\ p <= p + l /\ p + l < p + l + 1
          /\ p + l + 1 \in Nat /\ p + l + 1 < Limit /\ p <= p + l + 1
          /\ p + l + 1 + k \in Nat /\ p + l + 1 + k < Limit /\ p <= p + l + 1 + k
          /\ p + l + 1 <= p + l + 1 + k
      BY <2>1, <3>1
    <3>3. p + l \in Cells /\ p + l + 1 \in Cells /\ p + l + 1 + k \in Cells
      BY <1>3, <3>2
    <3>4. QED
      BY <3>2, <3>3 DEF k, l
  <2>3. CASE ~HasCmdline(x)
    <3>1. p + l + 1 + 0 < Limit
      BY <1>1, <2>3 DEF FitsIn
    <3> HIDE DEF l
    <3>2. /\ p + l \in Nat /\ p + l < Limit /\ p <= p + l
          /\ p + l < p + l + 1 /\ p + l + 1 \in Nat
      BY <2>1, <3>1
    <3>3. p + l \in Cells
      BY <1>3, <3>2
    <3>4. QED
      BY <2>3, <3>2, <3>3 DEF l
  <2>4. QED
    BY <2>2, <2>3
<1> HIDE DEF e, m1, m2, first, c
<1>9. m1 \in [Cells -> Bytes] /\ m2 \in [Cells -> Bytes]
  BY <1>3, <1>4, <1>5, <1>6, PutType DEF m1, m2
<1>10. Reads(m2, p, x.name)
  BY <1>1, <1>2, <1>8, <1>9, PutReads DEF m2
<1>11. CASE HasCmdline(x)
  <2>1. mem' = Put(m2, c, Str(x.cmdline))
    BY <1>7, <1>11
  <2>2. Reads(mem', p, x.name)
    BY <1>1, <1>2, <1>6, <1>8, <1>9, <1>10, <1>11, <2>1, PutBehindReads
  <2>3. Reads(mem', c, x.cmdline)
    BY <1>2, <1>8, <1>9, <1>11, <2>1, PutReads
  <2>4. QED
    BY <1>2, <1>8, <1>11, <2>2, <2>3 DEF c
<1>12. CASE ~HasCmdline(x)
  BY <1>2, <1>7, <1>8, <1>10, <1>12 DEF c
<1>13. QED
  BY <1>11, <1>12

\* The pointers of the new entry are to its strings; those of the others stay.
LEMMA StoreModulePointers ==
  ASSUME TableInv, NEW x, NEW p, Adds(x, p)
  PROVE  /\ NewestName' = p
         /\ NewestCmdline' = IF HasCmdline(x) THEN p + Len(x.name) + 1 ELSE 0
         /\ \A i \in Indices : /\ NameOf(mem, i)' = NameOf(mem, i)
                               /\ CmdlineOf(mem, i)' = CmdlineOf(mem, i)
<1> DEFINE n == hdr.module_count
           F == FieldSize
           first == ModAddr(n)
           cmdline == IF HasCmdline(x) THEN p + Len(x.name) + 1 ELSE 0
           e == EntryBytes(x, p, cmdline)
<1>1. x \in ModuleArgs /\ ~Refused(x) /\ p \in Cells /\ FitsIn(x, p) /\ StoreModule(x, p) /\ TypeOK
  BY DEF Adds, TableInv
<1>2. /\ hdr \in HeaderType /\ n \in Nat /\ hdr.magic /\ hdr.modules = Base + HeaderSize
      /\ hdr'.modules = hdr.modules
  BY <1>1 DEF TypeOK, HeaderType, Refused, Adds
<1>3. /\ Base \in Nat /\ HeaderSize \in Nat /\ Limit \in Nat /\ p \in Nat /\ p < Limit
      /\ F \in Nat /\ EntrySize \in Nat /\ EntrySize > 4 * F
      /\ \A b \in Nat : Base + HeaderSize <= b /\ b < p => b \in Cells
  BY <1>1, BloodChainAssumption DEF BloodChainAssumption, Numbers, Cells
<1>4. p >= ModAddr(n + 1)
  <2>1. ModAddr(n + 1) <= p
    BY DEF Ends, Adds
  <2>2. ModAddr(n + 1) \in Int
    BY <1>2, <1>3, EntriesApart DEF ModAddr
  <2>3. QED
    BY <1>3, <2>1, <2>2
<1>5. /\ first \in Nat /\ first + EntrySize <= p /\ first >= Base + HeaderSize
      /\ p \in Numbers /\ cmdline \in Numbers
      /\ \A b \in Cells : b < first => mem'[b] = mem[b]
      /\ \A k \in 1..Len(e) : mem'[first + k - 1] = e[k]
  BY <1>1, <1>4, StoreModuleWrites
<1>6. \A i \in Nat : ModAddr(i)' = ModAddr(i)
  BY <1>2 DEF ModAddr
<1>7. /\ Len(e) = 4 * F + 1
      /\ \A k \in 1..F : /\ e[2 * F + k] = Little(cmdline)[k]
                        /\ e[3 * F + k] = Little(p)[k]
      /\ Little(cmdline) \in Seq(Bytes) /\ Len(Little(cmdline)) = F /\ Number(Little(cmdline)) = cmdline
      /\ Little(p) \in Seq(Bytes) /\ Len(Little(p)) = F /\ Number(Little(p)) = p
  <2>1. x \in ArgType
    BY <1>1, BloodChainAssumption DEF BloodChainAssumption
  <2> HIDE DEF cmdline
  <2>2. QED
    BY <1>5, <2>1, EntryBytesAt, LittleWord
<1> HIDE DEF e, cmdline, first
<1>8. /\ Word(mem', first + 2 * F) = cmdline
      /\ Word(mem', first + 3 * F) = p
  <2>1. 2 * F \in Nat /\ 3 * F \in Nat /\ F \in Nat
    BY <1>3
  <2>2. ASSUME NEW j \in {2 * F, 3 * F}, NEW k \in 1..F
        PROVE  mem'[first + j + k - 1] = e[j + k]
    <3>1. first \in Nat /\ Len(e) = 4 * F + 1
      BY <1>5, <1>7
    <3>2. j + k \in 1..Len(e) /\ first + (j + k) - 1 = first + j + k - 1
      BY <2>1, <3>1
    <3>3. QED
      BY <1>5, <3>2
  <2>3. first + 2 * F \in Nat /\ first + 3 * F \in Nat
    BY <1>5, <2>1
  <2>4. Field(mem', first + 2 * F) = Little(cmdline)
    <3>1. \A k \in 1..F : mem'[first + 2 * F + k - 1] = Little(cmdline)[k]
      BY <1>7, <2>2
    <3>2. Little(cmdline) \in Seq(Bytes) /\ Len(Little(cmdline)) = F
      BY <1>7
    <3>3. QED
      BY <2>3, <3>1, <3>2, FieldIs
  <2>5. Field(mem', first + 3 * F) = Little(p)
    <3>1. \A k \in 1..F : mem'[first + 3 * F + k - 1] = Little(p)[k]
      BY <1>7, <2>2
    <3>2. Little(p) \in Seq(Bytes) /\ Len(Little(p)) = F
      BY <1>7
    <3>3. QED
      BY <2>3, <3>1, <3>2, FieldIs
  <2>6. QED
    BY <1>7, <2>4, <2>5 DEF Word
<1>9. ASSUME NEW i \in Indices, NEW j \in {2 * F, 3 * F}
      PROVE  Word(mem', ModAddr(i) + j) = Word(mem, ModAddr(i) + j)
  <2>1. i \in Nat /\ i < n
    BY <1>2 DEF Indices
  <2>2. ModAddr(i) \in Nat /\ ModAddr(i) >= Base + HeaderSize /\ ModAddr(i) + EntrySize <= first
    <3>1. i * EntrySize \in Nat
            /\ Base + HeaderSize + i * EntrySize + EntrySize <= Base + HeaderSize + n * EntrySize
      BY <1>2, <1>3, <2>1, EntriesApart
    <3>2. ModAddr(i) = Base + HeaderSize + i * EntrySize /\ first = Base + HeaderSize + n * EntrySize
      BY <1>2 DEF ModAddr, first
    <3>3. QED
      BY <1>3, <3>1, <3>2
  <2>3. j \in Nat /\ j + F <= EntrySize /\ F \in Nat /\ F = FieldSize
    BY <1>3
  <2> HIDE DEF F
  <2>4. ASSUME NEW b \in (ModAddr(i) + j)..(ModAddr(i) + j + F - 1) PROVE mem'[b] = mem[b]
    <3>1. b \in Nat /\ b >= Base + HeaderSize /\ b < first /\ b < p
      BY <1>3, <1>5, <2>2, <2>3
    <3>2. QED
      BY <1>3, <1>5, <3>1
  <2>5. ModAddr(i) + j \in Nat
    BY <2>2, <2>3
  <2>6. QED
    BY <2>3, <2>4, <2>5, FieldKept DEF Word
<1>10. \A i \in Indices : i \in Nat
  BY <1>2 DEF Indices
<1>11. ASSUME NEW i \in Indices
       PROVE  NameOf(mem, i)' = NameOf(mem, i) /\ CmdlineOf(mem, i)' = CmdlineOf(mem, i)
  BY <1>6, <1>9, <1>10 DEF NameOf, CmdlineOf
<1>12. NewestName' = Word(mem', first + 3 * F) /\ NewestCmdline' = Word(mem', first + 2 * F)
  <2>1. hdr'.module_count - 1 = n
    BY <1>2 DEF Adds, HeaderType
  <2> DEFINE a == hdr'.modules + n * EntrySize
  <2>2. /\ NewestName' = Word(mem', a + 3 * F)
        /\ NewestCmdline' = Word(mem', a + 2 * F)
    BY <2>1 DEF NewestName, NewestCmdline, NameOf, CmdlineOf, ModAddr
  <2>3. a = first
    BY <1>2 DEF ModAddr, first
  <2> HIDE DEF a
  <2>4. QED
    BY <2>2, <2>3
<1>13. QED
  BY <1>8, <1>11, <1>12 DEF cmdline

\* What the invariant says of the newest module's strings, read with strlen.
NewestTop == IF HasCmdline(Newest) THEN NewestCmdline ELSE NewestName

\* Every strlen over a pointer of the table stops by the end of the newest string.
LEMMA NewestStrings ==
  ASSUME TableInv, StringsInv, hdr.module_count > 0
  PROVE  /\ LastNul \in Cells /\ mem[LastNul] = 0
         /\ NewestTop \in Pointers /\ EndOf(mem, NewestTop) = LastNul + 1
         /\ \A q \in Pointers : /\ q \in Cells /\ q <= LastNul
                                /\ EndOf(mem, q) \in Nat /\ q < EndOf(mem, q)
                                /\ EndOf(mem, q) <= LastNul + 1
         /\ StringAt(mem, NewestName) = Newest.name
         /\ HasCmdline(Newest) => StringAt(mem, NewestCmdline) = Newest.cmdline
         /\ HasCmdline(Newest) = (NewestCmdline # 0)
<1> DEFINE n == hdr.module_count
           x == Newest
<1>1. /\ n \in Nat /\ n > 0 /\ n = Len(added) /\ added \in Seq(ModuleArgs)
      /\ mem \in [Cells -> Bytes] /\ TableIntact
  BY DEF TableInv, TypeOK, HeaderType
<1>2. n - 1 \in Indices /\ (n - 1) + 1 = n
  BY <1>1 DEF Indices
<1>3. x \in ArgType
  <2>1. added[n] \in ModuleArgs
    BY <1>1
  <2>2. QED
    BY <2>1, BloodChainAssumption DEF BloodChainAssumption, Newest
<1>4. HasCmdline(x) = (NewestCmdline # 0)
  <2>1. (CmdlineOf(mem, n - 1) = 0) = ~HasCmdline(added[(n - 1) + 1])
    BY <1>1, <1>2 DEF TableIntact
  <2>2. added[(n - 1) + 1] = x
    BY <1>2 DEF Newest
  <2>3. CmdlineOf(mem, n - 1) = NewestCmdline
    BY DEF NewestCmdline
  <2>4. (NewestCmdline = 0) = ~HasCmdline(x)
    BY <2>1, <2>2, <2>3
  <2>5. QED
    BY <2>4 DEF HasCmdline
<1>5. HasCmdline(x) => x.cmdline \in Strings
  BY <1>3 DEF ArgType, HasCmdline
<1>6. /\ x.name \in Strings /\ LastNul \in Cells /\ NewestName + Len(x.name) <= LastNul
      /\ \A q \in Pointers : q \in Cells /\ q <= LastNul
      /\ Reads(mem, NewestName, x.name)
      /\ HasCmdline(x) => Reads(mem, NewestCmdline, x.cmdline)
  BY DEF StringsInv
<1>7. NewestName \in Pointers /\ (HasCmdline(x) => NewestCmdline \in Pointers)
  BY <1>2, <1>4 DEF Pointers, NewestName, NewestCmdline
<1> HIDE DEF n, x
<1>8. /\ NewestName + Len(x.name) \in Cells
      /\ EndOf(mem, NewestName) = NewestName + Len(x.name) + 1
      /\ StringAt(mem, NewestName) = x.name
  <2>1. NewestName \in Cells /\ Len(x.name) \in Nat
    BY <1>6, <1>7, LenProperties DEF Strings
  <2>2. NewestName + Len(x.name) \in Cells
    <3>1. /\ Cells = (Base + HeaderSize)..(Limit - 1)
          /\ Base + HeaderSize \in Nat /\ Limit \in Nat
      BY BloodChainAssumption DEF BloodChainAssumption, Cells, Numbers
    <3> DEFINE l == Len(x.name)
               low == Base + HeaderSize
    <3>2. /\ l \in Nat /\ low \in Nat /\ NewestName \in low..(Limit - 1)
          /\ LastNul \in low..(Limit - 1) /\ NewestName + l <= LastNul
      BY <1>6, <2>1, <3>1
    <3> HIDE DEF l, low
    <3>3. NewestName + l \in low..(Limit - 1)
      BY <3>1, <3>2
    <3>4. QED
      BY <3>1, <3>3 DEF l, low
  <2>3. QED
    BY <1>1, <1>6, <2>1, <2>2, ReadsString
<1>9. CASE HasCmdline(x)
  <2>1. LastNul = NewestCmdline + Len(x.cmdline) /\ NewestTop = NewestCmdline
    BY <1>9 DEF LastNul, NewestTop, x
  <2>2. /\ EndOf(mem, NewestCmdline) = NewestCmdline + Len(x.cmdline) + 1
        /\ StringAt(mem, NewestCmdline) = x.cmdline
    BY <1>1, <1>5, <1>6, <1>7, <1>9, <2>1, ReadsString
  <2>3. mem[LastNul] = 0
    BY <1>6, <1>9, <2>1 DEF Reads
  <2>4. \A q \in Pointers : /\ EndOf(mem, q) \in Nat /\ q < EndOf(mem, q)
                            /\ EndOf(mem, q) <= LastNul + 1
    BY <1>1, <1>6, <2>3, EndsAtNul
  <2>5. QED
    BY <1>4, <1>6, <1>7, <1>8, <1>9, <2>1, <2>2, <2>3, <2>4 DEF x
<1>10. CASE ~HasCmdline(x)
  <2>1. LastNul = NewestName + Len(x.name) /\ NewestTop = NewestName
    BY <1>10 DEF LastNul, NewestTop, x
  <2>2. mem[LastNul] = 0
    BY <1>6, <2>1 DEF Reads
  <2>3. \A q \in Pointers : /\ EndOf(mem, q) \in Nat /\ q < EndOf(mem, q)
                            /\ EndOf(mem, q) <= LastNul + 1
    BY <1>1, <1>6, <2>2, EndsAtNul
  <2>4. QED
    BY <1>4, <1>6, <1>7, <1>8, <1>10, <2>1, <2>2, <2>3 DEF x
<1>11. QED
  BY <1>9, <1>10

\* A module that is added is the newest, and every pointer is before its last NUL.
LEMMA StringsAddInv ==
  ASSUME TableInv, StringsInv, NEW x, NEW p, Adds(x, p)
  PROVE  StringsInv'
<1> DEFINE n == hdr.module_count
           c == p + Len(x.name) + 1
           last == IF HasCmdline(x) THEN c + Len(x.cmdline) ELSE p + Len(x.name)
<1>1. /\ n \in Nat /\ n = Len(added) /\ added \in Seq(ModuleArgs) /\ hdr.magic
      /\ hdr'.module_count = n + 1 /\ hdr'.magic /\ added' = Append(added, x)
      /\ x \in ModuleArgs /\ p \in Cells
  BY DEF Adds, TableInv, TypeOK, HeaderType, Refused
<1>2. Newest' = x
  BY <1>1 DEF Newest
<1>3. NewestName' = p /\ NewestCmdline' = IF HasCmdline(x) THEN c ELSE 0
  BY StoreModulePointers
<1>4. /\ x.name \in Strings /\ p + Len(x.name) \in Cells /\ Reads(mem', p, x.name)
      /\ HasCmdline(x) => /\ x.cmdline \in Strings /\ c \in Cells
                          /\ c + Len(x.cmdline) \in Cells /\ c <= c + Len(x.cmdline)
                          /\ Reads(mem', c, x.cmdline)
  BY StoreModuleStrings
<1>5. p \in Nat /\ Len(x.name) \in Nat /\ (HasCmdline(x) => Len(x.cmdline) \in Nat)
        /\ Cells \subseteq Nat
  BY <1>1, <1>4, LenProperties, BloodChainAssumption
  DEF BloodChainAssumption, Cells, Strings, Numbers
<1>6. LastNul' = last
  BY <1>2, <1>3 DEF LastNul, HasCmdline
<1>7. last \in Cells /\ p + Len(x.name) <= last /\ p <= last /\ (HasCmdline(x) => c <= last)
  <2> DEFINE l == Len(x.name)
             k == Len(x.cmdline)
  <2>1. CASE HasCmdline(x)
    <3>1. c + k \in Cells /\ last = c + k /\ c = p + l + 1 /\ p \in Nat /\ l \in Nat /\ k \in Nat
      BY <1>4, <1>5, <2>1
    <3> HIDE DEF l, k, c, last
    <3>2. last \in Cells /\ p + l <= last /\ p <= last /\ c <= last
      BY <3>1
    <3>3. QED
      BY <3>2 DEF l
  <2>2. CASE ~HasCmdline(x)
    <3>1. p + l \in Cells /\ last = p + l /\ p \in Nat /\ l \in Nat
      BY <1>4, <1>5, <2>2
    <3> HIDE DEF l, k, last
    <3>2. QED
      BY <2>2, <3>1 DEF l
  <2>3. QED
    BY <2>1, <2>2
<1>8. ASSUME NEW q \in Pointers PROVE q \in Cells /\ q <= last
  <2>1. n > 0
    BY <1>1 DEF Pointers, Indices
  <2>2. /\ q \in Cells /\ q <= LastNul /\ LastNul \in Cells
        /\ NewestTop \in Pointers /\ EndOf(mem, NewestTop) = LastNul + 1
    BY <2>1, NewestStrings
  <2>3. LastNul + 1 <= p
    BY <2>2 DEF Adds, Ends
  <2> HIDE DEF last
  <2>4. q \in Nat /\ LastNul \in Nat /\ last \in Nat
    BY <1>5, <1>7, <2>2
  <2>5. QED
    BY <1>5, <1>7, <2>2, <2>3, <2>4
<1>9. \A i \in Indices : NameOf(mem, i)' = NameOf(mem, i) /\ CmdlineOf(mem, i)' = CmdlineOf(mem, i)
  BY StoreModulePointers
<1>10. \A i \in Indices' : i \in Indices \/ i = hdr'.module_count - 1
  BY <1>1 DEF Indices
<1>11. ASSUME NEW q \in Pointers' PROVE q \in Cells /\ q <= last
  <2>0. (NameOf(mem, hdr.module_count - 1))' = NewestName' /\ (CmdlineOf(mem, hdr.module_count - 1))' = NewestCmdline'
    BY DEF NewestName, NewestCmdline
  <2>1. CASE \E i \in Indices' : q = NameOf(mem, i)'
    <3>1. PICK i \in Indices' : q = NameOf(mem, i)'
      BY <2>1
    <3>2. CASE i \in Indices
      BY <1>8, <1>9, <3>1, <3>2 DEF Pointers
    <3>3. CASE i = hdr'.module_count - 1
      <4>1. q = NewestName'
        BY <3>1, <3>3 DEF NewestName, NameOf, ModAddr
      <4>2. QED
        BY <1>1, <1>3, <1>7, <4>1
    <3>4. QED
      BY <1>10, <3>2, <3>3
  <2>2. CASE q # 0 /\ \E i \in Indices' : q = CmdlineOf(mem, i)'
    <3>1. PICK i \in Indices' : q = CmdlineOf(mem, i)'
      BY <2>2
    <3>2. CASE i \in Indices
      BY <1>8, <1>9, <2>2, <3>1, <3>2 DEF Pointers
    <3>3. CASE i = hdr'.module_count - 1
      <4>1. q = NewestCmdline'
        BY <3>1, <3>3 DEF NewestCmdline, CmdlineOf, ModAddr
      <4>2. HasCmdline(x) /\ q = c
        BY <1>3, <2>2, <4>1
      <4>3. QED
        BY <1>4, <1>7, <4>2
    <3>4. QED
      BY <1>10, <3>2, <3>3
  <2>3. QED
    BY <2>1, <2>2 DEF Pointers
<1> HIDE DEF last, c
<1>12. QED
  BY <1>1, <1>2, <1>3, <1>4, <1>6, <1>7, <1>11 DEF StringsInv, HasCmdline

\* Before bcbp_init there is no string.
LEMMA StringsInitInv == Init => StringsInv
  BY DEF Init, NoHeader, StringsInv

\* A call that is accepted is one that adds a module at some str_ptr.
LEMMA AddsSomewhere ==
  ASSUME NEW x \in ModuleArgs, bcbp_add_module(x), ~Refused(x)
  PROVE  \E p \in Ends \cap Cells : Adds(x, p)
  BY DEF bcbp_add_module, Adds

\* The other calls of the library leave the strings alone.
LEMMA StringsNextInv == TableInv /\ StringsInv /\ [Next]_vars => StringsInv'
<1> SUFFICES ASSUME TableInv, StringsInv, [Next]_vars PROVE StringsInv'
  OBVIOUS
<1>1. ASSUME NEW entry_point \in Tables, bcbp_init(entry_point)
      PROVE  StringsInv'
  <2>1. hdr'.magic /\ hdr'.module_count = 0
    BY <1>1 DEF bcbp_init, NoHeader
  <2>2. QED
    BY <2>1 DEF StringsInv
<1>2. ASSUME UNCHANGED <<mem, added>>, hdr'.magic = hdr.magic,
             hdr'.module_count = hdr.module_count, hdr'.modules = hdr.modules
      PROVE  StringsInv'
  BY <1>2 DEF StringsInv, LastNul, NewestName, NewestCmdline, Newest, Pointers, Indices,
              NameOf, CmdlineOf, ModAddr
<1>3. ASSUME NEW x \in ModuleArgs, bcbp_add_module(x)
      PROVE  StringsInv'
  <2>1. CASE Refused(x)
    BY <1>2, <1>3, <2>1 DEF bcbp_add_module, vars
  <2>2. CASE ~Refused(x)
    <3>1. PICK p \in Ends \cap Cells : Adds(x, p)
      BY <1>3, <2>2, AddsSomewhere
    <3>2. QED
      BY <3>1, StringsAddInv
  <2>3. QED
    BY <2>1, <2>2
<1>4. ASSUME NEW field \in Fields, NEW address \in Tables, bcbp_set(field, address)
      PROVE  StringsInv'
  <2>1. hdr \in HeaderType
    BY DEF TableInv, TypeOK
  <2>2. /\ hdr'.magic = hdr.magic /\ hdr'.module_count = hdr.module_count
        /\ hdr'.modules = hdr.modules
    BY <1>4, <2>1 DEF bcbp_set, HeaderType, Fields
  <2>3. QED
    BY <1>2, <1>4, <2>2 DEF bcbp_set
<1>5. CASE UNCHANGED vars
  BY <1>2, <1>5 DEF vars
<1>6. QED
  BY <1>1, <1>3, <1>4, <1>5 DEF Next

\* Both invariants hold always.
THEOREM StringsInvariant == Spec => [](TableInv /\ StringsInv)
  BY TableInitInv, TableNextInv, StringsInitInv, StringsNextInv, PTL DEF Spec

\* Of all the strings behind the table, none that the library can reach runs on
\* past the end of the module added last.
THEOREM StringsSafe == Spec => []StringsEndByNewest
<1>1. TableInv /\ StringsInv => StringsEndByNewest
  <2> SUFFICES ASSUME TableInv, StringsInv, hdr.module_count > 0
               PROVE  LET top == IF NewestCmdline = 0 THEN NewestName ELSE NewestCmdline
                      IN  \A p \in Pointers : /\ \E b \in Cells : b >= p /\ mem[b] = 0
                                              /\ EndOf(mem, p) <= EndOf(mem, top)
    BY DEF StringsEndByNewest, NewestName, NewestCmdline
  <2> DEFINE top == IF NewestCmdline = 0 THEN NewestName ELSE NewestCmdline
  <2>1. top = NewestTop
    BY NewestStrings DEF NewestTop
  <2>2. LastNul \in Cells /\ mem[LastNul] = 0 /\ EndOf(mem, NewestTop) = LastNul + 1
    BY NewestStrings
  <2>3. Cells \subseteq Int
    BY BloodChainAssumption DEF BloodChainAssumption, Cells, Numbers
  <2>4. ASSUME NEW p \in Pointers
        PROVE  /\ \E b \in Cells : b >= p /\ mem[b] = 0
               /\ EndOf(mem, p) <= EndOf(mem, NewestTop)
    <3>1. p \in Cells /\ p <= LastNul /\ EndOf(mem, p) <= LastNul + 1
      BY NewestStrings
    <3>2. LastNul >= p
      BY <2>2, <2>3, <3>1
    <3>3. QED
      BY <2>2, <3>1, <3>2
  <2>5. QED
    BY <2>1, <2>4
<1>2. QED
  BY <1>1, StringsInvariant, PTL

\* The module added last is found under its name and reads as it was given,
\* however long the strings and whatever was added before.
THEOREM NewestSafe == Spec => []NewestReadable
<1>1. TableInv /\ StringsInv => NewestReadable
  <2> SUFFICES ASSUME TableInv, StringsInv, hdr.module_count > 0
               PROVE  /\ StringAt(mem, NewestName) = Newest.name
                      /\ HasCmdline(Newest) => StringAt(mem, NewestCmdline) = Newest.cmdline
                      /\ bcbp_find_module(Newest.name) # NULL
    BY DEF NewestReadable, NewestName, NewestCmdline, Newest
  <2> DEFINE n == hdr.module_count
             found == {i \in Indices : StringAt(mem, NameOf(mem, i)) = Newest.name}
  <2>1. /\ StringAt(mem, NewestName) = Newest.name
        /\ HasCmdline(Newest) => StringAt(mem, NewestCmdline) = Newest.cmdline
    BY NewestStrings
  <2>2. /\ n \in Nat /\ n > 0 /\ hdr.magic /\ ModAddr(n) <= Limit
        /\ hdr.modules = Base + HeaderSize
    BY DEF TableInv, TypeOK, HeaderType, StringsInv
  <2>3. n - 1 \in found
    BY <2>1, <2>2 DEF Indices, NewestName
  <2>4. found \subseteq Indices /\ found \subseteq Nat /\ found # {}
    BY <2>2, <2>3 DEF Indices
  <2>5. Indices \subseteq Numbers
    <3>1. ASSUME NEW i \in Indices PROVE i \in Numbers
      <4>1. i \in Nat /\ i < n /\ Limit \in Nat /\ Limit \in Numbers
            /\ EntrySize \in Nat /\ EntrySize >= 1 /\ Base + HeaderSize \in Nat
        BY <2>2, BloodChainAssumption DEF BloodChainAssumption, Indices, Numbers
      <4> DEFINE low == Base + HeaderSize
      <4>2. low + n * EntrySize <= Limit
        BY <2>2 DEF ModAddr
      <4>3. n <= n * EntrySize
        <5>1. EntrySize - 1 \in Nat /\ n \in Nat
          BY <2>2, <4>1
        <5>2. n * (EntrySize - 1) \in Nat
          BY <5>1
        <5>3. n * EntrySize = n * (EntrySize - 1) + n
          BY <2>2, <4>1
        <5>4. QED
          BY <5>1, <5>2, <5>3
      <4>4. n * EntrySize \in Nat
        BY <2>2, <4>1
      <4> HIDE DEF low, n
      <4>5. i <= Limit
        BY <2>2, <4>1, <4>2, <4>3, <4>4 DEF low
      <4>6. QED
        BY <4>1, <4>5, NumbersBelow
    <3>2. QED
      BY <3>1
  <2> HIDE DEF found
  <2>6. \E i \in found : \A j \in found : i <= j
    BY <2>4, LeastElement
  <2> DEFINE i == CHOOSE i \in found : \A j \in found : i <= j
  <2>7. i \in found
    BY <2>6, Zenon
  <2>8. bcbp_find_module(Newest.name) = i
    BY <2>2, <2>4 DEF bcbp_find_module, found
  <2> HIDE DEF i
  <2>9. i # NULL
    BY <2>4, <2>5, <2>7, BloodChainAssumption DEF BloodChainAssumption
  <2>10. QED
    BY <2>1, <2>8, <2>9
<1>2. QED
  BY <1>1, StringsInvariant, PTL

\* The bytes a step changes outside the entry it adds are behind the table and
\* behind every string that can still be reached.
LEMMA FreshStep ==
  ASSUME TableInv, StringsInv, [Next]_vars
  PROVE  LET first == ModAddr(hdr.module_count)
             changed == {b \in Cells : mem'[b] # mem[b]} \ (first..(first + EntrySize - 1))
         IN  /\ \A b \in changed : b >= first
             /\ \A p \in Pointers : \A b \in changed : EndOf(mem, p) <= b
<1> DEFINE first == ModAddr(hdr.module_count)
           changed == {b \in Cells : mem'[b] # mem[b]} \ (first..(first + EntrySize - 1))
<1>1. CASE mem' = mem
  BY <1>1
<1>2. ASSUME NEW x \in ModuleArgs, bcbp_add_module(x), ~Refused(x)
      PROVE  \A b \in changed : b >= first /\ \A q \in Pointers : EndOf(mem, q) <= b
  <2>1. PICK p \in Ends \cap Cells : Adds(x, p)
    BY <1>2, AddsSomewhere
  <2>2. p \in Cells /\ FitsIn(x, p) /\ StoreModule(x, p) /\ \A end \in Ends : end <= p
    BY <2>1 DEF Adds
  <2>3. TypeOK /\ hdr.magic /\ hdr.module_count \in Nat /\ hdr.modules = Base + HeaderSize
    BY <1>2 DEF TableInv, TypeOK, HeaderType, Refused
  <2>4. Cells \subseteq Nat /\ EntrySize \in Nat /\ Base + HeaderSize \in Nat
    BY BloodChainAssumption DEF BloodChainAssumption, Cells, Numbers
  <2>5. p >= ModAddr(hdr.module_count + 1)
    <3>1. ModAddr(hdr.module_count + 1) <= p
      BY <2>2 DEF Ends
    <3>2. ModAddr(hdr.module_count + 1) \in Int
      BY <2>3, <2>4, EntriesApart DEF ModAddr
    <3>3. QED
      BY <2>2, <2>4, <3>1, <3>2
  <2>6. /\ first \in Nat /\ first + EntrySize <= p
        /\ \A b \in Cells : b < p /\ b \notin first..(first + EntrySize - 1) => mem'[b] = mem[b]
    BY <1>2, <2>2, <2>3, <2>5, StoreModuleWrites
  <2> HIDE DEF first
  <2>7. ASSUME NEW b \in changed PROVE b \in Nat /\ p \in Nat /\ p <= b
    BY <2>2, <2>4, <2>6
  <2> HIDE DEF changed
  <2>8. ASSUME NEW b \in changed PROVE b >= first
    BY <2>4, <2>6, <2>7
  <2>9. ASSUME NEW b \in changed, NEW q \in Pointers PROVE EndOf(mem, q) <= b
    <3>1. EndOf(mem, q) <= p
      BY <2>2 DEF Ends
    <3>2. EndOf(mem, q) \in Nat
      <4>1. hdr.module_count > 0
        BY <2>3 DEF Pointers, Indices
      <4>2. QED
        BY <4>1, NewestStrings
    <3>3. QED
      BY <2>7, <3>1, <3>2
  <2>10. QED
    BY <2>8, <2>9
<1>3. CASE \E x \in ModuleArgs : bcbp_add_module(x)
  <2>1. PICK x \in ModuleArgs : bcbp_add_module(x)
    BY <1>3
  <2>2. CASE Refused(x)
    BY <1>1, <2>1, <2>2 DEF bcbp_add_module, vars
  <2> HIDE DEF changed
  <2>3. QED
    BY <1>2, <2>1, <2>2 DEF changed
<1>4. CASE \E entry_point \in Tables : bcbp_init(entry_point)
  BY <1>1, <1>4 DEF bcbp_init
<1>5. CASE \E field \in Fields, address \in Tables : bcbp_set(field, address)
  BY <1>1, <1>5 DEF bcbp_set
<1>6. CASE UNCHANGED vars
  BY <1>1, <1>6 DEF vars
<1> HIDE DEF changed
<1>7. QED
  BY <1>3, <1>4, <1>5, <1>6 DEF Next

\* bcbp_add_module never writes into an earlier entry, nor into a string that
\* can still be reached.
THEOREM WritesFreshSafe == Spec => WritesFresh
<1>1. TableInv /\ StringsInv /\ [Next]_vars =>
        [LET first == ModAddr(hdr.module_count)
             changed == {b \in Cells : mem'[b] # mem[b]} \ (first..(first + EntrySize - 1))
         IN  /\ \A b \in changed : b >= first
             /\ \A p \in Pointers : \A b \in changed : EndOf(mem, p) <= b]_vars
  BY FreshStep
<1>2. QED
  BY <1>1, StringsInvariant, PTL DEF Spec, WritesFresh
-----------------------------------------------------------------------------
(* boot_bloodchain_wrapper *)

\* What the wrapper has added once it has been through both files.
BootAdded ==
  IF KernelSize = 0
  THEN IF InitrdSize = 0 THEN << >> ELSE <<InitrdModule(InitrdSize)>>
  ELSE IF InitrdSize = 0 THEN <<KernelModule(KernelSize)>>
       ELSE <<KernelModule(KernelSize), InitrdModule(InitrdSize)>>

\* Where the first module's strings are: behind the first entry, where the
\* second entry comes to lie.
FirstStrings == Base + HeaderSize + EntrySize

\* Each module's strings are right behind the table of its own time.
BootPointers ==
  /\ hdr.module_count > 0 => NameOf(mem, 0) = FirstStrings
  /\ KernelSize > 0 => CmdlineOf(mem, 0) = FirstStrings + Len(KernelName) + 1
  /\ hdr.module_count > 1 => NameOf(mem, 1) = FirstStrings + EntrySize

\* The calls that follow the kernel's.
AfterKernel == {"load_initrd", "acpi_rsdp", "smbios", "framebuffer", "validate", "exit", "kernel"}

BootInv ==
  /\ TableInv /\ StringsInv
  /\ KernelSize \in FileSizes \cup {0} /\ InitrdSize \in FileSizes \cup {0}
  /\ wrapper_pc \in {"allocate", "load_kernel", "load_initrd"} => InitrdSize = 0
  /\ wrapper_pc = "load_kernel" => hdr.magic /\ added = << >>
  /\ wrapper_pc = "load_initrd" => KernelSize \in FileSizes
  /\ wrapper_pc \in AfterKernel => hdr.magic /\ added = BootAdded /\ BootPointers
  /\ OwnTableAccepted

\* Rounding up to a page loses no byte.
LEMMA AlignUpHolds ==
  ASSUME NEW size \in Nat
  PROVE  ALIGN_UP(size) \in Nat /\ ALIGN_UP(size) >= size
<1> DEFINE s == size + Page - 1
           q == s \div Page
           r == s % Page
<1>1. Page \in Nat /\ Page > 0
  BY BloodChainBootAssumption DEF BloodChainBootAssumption, Numbers
<1>2. s \in Nat /\ q \in Nat /\ r \in Nat /\ r < Page /\ s = Page * q + r
  BY <1>1
<1> HIDE DEF q, r
<1>3. q * Page \in Nat /\ q * Page = Page * q
  BY <1>1, <1>2
<1>4. q * Page >= size
  BY <1>1, <1>2, <1>3
<1>5. QED
  BY <1>3, <1>4 DEF ALIGN_UP, q, s

\* The wrapper's modules are the library's, and none is refused for its name.
LEMMA BootModules ==
  ASSUME NEW size \in FileSizes
  PROVE  /\ KernelModule(size) \in ModuleArgs
         /\ KernelSize \in FileSizes => InitrdModule(size) \in ModuleArgs
         /\ KernelName \in Strings /\ InitrdName \in Strings /\ KernelCmdline \in Strings
         /\ HasCmdline(KernelModule(size)) /\ ~HasCmdline(InitrdModule(size))
         /\ KernelModule(size).name # NULL /\ InitrdModule(size).name # NULL
<1>1. /\ KernelName \in Strings /\ InitrdName \in Strings /\ KernelCmdline \in Strings
      /\ NULL \notin Strings
  BY BloodChainAssumption, BloodChainBootAssumption
  DEF BloodChainAssumption, BloodChainBootAssumption
<1>2. KernelModule(size) \in ModuleArgs
  BY WrapperAssumption DEF WrapperAssumption
<1>3. KernelSize \in FileSizes => InitrdModule(size) \in ModuleArgs
  BY WrapperAssumption DEF WrapperAssumption, InitrdModule, InitrdLoadAddr
<1>4. HasCmdline(KernelModule(size)) /\ ~HasCmdline(InitrdModule(size))
  BY <1>1, StringsAssumption
  DEF StringsAssumption, HasCmdline, KernelModule, InitrdModule, Module
<1>5. KernelModule(size).name # NULL /\ InitrdModule(size).name # NULL
  BY <1>1 DEF KernelModule, InitrdModule, Module
<1>6. QED
  BY <1>1, <1>2, <1>3, <1>4, <1>5

\* The wrapper makes no change to the header, the table or the strings that is
\* not a call of the library.
LEMMA BootUsesLibrary == BootInv /\ [BootNext]_wrapperVars => [Next]_vars
<1> SUFFICES ASSUME BootInv, [BootNext]_wrapperVars PROVE [Next]_vars
  OBVIOUS
<1>1. CASE AllocatePages
  <2>1. KernelBase \in Tables
    BY WrapperAssumption DEF WrapperAssumption
  <2>2. QED
    BY <1>1, <2>1 DEF AllocatePages, Next
<1>2. CASE LoadKernel
  <2>1. ASSUME NEW size \in FileSizes, bcbp_add_module(KernelModule(size)) PROVE Next
    <3>1. KernelModule(size) \in ModuleArgs
      BY BootModules
    <3>2. QED
      BY <2>1, <3>1 DEF Next
  <2>2. QED
    BY <1>2, <2>1 DEF LoadKernel
<1>3. CASE LoadInitrd
  <2>1. ASSUME NEW size \in FileSizes, bcbp_add_module(InitrdModule(size)) PROVE Next
    <3>1. KernelSize \in FileSizes
      BY <1>3 DEF LoadInitrd, BootInv
    <3>2. InitrdModule(size) \in ModuleArgs
      BY <3>1, BootModules
    <3>3. QED
      BY <2>1, <3>2 DEF Next
  <2>2. QED
    BY <1>3, <2>1 DEF LoadInitrd
<1>4. CASE SetTables
  <2>1. ASSUME NEW field \in Fields, NEW next, SetTable(field, next) PROVE [Next]_vars
    BY <2>1 DEF SetTable, Next
  <2>2. {"acpi_rsdp", "smbios", "framebuffer"} \subseteq Fields
    BY DEF Fields
  <2>3. QED
    BY <1>4, <2>1, <2>2 DEF SetTables
<1>5. CASE Validate
  BY <1>5 DEF Validate
<1>6. CASE Jump
  BY <1>6 DEF Jump
<1>7. CASE UNCHANGED wrapperVars
  BY <1>7 DEF wrapperVars, vars
<1>8. QED
  BY <1>1, <1>2, <1>3, <1>4, <1>5, <1>6, <1>7 DEF BootNext

\* The first module's strings go behind its entry.
LEMMA AddsFirst ==
  ASSUME TableInv, hdr.module_count = 0, NEW x, NEW p, Adds(x, p)
  PROVE  /\ hdr'.module_count = 1 /\ hdr'.magic
         /\ added' = <<x>>
         /\ NameOf(mem, 0)' = FirstStrings
         /\ CmdlineOf(mem, 0)' = IF HasCmdline(x) THEN FirstStrings + Len(x.name) + 1 ELSE 0
<1>1. /\ hdr.magic /\ hdr.modules = Base + HeaderSize /\ hdr \in HeaderType
      /\ added = << >>
  <2>1. added \in Seq(ModuleArgs) /\ Len(added) = 0
    BY DEF TableInv, TypeOK
  <2>2. QED
    BY <2>1, EmptySeq DEF TableInv, TypeOK, Adds, Refused
<1>2. hdr'.module_count = 1 /\ hdr'.magic /\ added' = <<x>>
  BY <1>1 DEF Adds, HeaderType
<1>3. p = FirstStrings
  <2>1. Indices = {}
    BY DEF Indices
  <2>2. Ends = {ModAddr(1)}
    BY <2>1 DEF Ends, Pointers
  <2>3. ModAddr(1) = FirstStrings
    BY <1>1, BloodChainAssumption DEF BloodChainAssumption, ModAddr, FirstStrings
  <2>4. QED
    BY <2>2, <2>3 DEF Adds
<1>4. /\ NewestName' = p
      /\ NewestCmdline' = IF HasCmdline(x) THEN p + Len(x.name) + 1 ELSE 0
  BY StoreModulePointers
<1>5. NewestName' = NameOf(mem, 0)' /\ NewestCmdline' = CmdlineOf(mem, 0)'
  BY <1>2 DEF NewestName, NewestCmdline
<1>6. QED
  BY <1>2, <1>3, <1>4, <1>5

\* What a history of one module becomes.
LEMMA AppendToOne ==
  ASSUME NEW S, NEW s \in Seq(S), Len(s) = 1, NEW x \in S
  PROVE  Append(s, x) = <<s[1], x>>
<1> DEFINE w == Append(s, x)
           a == s[1]
<1>1. w \in Seq(S) /\ Len(w) = Len(s) + 1 /\ w[Len(s) + 1] = x
  BY AppendProperties
<1>2. w[1] = a
  BY AppendProperties
<1> HIDE DEF w, a
<1>3. w \in Seq(S) /\ Len(w) = 2 /\ w[1] = a /\ w[2] = x
  BY <1>1, <1>2
<1>4. w = <<a, x>>
  BY <1>3
<1>5. QED
  BY <1>4 DEF w, a

\* The second's go behind the table, if the first's end where it ends.
LEMMA AddsSecond ==
  ASSUME TableInv, StringsInv, hdr.module_count = 1, NEW x, NEW p, Adds(x, p),
         LastNul + 1 <= FirstStrings + EntrySize
  PROVE  /\ hdr'.module_count = 2 /\ hdr'.magic
         /\ added' = <<added[1], x>>
         /\ NameOf(mem, 0)' = NameOf(mem, 0)
         /\ CmdlineOf(mem, 0)' = CmdlineOf(mem, 0)
         /\ NameOf(mem, 1)' = FirstStrings + EntrySize
<1>1. /\ hdr.magic /\ hdr.modules = Base + HeaderSize /\ hdr \in HeaderType
      /\ added \in Seq(ModuleArgs) /\ Len(added) = 1
  BY DEF TableInv, TypeOK, Adds, Refused
<1>2. hdr'.module_count = 2 /\ hdr'.magic /\ added' = <<added[1], x>>
  <2>1. hdr'.module_count = 2 /\ hdr'.magic
    BY <1>1 DEF Adds, HeaderType
  <2>2. added' = Append(added, x) /\ x \in ModuleArgs
    BY DEF Adds
  <2>3. added' = <<added[1], x>>
    BY <1>1, <2>2, AppendToOne, Zenon
  <2>4. QED
    BY <2>1, <2>3
<1>3. p = FirstStrings + EntrySize
  <2>1. ModAddr(2) = FirstStrings + EntrySize /\ FirstStrings + EntrySize \in Int
    BY <1>1, BloodChainAssumption DEF BloodChainAssumption, ModAddr, FirstStrings
  <2>2. LastNul \in Nat /\ p \in Nat
    <3>1. Cells \subseteq Nat
      BY BloodChainAssumption DEF BloodChainAssumption, Cells, Numbers
    <3>2. LastNul \in Cells /\ p \in Cells
      BY NewestStrings DEF Adds
    <3>3. QED
      BY <3>1, <3>2
  <2>3. ASSUME NEW end \in Ends PROVE end <= ModAddr(2)
    <3>1. CASE end = ModAddr(2)
      BY <2>1, <3>1
    <3>2. CASE \E q \in Pointers : end = EndOf(mem, q)
      <4>1. PICK q \in Pointers : end = EndOf(mem, q)
        BY <3>2
      <4>2. EndOf(mem, q) \in Nat /\ EndOf(mem, q) <= LastNul + 1
        BY NewestStrings
      <4>3. QED
        BY <2>1, <2>2, <4>1, <4>2
    <3>3. QED
      BY <3>1, <3>2 DEF Ends
  <2>4. ModAddr(2) \in Ends
    BY DEF Ends
  <2>5. p \in Ends /\ \A end \in Ends : end <= p
    BY DEF Adds
  <2>6. p <= ModAddr(2) /\ ModAddr(2) <= p
    BY <2>3, <2>4, <2>5
  <2>7. QED
    BY <2>1, <2>2, <2>6
<1>4. /\ NewestName' = p
      /\ \A i \in Indices : /\ NameOf(mem, i)' = NameOf(mem, i)
                            /\ CmdlineOf(mem, i)' = CmdlineOf(mem, i)
  BY StoreModulePointers
<1>5. 0 \in Indices
  BY DEF Indices
<1>6. NewestName' = NameOf(mem, 1)'
  BY <1>2 DEF NewestName
<1>7. QED
  BY <1>2, <1>3, <1>4, <1>5, <1>6

\* The two files' strings: where they end, in a table the wrapper has built.
LEMMA BootStrings ==
  ASSUME BootInv, wrapper_pc \in AfterKernel
  PROVE  /\ hdr.magic /\ hdr.modules = Base + HeaderSize
         /\ hdr.module_count = Loaded(KernelSize) + Loaded(InitrdSize)
         /\ KernelSize > 0 /\ InitrdSize = 0 =>
              LastNul + 1 = FirstStrings + Len(KernelName) + 1 + Len(KernelCmdline) + 1
         /\ KernelSize = 0 /\ InitrdSize > 0 => LastNul + 1 = FirstStrings + Len(InitrdName) + 1
         /\ KernelSize > 0 /\ InitrdSize > 0 =>
              LastNul + 1 = FirstStrings + EntrySize + Len(InitrdName) + 1
<1>1. /\ hdr.magic /\ added = BootAdded /\ BootPointers
      /\ hdr.modules = Base + HeaderSize /\ hdr.module_count = Len(added)
      /\ KernelSize \in Nat /\ InitrdSize \in Nat
  BY BloodChainBootAssumption
  DEF BootInv, TableInv, TypeOK, BloodChainBootAssumption, Numbers
<1>2. hdr.module_count = Loaded(KernelSize) + Loaded(InitrdSize)
  BY <1>1 DEF BootAdded, Loaded
<1>3. /\ Len(KernelName) \in Nat /\ Len(KernelCmdline) \in Nat /\ Len(InitrdName) \in Nat
      /\ FirstStrings \in Nat /\ EntrySize \in Nat
  BY BloodChainAssumption, BloodChainBootAssumption, LenProperties
  DEF BloodChainAssumption, BloodChainBootAssumption, Strings, FirstStrings
<1>4. CASE KernelSize > 0 /\ InitrdSize = 0
  <2>1. hdr.module_count = 1 /\ Newest = KernelModule(KernelSize) /\ KernelSize \in FileSizes
    BY <1>1, <1>2, <1>4 DEF BootAdded, Loaded, Newest, BootInv
  <2>2. HasCmdline(Newest) /\ Newest.cmdline = KernelCmdline
    BY <2>1, BootModules DEF KernelModule, Module
  <2>3. NewestCmdline = FirstStrings + Len(KernelName) + 1
    BY <1>1, <1>4, <2>1 DEF BootPointers, NewestCmdline
  <2>4. LastNul = FirstStrings + Len(KernelName) + 1 + Len(KernelCmdline)
    BY <2>2, <2>3 DEF LastNul
  <2>5. QED
    BY <1>1, <1>2, <1>3, <1>4, <2>4
<1>5. CASE KernelSize = 0 /\ InitrdSize > 0
  <2>1. hdr.module_count = 1 /\ Newest = InitrdModule(InitrdSize) /\ InitrdSize \in FileSizes
    BY <1>1, <1>2, <1>5 DEF BootAdded, Loaded, Newest, BootInv
  <2>2. ~HasCmdline(Newest) /\ Newest.name = InitrdName
    BY <2>1, BootModules DEF InitrdModule, Module
  <2>3. NewestName = FirstStrings
    BY <1>1, <2>1 DEF BootPointers, NewestName
  <2>4. LastNul = FirstStrings + Len(InitrdName)
    BY <2>2, <2>3 DEF LastNul
  <2>5. QED
    BY <1>1, <1>2, <1>3, <1>5, <2>4
<1>6. CASE KernelSize > 0 /\ InitrdSize > 0
  <2>1. hdr.module_count = 2 /\ Newest = InitrdModule(InitrdSize) /\ InitrdSize \in FileSizes
    BY <1>1, <1>2, <1>6 DEF BootAdded, Loaded, Newest, BootInv
  <2>2. ~HasCmdline(Newest) /\ Newest.name = InitrdName
    BY <2>1, BootModules DEF InitrdModule, Module
  <2>3. NewestName = FirstStrings + EntrySize
    BY <1>1, <2>1 DEF BootPointers, NewestName
  <2>4. LastNul = FirstStrings + EntrySize + Len(InitrdName)
    BY <2>2, <2>3 DEF LastNul
  <2>5. QED
    BY <1>1, <1>2, <1>3, <1>6, <2>4
<1>7. QED
  BY <1>1, <1>2, <1>4, <1>5, <1>6

\* The memory calculate_required_memory finds for one module, and for two.
LEMMA RequiredMemory ==
  ASSUME hdr.module_count \in {1, 2}
  PROVE  calculate_required_memory =
           IF hdr.module_count = 1
           THEN HeaderSize + EntrySize + Space(NameOf(mem, 0)) + Space(CmdlineOf(mem, 0))
           ELSE HeaderSize + 2 * EntrySize + Space(NameOf(mem, 0)) + Space(CmdlineOf(mem, 0))
                  + Space(NameOf(mem, 1)) + Space(CmdlineOf(mem, 1))
<1> DEFINE c == hdr.module_count
           start == HeaderSize + c * EntrySize
           n0 == Space(NameOf(mem, 0))
           c0 == Space(CmdlineOf(mem, 0))
           n1 == Space(NameOf(mem, 1))
           c1 == Space(CmdlineOf(mem, 1))
           Turn(f) == [n \in 0..c |->
                         IF n = 0 THEN start
                         ELSE f[n - 1] + Space(NameOf(mem, n - 1)) + Space(CmdlineOf(mem, n - 1))]
           total == CHOOSE f : f = Turn(f)
<1>1. calculate_required_memory = total[c]
  BY DEF calculate_required_memory
<1>2. total = Turn(total)
  <2> DEFINE g == [n \in 0..c |-> IF n = 0 THEN start ELSE IF n = 1 THEN start + n0 + c0
                                  ELSE start + n0 + c0 + n1 + c1]
  <2>1. ASSUME NEW n \in 0..c PROVE g[n] = Turn(g)[n]
    <3>1. n = 0 \/ n = 1 \/ n = 2
      OBVIOUS
    <3>2. CASE n = 0
      BY <3>2
    <3>3. CASE n = 1
      <4>1. n - 1 = 0 /\ 0 \in 0..c
        BY <3>3
      <4>2. g[0] = start /\ g[n] = start + n0 + c0
        BY <3>3, <4>1
      <4> HIDE DEF g
      <4>3. Turn(g)[n] = g[0] + n0 + c0
        BY <3>3, <4>1
      <4>4. QED
        BY <4>2, <4>3
    <3>4. CASE n = 2
      <4>1. n - 1 = 1 /\ 1 \in 0..c
        BY <3>4
      <4>2. g[1] = start + n0 + c0 /\ g[n] = start + n0 + c0 + n1 + c1
        BY <3>4, <4>1
      <4> HIDE DEF g
      <4>3. Turn(g)[n] = g[1] + n1 + c1
        BY <3>4, <4>1
      <4>4. QED
        BY <4>2, <4>3
    <3>5. QED
      BY <3>1, <3>2, <3>3, <3>4
  <2>2. g = Turn(g)
    <3>1. g = [n \in 0..c |-> g[n]]
      OBVIOUS
    <3>2. Turn(g) = [n \in 0..c |-> Turn(g)[n]]
      OBVIOUS
    <3> HIDE DEF g, Turn
    <3>3. QED
      BY <2>1, <3>1, <3>2
  <2> HIDE DEF g, Turn
  <2>3. QED
    BY <2>2, Zenon
<1> HIDE DEF total
<1>3. total[0] = start
  BY <1>2
<1>4. total[1] = total[0] + n0 + c0
  <2>1. 1 \in 0..c /\ 1 - 1 = 0
    OBVIOUS
  <2>2. Turn(total)[1] = total[0] + n0 + c0
    BY <2>1
  <2>3. QED
    BY <1>2, <2>2
<1>5. c = 2 => total[2] = total[1] + n1 + c1
  <2> SUFFICES ASSUME c = 2 PROVE total[2] = total[1] + n1 + c1
    OBVIOUS
  <2>1. 2 \in 0..c /\ 2 - 1 = 1
    OBVIOUS
  <2>2. Turn(total)[2] = total[1] + n1 + c1
    BY <2>1
  <2>3. QED
    BY <1>2, <2>2
<1> HIDE DEF n0, c0, n1, c1
<1>6. start = IF c = 1 THEN HeaderSize + EntrySize ELSE HeaderSize + 2 * EntrySize
  <2>1. HeaderSize \in Nat /\ EntrySize \in Nat
    BY BloodChainAssumption DEF BloodChainAssumption
  <2>2. QED
    BY <2>1
<1>7. QED
  BY <1>1, <1>3, <1>4, <1>5, <1>6 DEF n0, c0, n1, c1

\* A module that passes every test has no error.
LEMMA NoErrors ==
  ASSUME NEW i, TypeOf(mem, i) \in FirstType..LastType,
         ~Outside(NameOf(mem, i)), ~(Space(NameOf(mem, i)) > NameMax),
         CmdlineOf(mem, i) = 0 \/ ~Outside(CmdlineOf(mem, i)),
         CmdlineOf(mem, i) = 0 \/ ~(Space(CmdlineOf(mem, i)) > CmdlineMax)
  PROVE  Errors(i) = {}
<1> DEFINE test == [e \in -10..-6 |->
                      CASE e = -6 -> TypeOf(mem, i) \notin FirstType..LastType
                        [] e = -7 -> Outside(NameOf(mem, i))
                        [] e = -8 -> Space(NameOf(mem, i)) > NameMax
                        [] e = -9 -> CmdlineOf(mem, i) # 0 /\ Outside(CmdlineOf(mem, i))
                        [] e = -10 -> CmdlineOf(mem, i) # 0 /\ Space(CmdlineOf(mem, i)) > CmdlineMax]
<1>1. Errors(i) = {e \in DOMAIN test : test[e]}
  BY DEF Errors
<1>2. DOMAIN test = -10..-6
  OBVIOUS
<1>3. ASSUME NEW e \in -10..-6 PROVE ~test[e]
  <2>1. e = -6 \/ e = -7 \/ e = -8 \/ e = -9 \/ e = -10
    OBVIOUS
  <2>2. CASE e = -6
    BY <2>2
  <2>3. CASE e = -7
    BY <2>3
  <2>4. CASE e = -8
    BY <2>4
  <2>5. CASE e = -9
    BY <2>5
  <2>6. CASE e = -10
    BY <2>6
  <2>7. QED
    BY <2>1, <2>2, <2>3, <2>4, <2>5, <2>6
<1> HIDE DEF test
<1>4. QED
  BY <1>1, <1>2, <1>3

\* strlen over a string of the wrapper's table, which an entry may have
\* overwritten: at least the NUL, and never past the newest string.
LEMMA BootSpaces ==
  ASSUME BootInv, wrapper_pc \in AfterKernel, hdr.module_count > 0, NEW q \in Pointers
  PROVE  /\ q \in Nat /\ q # 0 /\ LastNul \in Nat
         /\ Space(q) \in Nat /\ Space(q) > 0 /\ q + Space(q) <= LastNul + 1
<1>1. /\ LastNul \in Cells /\ q \in Cells
      /\ EndOf(mem, q) \in Nat /\ q < EndOf(mem, q) /\ EndOf(mem, q) <= LastNul + 1
  BY NewestStrings DEF BootInv
<1>2. Cells \subseteq Nat \ {0}
  BY BloodChainAssumption DEF BloodChainAssumption, Cells, Numbers
<1>3. q \in Nat /\ q # 0 /\ LastNul \in Nat
  BY <1>1, <1>2
<1>4. Space(q) = EndOf(mem, q) - q
  BY <1>3 DEF Space
<1>5. QED
  BY <1>1, <1>3, <1>4

\* bcbp_validate accepts what the wrapper has built.
LEMMA ValidateAccepts ==
  ASSUME BootInv, wrapper_pc \in AfterKernel
  PROVE  bcbp_validate = 0
<1> DEFINE n == hdr.module_count
           M == calculate_required_memory
           F == FirstStrings
           E == EntrySize
           kn == Len(KernelName)
           kc == Len(KernelCmdline)
           l == Len(InitrdName)
           name0 == NameOf(mem, 0)
           cmd0 == CmdlineOf(mem, 0)
           name1 == NameOf(mem, 1)
           cmd1 == CmdlineOf(mem, 1)
<1>1. /\ hdr.magic /\ hdr.modules = Base + HeaderSize
      /\ n = Loaded(KernelSize) + Loaded(InitrdSize)
      /\ added = BootAdded /\ BootPointers /\ n = Len(added) /\ TableIntact
      /\ KernelSize \in Nat /\ InitrdSize \in Nat
      /\ KernelSize \in FileSizes \cup {0} /\ InitrdSize \in FileSizes \cup {0}
  BY BootStrings, BloodChainBootAssumption
  DEF BootInv, TableInv, TypeOK, BloodChainBootAssumption, Numbers
<1>2. /\ kn \in Nat /\ kc \in Nat /\ l \in Nat /\ F \in Nat /\ E \in Nat
      /\ Base \in Nat /\ Base > 0 /\ HeaderSize \in Nat /\ HeaderSize > 0
      /\ F = Base + HeaderSize + E
      /\ kn + 1 + kc + 1 <= E
      /\ E + l + 1 <= NameMax /\ E + l + 1 <= CmdlineMax
      /\ NameMax \in Nat /\ CmdlineMax \in Nat
  BY BloodChainAssumption, BloodChainBootAssumption, StringsAssumption, LenProperties
  DEF BloodChainAssumption, BloodChainBootAssumption, StringsAssumption, Strings, FirstStrings
<1>3. n \in {0, 1, 2} /\ ~(n > ModuleMax)
  BY <1>1, StringsAssumption DEF StringsAssumption, Loaded
<1>4. CASE n = 0
  BY <1>1, <1>3, <1>4 DEF bcbp_validate
<1>5. ASSUME n > 0, M \in Int, M > HeaderSize, \A i \in Indices : Errors(i) = {}
      PROVE  bcbp_validate = 0
  <2>1. {i \in Indices : Errors(i) # {}} = {}
    BY <1>5
  <2>2. ~(hdr.modules <= Base) /\ ~(hdr.modules >= Base + M)
    BY <1>1, <1>2, <1>5
  <2>3. QED
    BY <1>1, <1>3, <1>5, <2>1, <2>2 DEF bcbp_validate
<1>6. ASSUME NEW i \in Indices
      PROVE  /\ TypeOf(mem, i) \in FirstType..LastType
             /\ (CmdlineOf(mem, i) = 0) = ~HasCmdline(added[i + 1])
  <2>1. i + 1 \in 1..n /\ i \in {0, 1}
    BY <1>3 DEF Indices
  <2>2. added[i + 1].type \in {1, 2}
    BY <1>1, <2>1 DEF BootAdded, KernelModule, InitrdModule, Module, Loaded
  <2>3. TypeOf(mem, i) = added[i + 1].type
    BY <1>1 DEF TableIntact
  <2>4. QED
    BY <1>1, <2>2, <2>3, StringsAssumption DEF TableIntact, StringsAssumption
<1>7. n > 0 => /\ name0 = F /\ name0 \in Pointers
               /\ cmd0 # 0 => cmd0 \in Pointers
  BY <1>1, <1>3 DEF BootPointers, Pointers, Indices
<1>8. Space(0) = 0
  BY DEF Space
<1>9. CASE n = 1 /\ KernelSize > 0
  <2>1. /\ InitrdSize = 0 /\ cmd0 = F + kn + 1 /\ Newest = KernelModule(KernelSize)
        /\ KernelSize \in FileSizes
    BY <1>1, <1>9 DEF Loaded, BootPointers, BootAdded, Newest
  <2>2. LastNul + 1 = F + kn + 1 + kc + 1
    BY <1>1, <1>9, <2>1, BootStrings
  <2>3. cmd0 # 0 /\ cmd0 \in Pointers /\ name0 \in Pointers /\ name0 = F
    BY <1>2, <1>7, <1>9, <2>1
  <2>4. /\ Newest.name = KernelName /\ HasCmdline(Newest) /\ KernelName \in Strings
        /\ NewestName = name0 /\ NewestTop = cmd0
    BY <1>9, <2>1, BootModules
    DEF KernelModule, Module, NewestName, NewestTop, NewestCmdline
  <2>5. Space(name0) = kn + 1
    <3>1. /\ mem \in [Cells -> Bytes] /\ Reads(mem, name0, KernelName)
          /\ name0 \in Cells /\ LastNul \in Cells /\ name0 + kn <= LastNul
      BY <1>9, <2>3, <2>4 DEF BootInv, StringsInv, TableInv, TypeOK
    <3>2. name0 + kn \in Cells
      <4>1. Base + HeaderSize \in Nat /\ Limit \in Nat /\ Cells = (Base + HeaderSize)..(Limit - 1)
        BY BloodChainAssumption DEF BloodChainAssumption, Cells, Numbers
      <4>2. name0 \in Nat /\ LastNul \in Nat
        BY <1>9, <2>3, BootSpaces
      <4> HIDE DEF kn, name0
      <4>3. QED
        BY <1>2, <3>1, <4>1, <4>2
    <3>3. EndOf(mem, name0) = name0 + kn + 1
      BY <2>4, <3>1, <3>2, ReadsString
    <3> HIDE DEF kn, name0
    <3>4. QED
      BY <1>2, <2>3, <3>3, BootSpaces DEF Space
  <2>6. Space(cmd0) = kc + 1
    <3>1. EndOf(mem, cmd0) = LastNul + 1
      BY <1>9, <2>4, NewestStrings DEF BootInv
    <3> HIDE DEF cmd0, kc, kn, F
    <3>2. QED
      BY <1>2, <2>1, <2>2, <2>3, <3>1 DEF Space
  <2>7. M = HeaderSize + E + Space(name0) + Space(cmd0)
    BY <1>9, RequiredMemory
  <2>8. 0 \in Indices /\ \A i \in Indices : i = 0
    BY <1>9 DEF Indices
  <2>9. /\ ~Outside(name0) /\ ~Outside(cmd0)
        /\ ~(Space(name0) > NameMax) /\ ~(Space(cmd0) > CmdlineMax)
        /\ M \in Int /\ M > HeaderSize
    <3> HIDE DEF M, F, E, kn, kc, l, name0, cmd0
    <3>1. M = HeaderSize + E + kn + 1 + kc + 1
      BY <1>2, <2>5, <2>6, <2>7
    <3>2. QED
      BY <1>2, <2>1, <2>3, <2>5, <2>6, <3>1 DEF Outside, M
  <2>10. Errors(0) = {}
    BY <1>6, <2>8, <2>9, NoErrors
  <2>11. QED
    BY <1>5, <1>9, <2>8, <2>9, <2>10
<1>10. CASE n = 1 /\ KernelSize = 0
  <2>1. InitrdSize > 0 /\ InitrdSize \in FileSizes /\ added[1] = InitrdModule(InitrdSize)
    BY <1>1, <1>10 DEF Loaded, BootAdded
  <2>2. LastNul + 1 = F + l + 1
    BY <1>1, <1>10, <2>1, BootStrings
  <2>3. 0 \in Indices /\ \A i \in Indices : i = 0
    BY <1>10 DEF Indices
  <2>4. cmd0 = 0
    BY <1>6, <2>1, <2>3, BootModules
  <2>5. name0 = F /\ Space(name0) \in Nat /\ Space(name0) > 0 /\ F + Space(name0) <= LastNul + 1
    BY <1>7, <1>10, BootSpaces
  <2>6. M = HeaderSize + E + Space(name0) + Space(cmd0)
    BY <1>10, RequiredMemory
  <2>7. ~Outside(name0) /\ ~(Space(name0) > NameMax) /\ M \in Int /\ M > HeaderSize
    <3> HIDE DEF M, F, E, kn, kc, l, name0, cmd0
    <3>1. M = HeaderSize + E + Space(name0)
      BY <1>2, <1>8, <2>4, <2>5, <2>6
    <3>2. QED
      BY <1>2, <2>2, <2>5, <3>1 DEF Outside, M
  <2>8. Errors(0) = {}
    BY <1>6, <2>3, <2>4, <2>7, NoErrors
  <2>9. QED
    BY <1>5, <1>10, <2>3, <2>7, <2>8
<1>11. CASE n = 2
  <2>1. /\ KernelSize > 0 /\ InitrdSize > 0 /\ InitrdSize \in FileSizes
        /\ added[2] = InitrdModule(InitrdSize)
        /\ cmd0 = F + kn + 1 /\ name1 = F + E
    BY <1>1, <1>11 DEF Loaded, BootAdded, BootPointers
  <2>2. LastNul + 1 = F + E + l + 1
    BY <1>1, <2>1, BootStrings
  <2>3. 0 \in Indices /\ 1 \in Indices /\ \A i \in Indices : i = 0 \/ i = 1
    BY <1>11 DEF Indices
  <2>4. cmd1 = 0
    <3>1. (CmdlineOf(mem, 1) = 0) = ~HasCmdline(added[1 + 1])
      BY <1>6, <2>3
    <3>2. QED
      BY <2>1, <3>1, BootModules
  <2>5. cmd0 # 0 /\ cmd0 \in Pointers /\ name0 \in Pointers /\ name1 \in Pointers /\ name0 = F
    <3>1. name1 \in Pointers
      BY <2>3 DEF Pointers
    <3>2. cmd0 # 0
      BY <1>2, <2>1
    <3> HIDE DEF name1
    <3>3. QED
      BY <1>7, <1>11, <3>1, <3>2
  <2>6. /\ Space(name0) \in Nat /\ Space(name0) > 0 /\ name0 + Space(name0) <= LastNul + 1
        /\ Space(cmd0) \in Nat /\ Space(cmd0) > 0 /\ cmd0 + Space(cmd0) <= LastNul + 1
        /\ Space(name1) \in Nat /\ Space(name1) > 0 /\ name1 + Space(name1) <= LastNul + 1
    BY <1>11, <2>5, BootSpaces
  <2>7. M = HeaderSize + 2 * E + Space(name0) + Space(cmd0) + Space(name1) + Space(cmd1)
    BY <1>11, RequiredMemory
  <2>8. /\ ~Outside(name0) /\ ~Outside(cmd0) /\ ~Outside(name1)
        /\ ~(Space(name0) > NameMax) /\ ~(Space(cmd0) > CmdlineMax) /\ ~(Space(name1) > NameMax)
        /\ M \in Int /\ M > HeaderSize
    <3> HIDE DEF M, F, E, kn, kc, l, name0, cmd0, name1, cmd1
    <3>1. M = HeaderSize + 2 * E + Space(name0) + Space(cmd0) + Space(name1)
      BY <1>2, <1>8, <2>4, <2>6, <2>7
    <3>2. M \in Int /\ M > HeaderSize + 2 * E
      BY <1>2, <2>6, <3>1
    <3>3. ~Outside(name0) /\ ~Outside(cmd0) /\ ~Outside(name1)
      <4>1. name0 < Base + M /\ cmd0 < Base + M
        BY <1>2, <2>1, <2>5, <2>6, <3>2
      <4>2. name1 < Base + M
        BY <1>2, <2>1, <2>6, <3>2
      <4>3. Base <= name0 /\ Base <= cmd0 /\ Base <= name1
        BY <1>2, <2>1, <2>5
      <4>4. name0 \in Int /\ cmd0 \in Int /\ name1 \in Int
        BY <1>2, <2>1, <2>5
      <4>5. QED
        BY <1>2, <3>2, <4>1, <4>2, <4>3, <4>4 DEF Outside, M
    <3>4. /\ ~(Space(name0) > NameMax) /\ ~(Space(cmd0) > CmdlineMax)
          /\ ~(Space(name1) > NameMax)
      BY <1>2, <2>1, <2>2, <2>5, <2>6
    <3>5. QED
      BY <1>2, <3>2, <3>3, <3>4
  <2>9. Errors(0) = {}
    BY <1>6, <2>3, <2>8, NoErrors
  <2>10. Errors(1) = {}
    BY <1>6, <2>3, <2>4, <2>8, NoErrors
  <2>11. QED
    BY <1>5, <1>11, <2>3, <2>8, <2>9, <2>10
<1>12. KernelSize > 0 \/ KernelSize = 0
  BY <1>1
<1>13. QED
  BY <1>3, <1>4, <1>9, <1>10, <1>11, <1>12

\* The wrapper starts with nothing.
LEMMA BootInitInv == BootInit => BootInv
  BY TableInitInv, StringsInitInv DEF BootInit, BootInv, AfterKernel, OwnTableAccepted

\* Where what the wrapper has added is found does not depend on the tables it
\* fills in.
LEMMA BootTableKept ==
  ASSUME UNCHANGED <<mem, added, KernelSize, InitrdSize>>, hdr'.magic = hdr.magic,
         hdr'.module_count = hdr.module_count, hdr'.modules = hdr.modules,
         hdr.magic /\ added = BootAdded /\ BootPointers
  PROVE  hdr'.magic /\ (added = BootAdded)' /\ BootPointers'
<1>1. /\ (added = BootAdded)'
  BY DEF BootAdded, InitrdModule, InitrdLoadAddr
<1>2. BootPointers'
  BY DEF BootPointers, NameOf, CmdlineOf, ModAddr
<1>3. QED
  BY <1>1, <1>2

\* The wrapper's steps keep to its invariant.
LEMMA BootNextInv == BootInv /\ [BootNext]_wrapperVars => BootInv'
<1> SUFFICES ASSUME BootInv, [BootNext]_wrapperVars PROVE BootInv'
  OBVIOUS
<1>1. TableInv' /\ StringsInv'
  BY BootUsesLibrary, TableNextInv, StringsNextInv DEF BootInv
<1>2. KernelSize \in Nat /\ InitrdSize \in Nat /\ FileSizes \subseteq Nat
  BY BloodChainBootAssumption DEF BloodChainBootAssumption, BootInv, Numbers
<1>3. CASE AllocatePages
  <2>1. /\ wrapper_pc' \in {"load_kernel", "returned"}
        /\ UNCHANGED <<KernelSize, InitrdSize>> /\ InitrdSize = 0
    BY <1>3 DEF AllocatePages, BootInv
  <2>2. wrapper_pc' = "load_kernel" => hdr'.magic /\ added' = << >>
    BY <1>3 DEF AllocatePages, bcbp_init, NoHeader
  <2>3. QED
    BY <1>1, <2>1, <2>2 DEF BootInv, AfterKernel, OwnTableAccepted
<1>4. CASE LoadKernel
  <2>1. CASE wrapper_pc' = "returned" /\ UNCHANGED <<vars, KernelSize>>
    BY <1>1, <1>4, <2>1 DEF LoadKernel, BootInv, AfterKernel, OwnTableAccepted
  <2>2. ASSUME NEW size \in FileSizes, bcbp_add_module(KernelModule(size)),
               KernelSize' = size, wrapper_pc' = "load_initrd", InitrdSize' = InitrdSize
        PROVE  BootInv'
    <3>1. hdr.magic /\ added = << >> /\ InitrdSize = 0 /\ wrapper_pc = "load_kernel"
      BY <1>4 DEF LoadKernel, BootInv
    <3>2. hdr.module_count = 0
      BY <3>1 DEF BootInv, TableInv, TypeOK
    <3>3. KernelModule(size) \in ModuleArgs /\ HasCmdline(KernelModule(size))
          /\ KernelModule(size).name # NULL
      BY BootModules
    <3>4. /\ KernelModule(size).size = size /\ KernelModule(size).name = KernelName
      BY DEF KernelModule, Module
    <3>5. CASE size = 0
      <4>1. UNCHANGED vars
        BY <2>2, <3>4, <3>5 DEF bcbp_add_module, Refused
      <4>2. /\ hdr'.magic /\ (added = BootAdded)' /\ BootPointers'
        BY <2>2, <3>1, <3>2, <3>5, <4>1 DEF vars, BootAdded, BootPointers
      <4>3. QED
        BY <1>1, <2>2, <3>1, <4>2 DEF BootInv, AfterKernel, OwnTableAccepted
    <3>6. CASE size # 0
      <4>1. ~Refused(KernelModule(size))
        BY <3>1, <3>3, <3>4, <3>6 DEF Refused
      <4> DEFINE x == KernelModule(size)
      <4>2. PICK p \in Ends \cap Cells : Adds(x, p)
        BY <2>2, <3>3, <4>1, AddsSomewhere
      <4>3. /\ hdr'.module_count = 1 /\ hdr'.magic /\ added' = <<x>>
            /\ NameOf(mem, 0)' = FirstStrings
            /\ CmdlineOf(mem, 0)' = IF HasCmdline(x) THEN FirstStrings + Len(x.name) + 1 ELSE 0
        <5> HIDE DEF x
        <5> QED
          BY <3>2, <4>2, AddsFirst DEF BootInv
      <4>4. (added = BootAdded)'
        BY <2>2, <3>1, <3>6, <4>3 DEF BootAdded, KernelModule, Module
      <4>5. BootPointers'
        BY <3>3, <3>4, <4>3 DEF BootPointers
      <4>6. QED
        BY <1>1, <2>2, <3>1, <4>3, <4>4, <4>5 DEF BootInv, AfterKernel, OwnTableAccepted
    <3>7. QED
      BY <3>5, <3>6
  <2>3. QED
    BY <1>4, <2>1, <2>2 DEF LoadKernel
<1>5. CASE LoadInitrd
  <2>1. /\ wrapper_pc = "load_initrd" /\ wrapper_pc' = "acpi_rsdp" /\ KernelSize' = KernelSize
        /\ KernelSize \in FileSizes /\ InitrdSize = 0
        /\ hdr.magic /\ added = BootAdded /\ BootPointers
    BY <1>5 DEF LoadInitrd, BootInv, AfterKernel
  <2>2. CASE UNCHANGED <<vars, InitrdSize>>
    <3>1. hdr'.magic /\ (added = BootAdded)' /\ BootPointers'
      BY <2>1, <2>2, BootTableKept DEF vars
    <3>2. QED
      BY <1>1, <2>1, <2>2, <3>1 DEF BootInv, OwnTableAccepted
  <2>3. ASSUME NEW size \in FileSizes \ {0}, bcbp_add_module(InitrdModule(size)),
               InitrdSize' = size
        PROVE  BootInv'
    <3> DEFINE x == InitrdModule(size)
    <3>1. /\ x \in ModuleArgs /\ ~HasCmdline(x) /\ x.name # NULL
          /\ KernelCmdline \in Strings
      BY <2>1, BootModules
    <3>2. ~Refused(x)
      BY <2>1, <3>1 DEF Refused, InitrdModule, Module
    <3>3. (InitrdModule(size))' = x
      BY <2>1 DEF InitrdModule, InitrdLoadAddr
    <3>4. PICK p \in Ends \cap Cells : Adds(x, p)
      BY <2>3, <3>1, <3>2, AddsSomewhere
    <3>5. /\ hdr.module_count = Loaded(KernelSize)
          /\ KernelSize > 0 =>
               LastNul + 1 = FirstStrings + Len(KernelName) + 1 + Len(KernelCmdline) + 1
      <4>1. hdr.module_count = Loaded(KernelSize) + Loaded(InitrdSize)
        BY <2>1, BootStrings DEF AfterKernel
      <4>2. Loaded(InitrdSize) = 0
        BY <2>1 DEF Loaded
      <4>3. Loaded(KernelSize) \in Int
        BY DEF Loaded
      <4>4. KernelSize > 0 =>
              LastNul + 1 = FirstStrings + Len(KernelName) + 1 + Len(KernelCmdline) + 1
        BY <2>1, BootStrings DEF AfterKernel
      <4>5. QED
        BY <4>1, <4>2, <4>3, <4>4
    <3> HIDE DEF x
    <3>6. CASE KernelSize = 0
      <4>1. hdr.module_count = 0
        BY <3>5, <3>6 DEF Loaded
      <4>2. /\ hdr'.module_count = 1 /\ hdr'.magic /\ added' = <<x>>
            /\ NameOf(mem, 0)' = FirstStrings
        BY <3>4, <4>1, AddsFirst DEF BootInv
      <4>3. (added = BootAdded)'
        BY <2>1, <2>3, <3>3, <3>6, <4>2 DEF BootAdded
      <4>4. BootPointers'
        BY <2>1, <3>6, <4>2 DEF BootPointers
      <4>5. QED
        BY <1>1, <2>1, <2>3, <4>2, <4>3, <4>4 DEF BootInv, OwnTableAccepted
    <3>7. CASE KernelSize # 0
      <4>1. hdr.module_count = 1 /\ KernelSize > 0
        BY <1>2, <3>5, <3>7 DEF Loaded
      <4>2. LastNul + 1 <= FirstStrings + EntrySize
        <5>1. /\ Len(KernelName) \in Nat /\ Len(KernelCmdline) \in Nat
              /\ FirstStrings \in Nat /\ EntrySize \in Nat
              /\ Len(KernelName) + 1 + Len(KernelCmdline) + 1 <= EntrySize
          BY BloodChainAssumption, BloodChainBootAssumption, StringsAssumption, LenProperties
          DEF BloodChainAssumption, BloodChainBootAssumption, StringsAssumption, Strings,
              FirstStrings
        <5>2. QED
          BY <3>5, <4>1, <5>1
      <4>3. /\ hdr'.module_count = 2 /\ hdr'.magic /\ added' = <<added[1], x>>
            /\ NameOf(mem, 0)' = NameOf(mem, 0)
            /\ CmdlineOf(mem, 0)' = CmdlineOf(mem, 0)
            /\ NameOf(mem, 1)' = FirstStrings + EntrySize
        BY <3>4, <4>1, <4>2, AddsSecond DEF BootInv
      <4>4. added[1] = KernelModule(KernelSize)
        BY <2>1, <3>7 DEF BootAdded
      <4>5. (added = BootAdded)'
        BY <2>1, <2>3, <3>3, <3>7, <4>3, <4>4 DEF BootAdded, KernelModule, Module
      <4>6. BootPointers'
        BY <2>1, <4>1, <4>3 DEF BootPointers
      <4>7. QED
        BY <1>1, <2>1, <2>3, <4>3, <4>5, <4>6 DEF BootInv, OwnTableAccepted
    <3>8. QED
      BY <3>6, <3>7
  <2>4. QED
    BY <1>5, <2>2, <2>3 DEF LoadInitrd
<1>6. ASSUME wrapper_pc \in AfterKernel \ {"load_initrd"},
             wrapper_pc' \notin {"allocate", "load_kernel", "load_initrd", "load_error"},
             UNCHANGED <<mem, added, KernelSize, InitrdSize>>, hdr'.magic = hdr.magic,
             hdr'.module_count = hdr.module_count, hdr'.modules = hdr.modules
      PROVE  BootInv'
  <2>1. hdr'.magic /\ (added = BootAdded)' /\ BootPointers'
    BY <1>6, BootTableKept DEF BootInv
  <2>2. QED
    BY <1>1, <1>6, <2>1 DEF BootInv, OwnTableAccepted
<1>7. CASE SetTables
  <2>1. ASSUME NEW field \in Fields, NEW next \in {"smbios", "framebuffer", "validate"},
               SetTable(field, next)
        PROVE  BootInv'
    <3>1. hdr \in HeaderType
      BY DEF BootInv, TableInv, TypeOK
    <3>2. /\ UNCHANGED <<mem, added, KernelSize, InitrdSize>> /\ hdr'.magic = hdr.magic
          /\ hdr'.module_count = hdr.module_count /\ hdr'.modules = hdr.modules
      BY <2>1, <3>1 DEF SetTable, bcbp_set, HeaderType, Fields, vars
    <3>3. wrapper_pc = field /\ wrapper_pc' = next
      BY <2>1 DEF SetTable
    <3>4. QED
      BY <1>6, <2>1, <3>2, <3>3 DEF AfterKernel, Fields
  <2>2. QED
    BY <1>7, <2>1 DEF SetTables, Fields
<1>8. CASE Validate
  <2>1. wrapper_pc = "validate" /\ wrapper_pc \in AfterKernel
    BY <1>8 DEF Validate, AfterKernel
  <2>2. bcbp_validate = 0
    BY <2>1, ValidateAccepts
  <2>3. wrapper_pc' = "exit"
    BY <1>8, <2>2 DEF Validate
  <2>4. QED
    BY <1>6, <1>8, <2>1, <2>3 DEF Validate, vars
<1>9. CASE Jump
  BY <1>6, <1>9 DEF Jump, vars, AfterKernel
<1>10. CASE UNCHANGED wrapperVars
  <2>1. UNCHANGED <<hdr, mem, added, wrapper_pc, KernelSize, InitrdSize>>
    BY <1>10 DEF wrapperVars, vars
  <2>2. wrapper_pc' \in AfterKernel => hdr'.magic /\ (added = BootAdded)' /\ BootPointers'
    BY <2>1, BootTableKept DEF BootInv
  <2>3. QED
    BY <1>1, <2>1, <2>2 DEF BootInv, OwnTableAccepted
<1>11. QED
  BY <1>3, <1>4, <1>5, <1>7, <1>8, <1>9, <1>10 DEF BootNext

\* What the wrapper has built is what its invariant says.
THEOREM BootInvariance == BootSpec => []BootInv
  BY BootInitInv, BootNextInv, PTL DEF BootSpec

\* bcbp_validate accepts the wrapper's own table, for files of any size that is a
\* number of 64 bits, although the initrd's entry has overwritten the kernel's strings.
THEOREM OwnTableSafe == BootSpec => []OwnTableAccepted
<1>1. BootInv => OwnTableAccepted
  BY DEF BootInv
<1>2. QED
  BY <1>1, BootInvariance, PTL

\* The kernel reads from the table the files that were loaded, in order and
\* without overlap, their sizes and addresses being numbers of 64 bits.
THEOREM HandoffSafe == BootSpec => []HandoffTable
<1>1. BootInv => HandoffTable
  <2> SUFFICES ASSUME BootInv, wrapper_pc = "kernel" PROVE HandoffTable
    BY DEF HandoffTable
  <2>1. /\ added = BootAdded /\ TableIntact /\ hdr.module_count = Loaded(KernelSize) + Loaded(InitrdSize)
        /\ KernelSize \in Nat /\ InitrdSize \in Nat /\ KernelBase \in Nat
    BY BootStrings, BloodChainBootAssumption
    DEF BootInv, TableInv, AfterKernel, BloodChainBootAssumption, Numbers
  <2>2. ASSUME NEW i \in Indices
        PROVE  /\ StartOf(mem, i) = added[i + 1].start /\ SizeOf(mem, i) = added[i + 1].size
               /\ TypeOf(mem, i) = added[i + 1].type
    <3>1. /\ Field(mem, ModAddr(i)) = Little(added[i + 1].start)
          /\ Field(mem, ModAddr(i) + FieldSize) = Little(added[i + 1].size)
          /\ TypeOf(mem, i) = added[i + 1].type
      BY <2>1 DEF TableIntact
    <3>2. added[i + 1].start \in Numbers /\ added[i + 1].size \in Numbers
      <4>1. i + 1 \in 1..Len(added) /\ added \in Seq(ModuleArgs)
        BY <2>1 DEF BootInv, TableInv, TypeOK, HeaderType, Indices
      <4>2. added[i + 1] \in ArgType
        BY <4>1, BloodChainAssumption DEF BloodChainAssumption
      <4>3. QED
        BY <4>2 DEF ArgType
    <3>3. QED
      BY <3>1, <3>2, LittleWord DEF StartOf, SizeOf, Word
  <2>3. KernelSize > 0 => /\ StartOf(mem, 0) = KernelBase
                          /\ SizeOf(mem, 0) = KernelSize
                          /\ TypeOf(mem, 0) = FirstType
    <3> SUFFICES ASSUME KernelSize > 0
                 PROVE  /\ StartOf(mem, 0) = KernelBase /\ SizeOf(mem, 0) = KernelSize
                        /\ TypeOf(mem, 0) = FirstType
      OBVIOUS
    <3>1. 0 \in Indices
      BY <2>1 DEF Loaded, Indices
    <3>2. added[1] = KernelModule(KernelSize)
      BY <2>1 DEF BootAdded
    <3>3. /\ StartOf(mem, 0) = added[1].start /\ SizeOf(mem, 0) = added[1].size
          /\ TypeOf(mem, 0) = added[1].type
      BY <2>2, <3>1
    <3>4. QED
      BY <3>2, <3>3, StringsAssumption DEF KernelModule, Module, StringsAssumption
  <2>4. ASSUME NEW i \in Indices, NEW j \in Indices, i < j
        PROVE  StartOf(mem, i) + SizeOf(mem, i) <= StartOf(mem, j)
    <3>1. i = 0 /\ j = 1 /\ KernelSize > 0 /\ InitrdSize > 0
      BY <2>1, <2>4 DEF Loaded, Indices
    <3>2. added[1] = KernelModule(KernelSize) /\ added[2] = InitrdModule(InitrdSize)
      BY <2>1, <3>1 DEF BootAdded
    <3>3. StartOf(mem, 0) = KernelBase /\ SizeOf(mem, 0) = KernelSize
      BY <2>3, <3>1
    <3>4. StartOf(mem, 1) = KernelBase + ALIGN_UP(KernelSize)
      <4>1. StartOf(mem, 1) = added[1 + 1].start
        BY <2>2, <3>1
      <4>2. QED
        BY <3>2, <4>1 DEF InitrdModule, InitrdLoadAddr, Module
    <3>5. ALIGN_UP(KernelSize) \in Nat /\ ALIGN_UP(KernelSize) >= KernelSize
      BY <2>1, AlignUpHolds
    <3>6. QED
      BY <2>1, <3>1, <3>3, <3>4, <3>5
  <2>5. QED
    BY <2>1, <2>3, <2>4 DEF HandoffTable
<1>2. QED
  BY <1>1, BootInvariance, PTL

=============================================================================
