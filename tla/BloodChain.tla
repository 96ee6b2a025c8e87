----------------------------- MODULE BloodChain -----------------------------
(***************************************************************************)
(* The BloodChain boot protocol library (bloodchain.c): a header, a table  *)
(* of modules that grows right behind it, and the modules' names and       *)
(* command lines, which bcbp_add_module copies behind the table.  Nothing  *)
(* bounds the table: its entries and the strings share the bytes of mem,   *)
(* and where the next string goes is recomputed by strlen on every call.   *)
(*                                                                         *)
(* The header's own fields are a record; mem holds the bytes behind it.    *)
(* A string is the sequence of its bytes, without the NUL; a number is one *)
(* of a uint64_t, and is kept little-endian.                               *)
(***************************************************************************)
EXTENDS Integers, Sequences

CONSTANTS
  Base,        \* address of the header
  HeaderSize,  \* sizeof(struct bcbp_header), 144
  FieldSize,   \* sizeof(uint64_t), 8
  EntrySize,   \* sizeof(struct bcbp_module), 40
  Limit,       \* bound: end of the memory modelled
  Fill,        \* bytes that memory may hold at first
  ModuleArgs,  \* arguments of bcbp_add_module: [start, size, name, type, cmdline]
  Tables,      \* addresses given to the bcbp_set_ functions
  NULL,
  NameMax, CmdlineMax, ModuleMax, \* limits of bcbp_validate: 256, 4096, 1024
  FirstType, LastType             \* BCBP_MODTYPE_KERNEL and _DRIVER

Bytes == 0..255
Cells == (Base + HeaderSize)..(Limit - 1)

\* A number without its lowest byte, and its highest of eight.
Upper(v) == v \div 256
Highest(v) == Upper(Upper(Upper(Upper(Upper(Upper(Upper(v)))))))
Numbers == {n \in Nat : Highest(n) < 256}

Strings == Seq(1..255)
ArgType == [start : Numbers, size : Numbers, type : Bytes,
            name : Strings \cup {NULL}, cmdline : Strings \cup {NULL}]

ASSUME BloodChainAssumption ==
  /\ Base \in Nat \ {0} /\ HeaderSize \in Nat \ {0}
  /\ FieldSize = 8
  /\ EntrySize \in Nat /\ EntrySize > 4 * FieldSize
  /\ Limit \in Numbers
  /\ Fill \subseteq Bytes
  /\ ModuleArgs \subseteq ArgType
  /\ Tables \subseteq Nat
  /\ NULL \notin Strings \cup Numbers

VARIABLES
  hdr,    \* the fields of struct bcbp_header the library reads or a call sets
  mem,    \* the bytes behind the header
  added   \* history: the modules the table should hold

vars == <<hdr, mem, added>>

-----------------------------------------------------------------------------
(* Bytes *)

Little(v) ==
  LET v2 == Upper(v)  v3 == Upper(v2)  v4 == Upper(v3)  v5 == Upper(v4)
      v6 == Upper(v5)  v7 == Upper(v6)  v8 == Upper(v7)
  IN  <<v % 256, v2 % 256, v3 % 256, v4 % 256, v5 % 256, v6 % 256, v7 % 256, v8 % 256>>
Number(f) ==
  f[1] + 256 * (f[2] + 256 * (f[3] + 256 * (f[4] + 256 *
    (f[5] + 256 * (f[6] + 256 * (f[7] + 256 * f[8]))))))
Field(m, a) == [k \in 1..FieldSize |-> m[a + k - 1]]
Word(m, a) == Number(Field(m, a))

Put(m, a, bytes) ==
  [b \in DOMAIN m |-> IF b - a + 1 \in 1..Len(bytes) THEN bytes[b - a + 1] ELSE m[b]]

\* Mutant: strlen bytes are copied.
StrWithoutNul(s) == s

\* strcpy copies the NUL as well.
Str(s) == Append(s, 0)

\* The address behind the NUL that ends the string at a: a + strlen(a) + 1.
EndOf(m, a) ==
  1 + CHOOSE b \in DOMAIN m : b >= a /\ m[b] = 0 /\ \A x \in a..(b - 1) : m[x] # 0

StringAt(m, a) == [i \in 1..(EndOf(m, a) - a - 1) |-> m[a + i - 1]]

-----------------------------------------------------------------------------
(* The table *)

ModAddr(i) == hdr.modules + i * EntrySize
StartOf(m, i) == Word(m, ModAddr(i))
SizeOf(m, i) == Word(m, ModAddr(i) + FieldSize)
CmdlineOf(m, i) == Word(m, ModAddr(i) + 2 * FieldSize)
NameOf(m, i) == Word(m, ModAddr(i) + 3 * FieldSize)
TypeOf(m, i) == m[ModAddr(i) + 4 * FieldSize]

Indices == 0..(hdr.module_count - 1)
Pointers == {NameOf(mem, i) : i \in Indices} \cup
              ({CmdlineOf(mem, i) : i \in Indices} \ {0})

\* The bytes bcbp_add_module writes of an entry; the reserved ones stay as they are.
EntryBytes(x, name, cmdline) ==
  Little(x.start) \o Little(x.size) \o Little(cmdline) \o Little(name) \o <<x.type>>

HasCmdline(x) == x.cmdline \notin {NULL, << >>}

\* Mutant: only names are looked at for the end of the strings.
EndsOfNames == {ModAddr(hdr.module_count + 1)} \cup
                 {EndOf(mem, NameOf(mem, i)) : i \in Indices}

\* Mutant: the strings start where the new entry goes.
EndsFromCount == {ModAddr(hdr.module_count)} \cup {EndOf(mem, p) : p \in Pointers}

\* What str_ptr has to clear: the table with one more entry, and every string.
Ends == {ModAddr(hdr.module_count + 1)} \cup {EndOf(mem, p) : p \in Pointers}

-----------------------------------------------------------------------------
(* Operations *)

NoHeader == [magic |-> FALSE, module_count |-> 0, modules |-> 0, entry_point |-> 0,
             acpi_rsdp |-> 0, smbios |-> 0, framebuffer |-> 0]

HeaderType == [magic : BOOLEAN, module_count : Nat, modules : Nat, entry_point : Nat,
               acpi_rsdp : Nat, smbios : Nat, framebuffer : Nat]

Init ==
  /\ hdr = NoHeader
  /\ \E byte \in Fill : mem = [b \in Cells |-> byte]
  /\ added = << >>

\* Mutant: the address of the header is cast before one is added to it.
bcbp_init_cast_first(entry_point) ==
  /\ ~hdr.magic
  /\ hdr' = [NoHeader EXCEPT !.magic = TRUE, !.entry_point = entry_point,
                             !.modules = Base + 1]
  /\ added' = << >>
  /\ UNCHANGED mem

\* bcbp_init clears and fills the header; what is behind it stays.  Its caller
\* initialises a block once.
bcbp_init(entry_point) ==
  /\ ~hdr.magic
  /\ hdr' = [NoHeader EXCEPT !.magic = TRUE, !.entry_point = entry_point,
                             !.modules = Base + HeaderSize]
  /\ added' = << >>
  /\ UNCHANGED mem

Refused(x) == ~hdr.magic \/ x.name = NULL \/ x.size = 0

\* Mutant: the NUL of the name is not stepped over before the command line.
StoreModuleNoNul(x, name) ==
  LET cmdline == name + Len(x.name)
      strings == Put(Put(mem, ModAddr(hdr.module_count),
                         EntryBytes(x, name, IF HasCmdline(x) THEN cmdline ELSE 0)),
                     name, Str(x.name))
  IN  mem' = IF HasCmdline(x) THEN Put(strings, cmdline, Str(x.cmdline)) ELSE strings

\* The entry and its strings, with str_ptr = name.  FitsIn is the model's bound.
FitsIn(x, name) ==
  name + Len(x.name) + 1 + (IF HasCmdline(x) THEN Len(x.cmdline) + 1 ELSE 0) < Limit

StoreModule(x, name) ==
  LET cmdline == name + Len(x.name) + 1
      strings == Put(Put(mem, ModAddr(hdr.module_count),
                         EntryBytes(x, name, IF HasCmdline(x) THEN cmdline ELSE 0)),
                     name, Str(x.name))
  IN  mem' = IF HasCmdline(x) THEN Put(strings, cmdline, Str(x.cmdline)) ELSE strings

bcbp_add_module(x) ==
  \/ /\ Refused(x)
     /\ UNCHANGED vars
  \/ /\ ~Refused(x)
     /\ \E str_ptr \in Ends \cap Cells :
          /\ \A end \in Ends : end <= str_ptr
          /\ FitsIn(x, str_ptr)
          /\ StoreModule(x, str_ptr)
     /\ hdr' = [hdr EXCEPT !.module_count = @ + 1]
     /\ added' = Append(added, x)

\* bcbp_set_acpi_rsdp, bcbp_set_smbios and bcbp_set_framebuffer.
bcbp_set(field, address) ==
  /\ hdr' = IF hdr.magic THEN [hdr EXCEPT ![field] = address] ELSE hdr
  /\ UNCHANGED <<mem, added>>

\* The index of the first module whose name reads as name, or NULL.
bcbp_find_module(name) ==
  LET found == {i \in Indices : StringAt(mem, NameOf(mem, i)) = name}
  IN  IF ~hdr.magic \/ found = {} THEN NULL
      ELSE CHOOSE i \in found : \A j \in found : i <= j

-----------------------------------------------------------------------------
(* bcbp_validate *)

Space(p) == IF p = 0 THEN 0 ELSE EndOf(mem, p) - p

\* Mutant: command lines are not counted.
RequiredForNames ==
  LET total[n \in 0..hdr.module_count] ==
        IF n = 0 THEN HeaderSize + hdr.module_count * EntrySize
        ELSE total[n - 1] + Space(NameOf(mem, n - 1))
  IN  total[hdr.module_count]

calculate_required_memory ==
  LET total[n \in 0..hdr.module_count] ==
        IF n = 0 THEN HeaderSize + hdr.module_count * EntrySize
        ELSE total[n - 1] + Space(NameOf(mem, n - 1)) + Space(CmdlineOf(mem, n - 1))
  IN  total[hdr.module_count]

Outside(p) == p < Base \/ p >= Base + calculate_required_memory

\* The tests a module fails.  bcbp_validate reports the first, and it numbers
\* them downwards.
Errors(i) ==
  LET name == NameOf(mem, i)
      cmdline == CmdlineOf(mem, i)
      test == [e \in -10..-6 |->
                 CASE e = -6 -> TypeOf(mem, i) \notin FirstType..LastType
                   [] e = -7 -> Outside(name)
                   [] e = -8 -> Space(name) > NameMax
                   [] e = -9 -> cmdline # 0 /\ Outside(cmdline)
                   [] e = -10 -> cmdline # 0 /\ Space(cmdline) > CmdlineMax]
  IN  {e \in DOMAIN test : test[e]}

\* The version is the library's own: -3 is left out, as is -1 (no header).
bcbp_validate ==
  LET bad == {i \in Indices : Errors(i) # {}}
      first == CHOOSE i \in bad : \A j \in bad : i <= j
  IN  IF ~hdr.magic THEN -2
      ELSE IF hdr.module_count > ModuleMax THEN -4
      ELSE IF hdr.module_count = 0 THEN 0
      ELSE IF hdr.modules <= Base \/ hdr.modules >= Base + calculate_required_memory
           THEN -5
      ELSE IF bad = {} THEN 0
      ELSE CHOOSE e \in Errors(first) : \A d \in Errors(first) : d <= e

-----------------------------------------------------------------------------

Fields == {"acpi_rsdp", "smbios", "framebuffer"}

Next ==
  \/ \E entry_point \in Tables : bcbp_init(entry_point)
  \/ \E x \in ModuleArgs : bcbp_add_module(x)
  \/ \E field \in Fields, address \in Tables : bcbp_set(field, address)

Spec == Init /\ [][Next]_vars

-----------------------------------------------------------------------------
(* Properties *)

\* The memory behind the header is bytes, and the header counts the modules
\* that were accepted since bcbp_init.
TypeOK ==
  /\ hdr \in HeaderType
  /\ hdr.module_count = Len(added)
  /\ hdr.modules = IF hdr.magic THEN Base + HeaderSize ELSE 0
  /\ mem \in [Cells -> Bytes]
  /\ added \in Seq(ModuleArgs)

\* Strings never run into the table: each entry reads back as it was added,
\* whatever was added after it.
TableIntact ==
  \A i \in Indices :
    LET x == added[i + 1]
    IN  /\ Field(mem, ModAddr(i)) = Little(x.start)
        /\ Field(mem, ModAddr(i) + FieldSize) = Little(x.size)
        /\ TypeOf(mem, i) = x.type
        /\ (CmdlineOf(mem, i) = 0) = ~HasCmdline(x)

\* The module added last can be found, with its own name and command line.
NewestReadable ==
  hdr.module_count > 0 =>
    LET last == hdr.module_count - 1
        x == added[hdr.module_count]
    IN  /\ StringAt(mem, NameOf(mem, last)) = x.name
        /\ HasCmdline(x) => StringAt(mem, CmdlineOf(mem, last)) = x.cmdline
        /\ bcbp_find_module(x.name) # NULL

\* An entry may overwrite older strings, and cut them short or join them to
\* what follows; still every strlen of the library stops no later than the
\* last string written, in memory whose other bytes are anything.
StringsEndByNewest ==
  hdr.module_count > 0 =>
    LET last == hdr.module_count - 1
        top == IF CmdlineOf(mem, last) = 0 THEN NameOf(mem, last) ELSE CmdlineOf(mem, last)
    IN  \A p \in Pointers : /\ \E b \in Cells : b >= p /\ mem[b] = 0
                            /\ EndOf(mem, p) <= EndOf(mem, top)

\* A call writes the new entry, and bytes behind both the table and everything
\* that can still be read as a string: it never writes into an earlier entry,
\* nor into a string that no entry has overwritten.
WritesFresh ==
  [][LET first == ModAddr(hdr.module_count)
         changed == {b \in Cells : mem'[b] # mem[b]} \ (first..(first + EntrySize - 1))
     IN  /\ \A b \in changed : b >= first
         /\ \A p \in Pointers : \A b \in changed : EndOf(mem, p) <= b]_vars

=============================================================================
