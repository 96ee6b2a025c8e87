----------------------------- MODULE NameTables -----------------------------
(***************************************************************************)
(* The tables of names that only grow: the environment of scripts          *)
(* (scripting/script_env.c), the functions of the script interface         *)
(* (scripting/script_api.c), the registry of loaded plugins                *)
(* (plugins/plugin_registry.c), and the firmware's environment that        *)
(* config/config_env.c reads.  They share nothing: a behaviour is that of  *)
(* one of them.  A name is the sequence of its characters.  What the       *)
(* 64 bytes of a script variable cut off its value is left out.            *)
(***************************************************************************)
EXTENDS Integers, Sequences

CONSTANTS
  Capacity,      \* entries of a table (16 in the code)
  Kept(_),       \* characters of a name that each table keeps
  Keys, Values,  \* what callers give and ask for
  Absent         \* no value

TableKinds == {"env", "api", "registry", "environ"}

\* Names are made of characters, and an environment keeps them whole.
ASSUME NameTablesAssumption ==
  /\ Capacity \in Nat
  /\ \A k \in TableKinds : Kept(k) \in Nat
  /\ \A name \in Keys : name \in Seq(STRING) /\ Len(name) < Kept("environ")

VARIABLES
  kind,      \* the table considered
  table,     \* its entries, in order
  puts       \* what callers put there, names uncut

tableVars == <<kind, table, puts>>

NameTablesInit ==
  /\ kind \in TableKinds
  /\ table = << >>
  /\ puts = << >>

\* strncpy keeps so much of a name, snprintf so much of "name=value".
Stored(name) == SubSeq(name, 1, IF Len(name) < Kept(kind) THEN Len(name) ELSE Kept(kind))

Put(name, value) ==
  /\ Len(table) < Capacity
  /\ table' = Append(table, [name |-> Stored(name), value |-> value])
  /\ puts' = Append(puts, [name |-> name, value |-> value])
  /\ UNCHANGED kind

\* An entry more; a full table answers -1.
script_env_set(name, value) == kind = "env" /\ Put(name, value)
script_api_register(name, value) == kind = "api" /\ Put(name, value)
\* plugin_loader_load, with the file read.
plugin_registry_register(name, value) == kind = "registry" /\ Put(name, value)
putenv(name, value) == kind = "environ" /\ Put(name, value)

NameTablesNext ==
  \E name \in Keys, value \in Values :
    \/ script_env_set(name, value) \/ script_api_register(name, value)
    \/ plugin_registry_register(name, value) \/ putenv(name, value)

-----------------------------------------------------------------------------

IsPrefixOf(s, t) == Len(s) <= Len(t) /\ SubSeq(t, 1, Len(s)) = s

\* Mutant: the last entry that answers is taken.
LastOf(hits) ==
  IF hits = {} THEN Absent ELSE table[CHOOSE i \in hits : \A j \in hits : j <= i].value

\* Every search is from the first entry on and ends at the first that answers.
FirstOf(hits) ==
  IF hits = {} THEN Absent ELSE table[CHOOSE i \in hits : \A j \in hits : i <= j].value

\* As many characters are compared as the entry's name has, and only where
\* the '=' was kept.
script_env_get(name) ==
  FirstOf({i \in DOMAIN table : Len(table[i].name) < Kept(kind) /\ IsPrefixOf(table[i].name, name)})
config_env_get(name) == FirstOf({i \in DOMAIN table : IsPrefixOf(table[i].name, name)})

\* The others compare whole strings.
script_api_lookup(name) == FirstOf({i \in DOMAIN table : table[i].name = name})
plugin_registry_find(name) == FirstOf({i \in DOMAIN table : table[i].name = name})

LookUp(name) ==
  CASE kind = "env" -> script_env_get(name)
    [] kind = "environ" -> config_env_get(name)
    [] kind = "api" -> script_api_lookup(name)
    [] kind = "registry" -> plugin_registry_find(name)

-----------------------------------------------------------------------------

ByPrefix == kind \in {"env", "environ"}

\* Where a caller put a value under a name.
PutUnder(name) == {i \in DOMAIN puts : puts[i].name = name}

\* A table keeps this name whole, and the end of it.
FitsWhole(name) == IF ByPrefix THEN Len(name) < Kept(kind) ELSE Len(name) <= Kept(kind)

\* No other name that was put is taken for this one.
Alone(name) ==
  \A i \in DOMAIN puts :
    LET other == puts[i].name
    IN  other # name => IF ByPrefix THEN ~IsPrefixOf(other, name) ELSE Stored(other) # name

\* A name that was kept whole and is not taken for another answers with the
\* first value put under it, so with what was put last only when it was put
\* once (script_env.c:17, script_api.c:19, plugin_registry.c:19).  In an
\* environment a name that begins with another that was put before it never
\* answers with its own value.  A cut name is not found.
FirstIsFound ==
  \A name \in Keys :
    /\ Alone(name) =>
         IF FitsWhole(name) /\ PutUnder(name) # {}
         THEN \A i \in PutUnder(name) :
                (\A j \in PutUnder(name) : i <= j) => LookUp(name) = puts[i].value
         ELSE LookUp(name) = Absent
    /\ ByPrefix => \A i \in DOMAIN puts :
         LET other == puts[i].name
         IN  /\ Len(other) < Kept(kind) /\ IsPrefixOf(other, name) /\ other # name
             /\ \A j \in 1..(i - 1) : ~IsPrefixOf(puts[j].name, name)
             => LookUp(name) = puts[i].value
=============================================================================
