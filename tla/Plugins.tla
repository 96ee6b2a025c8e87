------------------------------ MODULE Plugins ------------------------------
(***************************************************************************)
(* The plugin table of plugins/plugin.c.  A plugin's init and cleanup are  *)
(* code of the plugin: while one runs, it may call the table's interface   *)
(* again.  frames is the stack of the calls waiting for such a callback.   *)
(***************************************************************************)
EXTENDS Integers, Sequences, FiniteSets

CONSTANTS
  MaxPlugins,   \* slots of the table (32 in the code)
  Libraries,    \* paths dlopen knows; a library's name is its path
  NoInfo,       \* libraries without plugin_info
  Mute,         \* libraries whose init and cleanup are NULL
  Vacant,       \* what a slot never written holds
  MaxFrames     \* bound: callbacks within callbacks

ASSUME PluginsAssumption ==
  MaxPlugins \in Nat \ {0} /\ MaxFrames \in Nat /\ Vacant \notin Libraries

VARIABLES
  plugins,        \* plugins[i], the library of slot i, from 0
  plugin_count,
  frames,         \* calls waiting for a callback, the innermost last
  refs,           \* dlopen less dlclose of each library
  meddled,        \* a callback changed the table under a call that waits for it
  strayed         \* unmapped code or memory outside the table was used

pluginVars == <<plugins, plugin_count, frames, refs, meddled, strayed>>

PluginsInit ==
  /\ plugins = [i \in 0..(MaxPlugins - 1) |-> Vacant]
  /\ plugin_count = 0
  /\ frames = << >>
  /\ refs = [p \in Libraries |-> 0]
  /\ meddled = FALSE /\ strayed = FALSE

Waiting(op) == {f \in 1..Len(frames) : frames[f].op = op}
Running(p) == \E f \in 1..Len(frames) : frames[f].library = p

\* The slots a look-up of that name passes; it reads past the table when the
\* count is too large and no slot before has the name.
Slots(name) == {i \in 0..(plugin_count - 1) : i < MaxPlugins /\ plugins[i] = name}
First(name) == CHOOSE i \in Slots(name) : \A j \in Slots(name) : i <= j

\* The code that runs is that of the innermost callback, which is still loaded.
Loaded == \A f \in 1..Len(frames) : f = Len(frames) => refs[frames[f].library] > 0

-----------------------------------------------------------------------------

\* plugin_register up to the call of init: the slot is written, not counted.
plugin_register(p) ==
  /\ plugin_count \in 0..(MaxPlugins - 1) /\ p \notin NoInfo
  /\ plugins' = [plugins EXCEPT ![plugin_count] = p]
  /\ refs' = [refs EXCEPT ![p] = @ + 1]
  /\ meddled' = (meddled \/ Waiting("register") # {})
  /\ IF p \in Mute
     THEN plugin_count' = plugin_count + 1 /\ UNCHANGED frames
     ELSE /\ Len(frames) < MaxFrames
          /\ frames' = Append(frames, [op |-> "register", library |-> p, slot |-> plugin_count])
          /\ UNCHANGED plugin_count
  /\ UNCHANGED strayed

\* plugin_load runs init again.
plugin_load(p) ==
  /\ Slots(p) # {} /\ p \notin Mute
  /\ Len(frames) < MaxFrames
  /\ frames' = Append(frames, [op |-> "load", library |-> p, slot |-> First(p)])
  /\ UNCHANGED <<plugins, plugin_count, refs, meddled, strayed>>

\* Mutant: the slots after the one given up stay where they are.
Unshifted(table, i, count) == table

\* The slots behind slot i move up by one.
Shifted(table, i, count) ==
  [j \in DOMAIN table |-> IF j >= i /\ j < count - 1 /\ j + 1 < MaxPlugins THEN table[j + 1] ELSE table[j]]

\* The end of plugin_unload: slot i is closed and taken out, whatever it holds by
\* now.  A handle closed before, or never opened, is not one to give to dlclose.
TakeOut(i) ==
  IF plugins[i] \in Libraries /\ refs[plugins[i]] > 0
  THEN /\ refs' = [refs EXCEPT ![plugins[i]] = @ - 1]
       /\ plugins' = Shifted(plugins, i, plugin_count)
       /\ plugin_count' = plugin_count - 1
       /\ UNCHANGED strayed
  ELSE strayed' = TRUE /\ UNCHANGED <<plugins, plugin_count, refs>>

\* An unload that moves or closes what a waiting call goes on to use.
Meddles(i) ==
  \/ Waiting("register") # {}
  \/ \E f \in Waiting("unload") : i <= frames[f].slot
  \/ Running(plugins[i]) /\ refs[plugins[i]] = 1

plugin_unload(p) ==
  /\ Slots(p) # {}
  /\ meddled' = (meddled \/ Meddles(First(p)))
  /\ IF p \in Mute
     THEN TakeOut(First(p)) /\ UNCHANGED frames
     ELSE /\ Len(frames) < MaxFrames
          /\ frames' = Append(frames, [op |-> "unload", library |-> p, slot |-> First(p)])
          /\ UNCHANGED <<plugins, plugin_count, refs, strayed>>

\* A look-up that runs past the table.
overrun(p) ==
  /\ Slots(p) = {} /\ plugin_count > MaxPlugins
  /\ strayed' = TRUE
  /\ UNCHANGED <<plugins, plugin_count, frames, refs, meddled>>

\* The innermost callback returns to the call that waits for it.
callback_returns ==
  /\ frames # << >>
  /\ LET f == frames[Len(frames)]
     IN  /\ frames' = SubSeq(frames, 1, Len(frames) - 1)
         /\ \/ /\ f.op = "register" /\ plugin_count' = plugin_count + 1
               /\ UNCHANGED <<plugins, refs, strayed>>
            \/ f.op = "load" /\ UNCHANGED <<plugins, plugin_count, refs, strayed>>
            \/ f.op = "unload" /\ TakeOut(f.slot)
  /\ UNCHANGED meddled

\* The call a callback made returns into code that is no longer loaded.
unmapped ==
  /\ ~Loaded /\ strayed' = TRUE
  /\ UNCHANGED <<plugins, plugin_count, frames, refs, meddled>>

PluginsNext ==
  /\ ~strayed
  /\ \/ /\ Loaded
        /\ \/ \E p \in Libraries :
                plugin_register(p) \/ plugin_load(p) \/ plugin_unload(p) \/ overrun(p)
           \/ callback_returns
     \/ unmapped

-----------------------------------------------------------------------------

\* As long as no callback changed the table under a call that waits for it,
\* every library is open as often as it has slots or a registration waiting
\* for its init, the code on the stack is loaded, and the count fits: the
\* slot counted after init and the shift after cleanup (plugin.c:28-31, 48-51).
TableWhole ==
  ~meddled =>
    /\ ~strayed
    /\ plugin_count \in 0..MaxPlugins
    /\ \A p \in Libraries :
         refs[p] = Cardinality(Slots(p))
                   + Cardinality({f \in Waiting("register") : frames[f].library = p})
    /\ \A f \in 1..Len(frames) : refs[frames[f].library] > 0
=============================================================================
