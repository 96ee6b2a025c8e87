----------------------------- MODULE MountTable -----------------------------
(***************************************************************************)
(* What a mount table promises its callers, whatever list keeps it: a path *)
(* is served by the mount with the longest path it lies under, through     *)
(* that mount's driver handle and with the rest of the path.  Both         *)
(* fs/fs_mount.c and fs/fs_common.c are shown to implement this module,    *)
(* each with its own list, order and way to register a filesystem type.    *)
(***************************************************************************)
EXTENDS Naturals, Sequences, SequencesExt

CONSTANTS
  Separators,         \* the characters that end a component of a path
  Ops(_),             \* the operations a filesystem type implements
  NoCall,             \* no driver was called
  Idle,               \* the last call was no file operation
  Mounts,             \* the mounts that may be in force, [path, fs, data]
  Operations, Paths   \* what callers may ask for, and where

VARIABLES
  mounted,      \* the mounts in force
  last          \* [op, path, to]: the last file operation and its driver call

vars == <<mounted, last>>

\* A path lies under a mount when it is the mount's path, or that path, a
\* separator and more.  So only "/" itself and "//..." lie under a root "/".
Under(m) ==
  {path \in Paths :
     path = m.path \/ \E s \in Separators : IsPrefix(Append(m.path, s), path)}

Deepest(path) ==
  {m \in mounted :
     /\ path \in Under(m)
     /\ \A n \in mounted : path \in Under(n) => Len(n.path) <= Len(m.path)}

\* What follows the mount's path and its separator.
Rest(m, path) == SubSeq(path, Len(m.path) + 2, Len(path))

Init == mounted = {} /\ last = Idle

Mount(m) ==
  /\ m \notin mounted
  /\ mounted' = mounted \cup {m}
  /\ last' = Idle

Unmount(m) ==
  /\ m \in mounted
  /\ mounted' = mounted \ {m}
  /\ last' = Idle

\* A file operation calls the driver of a deepest mount the path lies under.
Reach(op, path) ==
  \E m \in Deepest(path) :
    /\ op \in Ops(m.fs)
    /\ last' = [op |-> op, path |-> path,
                to |-> [data |-> m.data, rel |-> Rest(m, path)]]
    /\ UNCHANGED mounted

\* It calls none when there is no such mount, or one that lacks the operation.
Miss(op, path) ==
  /\ Deepest(path) = {} \/ \E m \in Deepest(path) : op \notin Ops(m.fs)
  /\ last' = [op |-> op, path |-> path, to |-> NoCall]
  /\ UNCHANGED mounted

\* Any other call of the interface, and one that fails.
Fails == last' = Idle /\ UNCHANGED mounted

Next ==
  \/ \E m \in Mounts : Mount(m) \/ Unmount(m)
  \/ \E op \in Operations, path \in Paths : Reach(op, path) \/ Miss(op, path)
  \/ Fails

Spec == Init /\ [][Next]_vars
=============================================================================
