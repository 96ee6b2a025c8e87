------------------------------- MODULE FsPath -------------------------------
(***************************************************************************)
(* Paths and the driver calls made for them, as both filesystem layers     *)
(* compute them.  A path is the sequence of its characters.                *)
(***************************************************************************)
EXTENDS Naturals, Sequences, SequencesExt

CONSTANTS
  Separators,   \* the characters that end a component of a path
  Ops(_),       \* the operations a filesystem type implements
  NoCall,       \* no driver was called
  Idle          \* the last call was no file operation

\* Mutant: a path is covered by whatever it starts with.
CoversPrefix(mount_path, path) == IsPrefix(mount_path, path)

\* The test of find_mount_point: mp_len characters agree and the path ends
\* there or goes on with a separator.  The root "/" thus covers "/" and
\* paths that start with "//", and nothing else.
Covers(mount_path, path) ==
  /\ IsPrefix(mount_path, path)
  /\ \/ Len(path) = Len(mount_path)
     \/ path[Len(mount_path) + 1] \in Separators

\* Mutant: the separator stays in front of the rest.
RelPathWithSlash(mount_path, path) == SubSeq(path, Len(mount_path) + 1, Len(path))

\* rel_path: what is left of the path, without one leading separator.
RelPath(mount_path, path) ==
  LET rest == SubSeq(path, Len(mount_path) + 1, Len(path))
  IN  IF rest # << >> /\ Head(rest) \in Separators THEN Tail(rest) ELSE rest

\* The call a file operation on path makes when mount m serves it.
CallTo(m, op, path) ==
  IF op \in Ops(m.fs)
  THEN [data |-> m.data, rel |-> RelPath(m.path, path)]
  ELSE NoCall
=============================================================================
