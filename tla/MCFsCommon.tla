----------------------------- MODULE MCFsCommon -----------------------------
(* Values of the constants of FsCommon for model checking.                 *)
EXTENDS FsCommon

CONSTANTS ext2, iso   \* filesystem types

\* a driver may return any handle that is free
MCSymmetry == Permutations(Handles)

MCNameOf(fs) == IF fs = iso THEN "iso9660" ELSE "ext2"
MCOps(fs) == IF fs = iso THEN {"read_file"} ELSE {"read_file", "list_dir"}
MCRoot == <<"/">>
\* "/", "/a" and "/a/b"
MCMountPaths == {<<"/">>, <<"/", "a">>, <<"/", "a", "/", "b">>}
\* those, "/ab", which only looks as if it were under "/a", "/a/b/c", "//a"
MCFilePaths == MCMountPaths \cup
  {<<"/", "a", "b">>, <<"/", "a", "/", "b", "/", "c">>, <<"/", "/", "a">>}
=============================================================================
