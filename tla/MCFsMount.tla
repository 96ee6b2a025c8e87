------------------------------ MODULE MCFsMount ------------------------------
(* Values of the constants of FsMount for model checking.                  *)
EXTENDS FsMount

CONSTANTS fat, iso, twin   \* filesystem types

\* a driver may return any handle that is free
MCSymmetry == Permutations(Handles)

\* twin was given the name of fat, which a driver's author may well do
MCNameOf(fs) == IF fs = iso THEN "iso9660" ELSE "fat32"
MCOps(fs) == IF fs = iso THEN {"read"} ELSE {"read", "list_dir"}
MCBuiltIns == <<fat, iso>>
MCSeparators == {"/", "\\"}
MCRoot == <<"/">>
\* "/", "/a" and "/a/b"
MCMountPaths == {<<"/">>, <<"/", "a">>, <<"/", "a", "/", "b">>}
\* those, "/ab", which only looks as if it were under "/a", "/a\b", "/a/b/c", "//a"
MCPaths == MCMountPaths \cup
  {<<"/", "a", "b">>, <<"/", "a", "\\", "b">>, <<"/", "a", "/", "b", "/", "c">>,
   <<"/", "/", "a">>}
=============================================================================
