----------------------------- MODULE MCUefiBoot -----------------------------
(***************************************************************************)
(* A window of three rows and a table of five entries, with lists that     *)
(* leave the window half empty, scroll it, and overflow the table.         *)
(***************************************************************************)
EXTENDS UefiBoot

E(name, f) == [Name |-> name, BootFunction |-> f]

\* Names that compete for letters: e and f find all of theirs taken.
a == E(<<"x", "y">>, "wrapper")
b == E(<<"x", "z">>, "wrapper")
c == E(<<"y", "x">>, NoFunction)
e == E(<<"z">>, "wrapper")
f == E(<<"x", "y">>, "wrapper")

MCEntryLists == { << >>, <<a, b>>, <<a, b, c, e>>, <<c, a, b, e, f, e>> }

=============================================================================
