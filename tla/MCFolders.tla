------------------------------ MODULE MCFolders ------------------------------
(* Small instances of the folder tree for TLC. *)
EXTENDS Folders, TLC

CONSTANTS f1, f2, f3, c1, c2, d1, a, s

MCFolder == {f1, f2, f3}
MCClients == {c1, c2}
MCName == {a, s}
\* a is "my_list" and s is "my\list": in LIKE the one stands for itself and
\* for the other, the other for "mylist" alone.
Patterns == (<<a, s>> :> <<>>)
\* Nothing is claimed of a tree once an overlapped write was committed or
\* rows were left on an old path.
WhileRight == ~overlapped /\ ~stranded
Symmetric == Permutations(MCFolder) \cup Permutations(MCClients)
=============================================================================
