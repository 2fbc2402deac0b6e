------------------------- MODULE MCVersionPromises -------------------------
(* Small instances of VersionPromises for TLC.                             *)
EXTENDS VersionPromises, TLC

Symmetry == Permutations(Document) \cup Permutations(Version)
                \cup Permutations(NodeId) \cup Permutations(Request)
=============================================================================
