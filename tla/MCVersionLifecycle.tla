------------------------ MODULE MCVersionLifecycle ------------------------
(* Small instances of VersionRefinement for TLC.                           *)
EXTENDS VersionRefinement, TLC

Symmetry == Permutations(Document) \cup Permutations(Version)
                \cup Permutations(NodeId) \cup Permutations(Request)
=============================================================================
