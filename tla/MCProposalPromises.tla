------------------------- MODULE MCProposalPromises -------------------------
(* Small instances of ProposalPromises for TLC.                            *)
EXTENDS ProposalPromises, TLC

Symmetry == Permutations(Document) \cup Permutations(Version)
                \cup Permutations(NodeId) \cup Permutations(Request)
                \cup Permutations(Agent) \cup Permutations(IdempotencyKey)
=============================================================================
