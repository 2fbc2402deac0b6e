-------------------------- MODULE MCAgentProposals --------------------------
(* Small instances of AgentProposals for TLC.                              *)
EXTENDS AgentProposals, TLC

Symmetry == Permutations(Document) \cup Permutations(Version)
                \cup Permutations(NodeId) \cup Permutations(Request)
                \cup Permutations(Agent) \cup Permutations(IdempotencyKey)

(* One version is followed to the end of its life.  A second one exists    *)
(* beside it only while a proposal is undecided: a human's version next to *)
(* a pending proposal, or two pending proposals.                           *)
SecondVersionWhileUndecided ==
    (\A v \in Version : Exists(v)) =>
        /\ \E v \in Version : FromAgent(v)
        /\ \A v \in Version : FromAgent(v) => tasks[v] = "input_required"
=============================================================================
