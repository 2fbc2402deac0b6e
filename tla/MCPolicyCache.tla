---------------------------- MODULE MCPolicyCache ----------------------------
(* Small instances of the policy cache for TLC. *)
EXTENDS PolicyCache

CONSTANTS w1, w2, k1

\* One worker answers and serves PATCHes, the other one serves PATCHes only.
AllAtOne == [c \in {k1} |-> w2]
=============================================================================
