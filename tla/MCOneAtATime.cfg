SPECIFICATION ProposalSpec
CONSTANTS
    Document = {d1}
    Version = {v1, v2}
    NodeId = {n1}
    Request = {r1}
    MaxVersionNumber = 2
    Agent = {a1}
    IdempotencyKey = {k1}
    None = None
SYMMETRY Symmetry
INVARIANTS QueueAgreesWithVersion
PROPERTIES ReviewedContentIsFrozen WorkflowFollowsPolicy
