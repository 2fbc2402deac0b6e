SPECIFICATION ProposalSpec
CONSTANTS
    Document = {d1}
    Version = {v1, v2}
    NodeId = {}
    Request = {r1, r2}
    MaxVersionNumber = 2
    Agent = {a1, a2}
    IdempotencyKey = {k1}
    None = None
SYMMETRY Symmetry
CONSTRAINT SecondVersionWhileUndecided
INVARIANTS NothingPublishedUndecided DraftIsNeverAProposal
PROPERTIES VersionsNeverReopen
