SPECIFICATION Spec
CONSTANTS
    Document = {d1, d2}
    Version = {v1, v2}
    NodeId = {n1}
    Request = {r1, r2}
    MaxVersionNumber = 2
    None = None
SYMMETRY Symmetry
INVARIANTS PointersStayInDocument DraftPointerIsLive PublishedPointerWasPublished NodesMirrorSnapshot WorkflowPublishedIsNotDraft
PROPERTIES ImplementsSlots
