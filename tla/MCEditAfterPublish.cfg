SPECIFICATION Spec
CONSTANTS
    Document = {d1}
    Version = {v1}
    NodeId = {n1}
    Request = {r1, r2}
    MaxVersionNumber = 3
    None = None
SYMMETRY Symmetry
PROPERTIES PublishedContentIsImmutable
