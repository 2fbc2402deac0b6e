SPECIFICATION Spec
CONSTANTS
    Request = {r1, r2}
    Key = {k1, k2}
    Body = {b1, b2}
    Resource = {x1, x2, x3}
    StoreMayFail = TRUE
    None = None
SYMMETRY Symmetry
INVARIANTS OneReservedWritePerKey AnswersNameWrites AnswersAgree
