\* A submission, a decision, and an edit or a stale write between them.
CONSTANTS
    Versions = {v1, v2}
    First = v1
    Reviews = {r1}
    Contents = {a, b}
    Untidy = {b}
    Handlers = {h1, h2}
    None = None
    MaxCalls = 3
SPECIFICATION Spec
SYMMETRY Symmetry
INVARIANTS ApprovedAsSubmitted
CHECK_DEADLOCK FALSE
