\* Five calls in two handlers: enough for a review, a publication and a revision
\* or a rebuild, with any call overlapping them.  Two contents, one of them with
\* an asset warning.
CONSTANTS
    Versions = {v1, v2}
    First = v1
    Reviews = {r1}
    Contents = {a, b}
    Untidy = {b}
    Handlers = {h1, h2}
    None = None
    MaxCalls = 5
SPECIFICATION Spec
SYMMETRY Symmetry
INVARIANTS ServedWasApproved
CHECK_DEADLOCK FALSE
