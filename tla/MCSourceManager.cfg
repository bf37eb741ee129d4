SPECIFICATION Spec
CONSTANTS
    Calls = {c1, c2}
    Analyses = {c1, c2}
    Commits = {k1, k2}
    Updates = TRUE
    MaxMoves = 1
    None = None
INVARIANTS
    TypeOK
    TreeOfItsCommit
    CommitIsFresh
    FallbackIsJustified
\* All calls return.
CHECK_DEADLOCK FALSE
