SPECIFICATION Spec
CONSTANTS
    Calls = {c1, c2}
    Analyses = {c1}
    Commits = {k1}
    Updates = TRUE
    MaxMoves = 0
    None = None
PROPERTY
    AnalysisTimeoutHolds
\* All calls return.
CHECK_DEADLOCK FALSE
