SPECIFICATION MCSpec
CONSTANTS
    Calls = {b, a1, a2}
    Analyses = {a1, a2}
    Commits = {k1}
    Updates = TRUE
    MaxMoves = 0
    MaxRestarts = 1
    None = None
INVARIANTS
    ServiceTypeOK
    OneAnalysis
    TreeOfItsCommit
PROPERTIES
    RefusedOnlyWhileBusy
    EveryCallReturns
    SlotComesBack
    ServiceStops
\* The process may be gone for good.
CHECK_DEADLOCK FALSE
