SPECIFICATION Spec
CONSTANTS
    Captures = {c1}
    Pods = {p1, p2}
    Nodes = {n1}
    MaxDumps = 2
    MaxLeaders = 1
    None = None
SYMMETRY Symmetry
INVARIANT
    LeaderConfirmed
PROPERTY
    PromiseKept
\* All captures return.
CHECK_DEADLOCK FALSE
