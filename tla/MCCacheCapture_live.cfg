SPECIFICATION Spec
CONSTANTS
    Captures = {c1, c2}
    Pods = {p1}
    Nodes = {n1}
    MaxDumps = 1
    MaxLeaders = 0
    None = None
INVARIANT TypeOK
PROPERTIES
    EveryCaptureReturns
    NoScannerLeaks
\* All captures return.
CHECK_DEADLOCK FALSE
