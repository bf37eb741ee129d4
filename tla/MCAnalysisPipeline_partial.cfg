SPECIFICATION Spec
CONSTANTS
    Schedulers = {s1}
    Nodes = {n1}
    None = None
INVARIANT PartialDumpDecidesNothing
CHECK_DEADLOCK FALSE
