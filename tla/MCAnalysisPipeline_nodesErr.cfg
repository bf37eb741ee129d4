SPECIFICATION Spec
CONSTANTS
    Schedulers = {s1}
    Nodes = {n1}
    None = None
INVARIANT NodeCollectionErrorIsUnknown
CHECK_DEADLOCK FALSE
