SPECIFICATION Spec
CONSTANTS
    Schedulers = {s1}
    Nodes = {n1}
    None = None
INVARIANT RejectedEnqueueEndsStages
CHECK_DEADLOCK FALSE
