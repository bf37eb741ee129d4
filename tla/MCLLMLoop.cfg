SPECIFICATION MCSpec
CONSTANTS
    Keys = {podA, podB, events, logs}
    PodKeys = {podA, podB}
    EventKeys = {events}
    Ids = {i1, i2}
    Pods = {v1, v2}
    Sizes = {1, 3}
    MaxRounds = 3
    ToolCount = 1
    MaxSize = 4
    ErrorSize = 1
    MaxAsked = 2
    None = None
INVARIANTS
    TypeOK
    ProtocolKept
    SameCallSameAnswer
    OneSessionPod
    LimitsHold
    BudgetHolds
PROPERTIES
    ConsultsAsPipeline
    LoopEnds
\* A loop ends.
CHECK_DEADLOCK FALSE
