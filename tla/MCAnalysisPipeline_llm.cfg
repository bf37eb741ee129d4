SPECIFICATION Spec
CONSTANTS
    Schedulers = {s1}
    Nodes = {n1}
    None = None
INVARIANT LLMOnlyWithoutConclusion
CHECK_DEADLOCK FALSE
