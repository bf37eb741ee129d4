SPECIFICATION Spec
CONSTANTS
    p1 = p1
    p2 = p2
    l1 = l1
    l2 = l2
    Replicas <- MCReplicas
    Leases <- MCLeases
    Flags <- MCFlags
    Configurations <- MCConfigurations
    MaxUid = 2
    Dims = {"cpu", "gpu"}
    Jobs <- MCJobs
    Target = "target"
    Tasks = {1, 2}
    Specs <- MCSpecs
    Starts <- MCStarts
    QueueLists <- MCQueueLists
    NodeLists <- MCNodeLists
    MaxChanges = 1
    None = None
INVARIANTS
    TypeOK
    LeaderNotPassedOver
    PolicyIsOfSelected
    OneScheduler
    QuotaIsFormula
    EvidenceAsPipeline
\* The analysis ends.
CHECK_DEADLOCK FALSE
