SPECIFICATION Spec
CONSTANTS
    Schedulers = {s1, s2}
    Nodes = {n1, n2}
    None = None
SYMMETRY Symmetry
INVARIANTS
    TypeOK
    OneCapture
    QuotaFromWholeDump
    StopIsProven
    StagesInOrder
    ReportAgrees
    DiagnosisNamesFailure
    LLMReplacesOnlyQuota
    AnalysisGoesOn
PROPERTIES
    FailureIsFinal
\* An analysis ends: that it does so only with a report is AnalysisGoesOn.
CHECK_DEADLOCK FALSE
