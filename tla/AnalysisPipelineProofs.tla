----------------------- MODULE AnalysisPipelineProofs -----------------------
(***************************************************************************)
(* Safety of one analysis, for any number of scheduler Pods and nodes.     *)
(***************************************************************************)
EXTENDS AnalysisPipeline, TLAPS

-----------------------------------------------------------------------------
(***************************************************************************)
(* Verdicts                                                                *)
(***************************************************************************)
\* Each operator that computes a verdict returns one (filter.Evaluate).
LEMMA NodeOutcomeType ==
    ASSUME NEW ns \in [Nodes -> NodeVerdicts], NEW more \in BOOLEAN,
           NEW n \in Nodes
    PROVE  NodeOutcome(ns[n], more) \in Cells
BY DEF NodeOutcome, Cells, Verdicts

LEMMA NodeAvailabilityType ==
    ASSUME NEW ns, NEW more
    PROVE  NodeAvailability(ns, more) \in Verdicts
BY DEF NodeAvailability, Verdicts

LEMMA StateFromChecksType ==
    ASSUME NEW verdicts
    PROVE  StateFromChecks(verdicts) \in Verdicts
BY DEF StateFromChecks, Verdicts

\* What merged checks add to a node never turns its failure around, so a table
\* without an acceptable node stays one (nodeAvailabilityCheck).
LEMMA FailureSurvivesMerge ==
    ASSUME NEW ns, NEW more \in BOOLEAN,
           NodeAvailability(ns, FALSE) = "fail"
    PROVE  NodeAvailability(ns, more) = "fail"
<1>1. \A n \in Nodes : NodeOutcome(ns[n], FALSE) \in {"fail", "absent"}
  <2> SUFFICES ASSUME NEW n \in Nodes,
                      NodeOutcome(ns[n], FALSE) \notin {"fail", "absent"}
               PROVE  FALSE
    OBVIOUS
  <2>1. NodeOutcome(ns[n], FALSE) \in NodeOutcomes(ns, FALSE)
    BY DEF NodeOutcomes
  <2> QED
    BY <2>1 DEF NodeAvailability
<1>2. \A n \in Nodes : NodeOutcome(ns[n], more) \in {"fail", "absent"}
  BY <1>1 DEF NodeOutcome
<1>3. NodeOutcomes(ns, more) \subseteq {"fail"}
  BY <1>2 DEF NodeOutcomes
<1> QED
  BY <1>3 DEF NodeAvailability

\* allocationCheck reports no failure that the node table does not have.
LEMMA AllocationCheckFailure ==
    ASSUME NEW ns, NEW err, AllocationCheck(ns, err) = "fail"
    PROVE  NodeAvailability(ns, FALSE) = "fail"
BY DEF AllocationCheck

\* What finishReport writes is a report (StageState.Outcome, Diagnosis).
LEMMA FinishReportType ==
    ASSUME TypeOK, NEW h \in HookKinds, NEW o \in BOOLEAN,
           NEW llm \in {"none", "source failed"}, NEW fallback \in BOOLEAN,
           FinishReport(h, o, llm, fallback)
    PROVE  /\ checks' \in [CheckIds -> Cells]
           /\ hooks' \in HookKinds
           /\ optional' \in BOOLEAN
           /\ report' \in Reports
<1>1. Synchronized(h, o) \in [CheckIds -> Cells]
  <2>1. NodeAvailability(nodes, Merged(h, o)) \in Cells
    BY NodeAvailabilityType DEF Cells
  <2> QED
    BY <2>1 DEF Synchronized, TypeOK
<1>2. EnqueueOutcome \in Outcomes
  BY StateFromChecksType DEF EnqueueOutcome, Outcomes, Verdicts
<1>3. JobValidOutcome \in Outcomes
  BY StateFromChecksType DEF JobValidOutcome, Outcomes, Verdicts
<1>4. AllocateOutcome(h, o) \in Outcomes
  BY StateFromChecksType DEF AllocateOutcome, Outcomes, Verdicts
<1>5. ConclusionOf(Synchronized(h, o), h, o) \in {"failures", "passed", "unknown"}
  BY DEF ConclusionOf
<1>6. DiagnosisOf(Synchronized(h, o), EnqueueOutcome, JobValidOutcome,
                  AllocateOutcome(h, o), h, o)
        \in {"preflight failure", "preflight unknown", "enqueue failure",
             "node failure", "insufficient", "no failure"}
  BY DEF DiagnosisOf
<1>7. AllPassed(Synchronized(h, o), h, o) \in BOOLEAN
  BY DEF AllPassed
<1>8. report' \in Reports
  BY <1>2, <1>3, <1>4, <1>5, <1>6, <1>7 DEF FinishReport, Reports
<1> QED
  BY <1>1, <1>8 DEF FinishReport

-----------------------------------------------------------------------------
(***************************************************************************)
(* Type correctness                                                        *)
(***************************************************************************)
LEMMA CaptureType ==
    ASSUME TypeOK, CaptureCacheDump
    PROVE  dump' \in Dumps /\ captures' \in Nat
BY DEF CaptureCacheDump, TypeOK, DumpResults

LEMMA QuotaType ==
    ASSUME NEW snapshot, NEW q \in QuotaVerdicts(snapshot)
    PROVE  q \in Cells \cup {"skipped"}
BY DEF QuotaVerdicts, Cells, Verdicts

LEMMA TypeCorrectInit == Init => TypeOK
<1> SUFFICES ASSUME Init
             PROVE  TypeOK
  OBVIOUS
<1>1. NoPolicy \in Policies /\ NoGroup \in Groups /\ NoDump \in Dumps
  BY DEF NoPolicy, Policies, NoGroup, Groups, NoDump, Dumps
<1>2. EmptyReport \in Reports /\ quota \in Cells \cup {"skipped"}
  BY DEF Init, EmptyReport, Reports, Outcomes, Cells
<1>3. checks \in [CheckIds -> Cells]
  BY DEF Init, Cells
<1>4. nodes \in [Nodes -> NodeVerdicts]
  BY DEF Init, NodeVerdicts, Cells
<1> QED
  BY <1>1, <1>2, <1>3, <1>4 DEF Init, TypeOK, HookKinds, Stages

LEMMA TypeCorrectStep == TypeOK /\ [Next]_vars => TypeOK'
<1> SUFFICES ASSUME TypeOK, [Next]_vars
             PROVE  TypeOK'
  OBVIOUS
<1>1. CASE ContextExpires
  BY <1>1 DEF ContextExpires, TypeOK, inputs
<1>2. CASE TargetPodUnavailable
  BY <1>2 DEF TargetPodUnavailable, TypeOK, inputs, Cells, Verdicts, Stages
<1>3. CASE ValidateTarget
  <2>1. PICK s \in Schedulers \cup {None}, state \in {"pass", "fail"},
             association \in {"pass", "fail"} :
        \E name \in SchedulerNameVerdicts(s), p \in PoliciesOf(s),
           g \in ReadableGroups :
           /\ association = "fail" => g.read = "error"
           /\ scheduler' = s
           /\ policy' = p
           /\ group' = g
           /\ checks' = [checks EXCEPT
                 !["task.state"]          = state,
                 !["task.scheduler"]      = name,
                 !["scheduler.policy"]    = "unknown",
                 !["job.podgroup"]        = association,
                 !["job.podgroup.exists"] = PodGroupVerdict(g),
                 !["plugins.job-valid"]   = "unknown"]
    BY <1>3 DEF ValidateTarget
  <2>2. PICK name \in SchedulerNameVerdicts(s), p \in PoliciesOf(s),
             g \in ReadableGroups :
           /\ scheduler' = s
           /\ policy' = p
           /\ group' = g
           /\ checks' = [checks EXCEPT
                 !["task.state"]          = state,
                 !["task.scheduler"]      = name,
                 !["scheduler.policy"]    = "unknown",
                 !["job.podgroup"]        = association,
                 !["job.podgroup.exists"] = PodGroupVerdict(g),
                 !["plugins.job-valid"]   = "unknown"]
    BY <2>1
  <2>3. name \in Cells /\ PodGroupVerdict(g) \in Cells
    BY DEF SchedulerNameVerdicts, PodGroupVerdict, ReadableGroups, Groups,
           Cells, Verdicts
  <2>4. checks' \in [CheckIds -> Cells]
    BY <2>2, <2>3 DEF TypeOK, Cells, Verdicts
  <2>5. policy' \in Policies /\ group' \in Groups
    BY <2>2 DEF PoliciesOf, ReadableGroups
  <2>6. /\ stopped' \in SUBSET Stages
        /\ noSource' \in BOOLEAN
        /\ pc' \in {"complete", "enqueue"}
    BY <1>3 DEF ValidateTarget, TypeOK, Stages
  <2> QED
    BY <1>3, <2>2, <2>4, <2>5, <2>6 DEF ValidateTarget, TypeOK
<1>4. CASE EvaluateEnqueue
  <2>1. PICK queue \in QueueVerdicts :
           /\ checks' = [checks EXCEPT
                 !["job.queue.exists"]        = queue,
                 !["job.enqueue.evidence"]    = EnqueueEvidence,
                 !["plugins.job-enqueueable"] = "unknown"]
           /\ LoadQueuePresentationEvidence(queue)
    BY <1>4 DEF EvaluateEnqueue
  <2>2. queue \in Cells /\ EnqueueEvidence \in Cells
    BY DEF QueueVerdicts, EnqueueEvidence, Cells, Verdicts
  <2>3. checks' \in [CheckIds -> Cells]
    BY <2>1, <2>2 DEF TypeOK, Cells, Verdicts
  <2>4. dump' \in Dumps /\ captures' \in Nat
    BY <2>1, CaptureType DEF LoadQueuePresentationEvidence, TypeOK
  <2>5. quota' \in Cells \cup {"skipped"}
    BY <2>1, QuotaType DEF LoadQueuePresentationEvidence
  <2>6. stopped' \in SUBSET Stages /\ pc' \in {"complete", "jobValid"}
    BY <1>4 DEF EvaluateEnqueue, TypeOK, Stages
  <2> QED
    BY <1>4, <2>3, <2>4, <2>5, <2>6 DEF EvaluateEnqueue, TypeOK, inputs
<1>5. CASE EvaluateJobValid
  BY <1>5 DEF EvaluateJobValid, TypeOK, Stages, inputs
<1>6. CASE EvaluateAllocate
  <2>1. dump' \in Dumps /\ captures' \in Nat
    BY <1>6, CaptureType DEF EvaluateAllocate
  <2>2. nodes' \in [Nodes -> NodeVerdicts]
    <3>1. PICK listed \in (IF expired THEN {{}} ELSE SUBSET Nodes),
               bestEffort \in BOOLEAN :
            \E kube \in [listed -> Verdicts] :
              nodes' = [n \in Nodes |->
                  IF n \in listed
                  THEN [kube  |-> kube[n],
                        cache |-> CacheVerdict(n, dump', bestEffort)]
                  ELSE nodes[n]]
      BY <1>6 DEF EvaluateAllocate
    <3>2. \A n \in Nodes : CacheVerdict(n, dump', bestEffort) \in Cells
      BY DEF CacheVerdict, Cells, Verdicts
    <3> QED
      BY <3>1, <3>2 DEF TypeOK, NodeVerdicts, Cells
  <2>3. PICK capture \in {"unknown", "pass"} :
          checks' = [checks EXCEPT
              !["cache.capture"] = capture,
              !["scheduler.evidence.identity"] =
                  IdentityVerdict(policy, dump'),
              !["allocate.nodes"]     = AllocationCheck(nodes', expired),
              !["plugins.predicates"] = "unknown"]
    BY <1>6 DEF EvaluateAllocate
  <2>4. /\ IdentityVerdict(policy, dump') \in Cells
        /\ AllocationCheck(nodes', expired) \in Cells
    BY NodeAvailabilityType DEF IdentityVerdict, AllocationCheck, Cells, Verdicts
  <2>5. checks' \in [CheckIds -> Cells]
    BY <2>3, <2>4 DEF TypeOK, Cells, Verdicts
  <2> QED
    BY <1>6, <2>1, <2>2, <2>5 DEF EvaluateAllocate, TypeOK, inputs
<1>7. CASE CompleteReport
  <2>1. CASE pc' = "source"
    BY <1>7, <2>1 DEF CompleteReport, TypeOK, inputs
  <2>2. CASE pc' # "source"
    <3>1. PICK o \in BOOLEAN : FinishReport("none", o, "none", FALSE)
      BY <1>7, <2>2 DEF CompleteReport, OptionalPredicates
    <3>2. /\ checks' \in [CheckIds -> Cells]
          /\ hooks' \in HookKinds
          /\ optional' \in BOOLEAN
          /\ report' \in Reports
      BY <3>1, FinishReportType DEF HookKinds
    <3> QED
      BY <1>7, <3>2 DEF CompleteReport, TypeOK, inputs
  <2> QED
    BY <2>1, <2>2
<1>8. CASE PrepareSourceFails
  <2>1. PICK o \in BOOLEAN : FinishReport("none", o, "source failed", TRUE)
    BY <1>8 DEF PrepareSourceFails, OptionalPredicates
  <2>2. /\ checks' \in [CheckIds -> Cells]
        /\ hooks' \in HookKinds
        /\ optional' \in BOOLEAN
        /\ report' \in Reports
    BY <2>1, FinishReportType DEF HookKinds
  <2> QED
    BY <1>8, <2>2 DEF PrepareSourceFails, TypeOK, inputs
<1>9. CASE PrepareSource
  <2>1. PICK h \in HookKinds, o \in BOOLEAN : FinishReport(h, o, "none", TRUE)
    BY <1>9 DEF PrepareSource, OptionalPredicates
  <2>2. /\ checks' \in [CheckIds -> Cells]
        /\ hooks' \in HookKinds
        /\ optional' \in BOOLEAN
        /\ report' \in Reports
    BY <2>1, FinishReportType
  <2>3. pc' \in {"done", "llm"}
    BY <1>9 DEF PrepareSource
  <2> QED
    BY <1>9, <2>2, <2>3 DEF PrepareSource, TypeOK, inputs
<1>10. ASSUME NEW llm \in {"answer", "manual", "failed"}, Consulted(llm)
       PROVE  TypeOK'
  <2>1. report' \in Reports
    BY <1>10 DEF Consulted, TypeOK, Reports
  <2> QED
    BY <1>10, <2>1 DEF Consulted, TypeOK, inputs
<1>11. CASE LLMAnswers \/ LLMRecommendsManualAnalysis \/ LLMFails
  BY <1>10, <1>11 DEF LLMAnswers, LLMRecommendsManualAnalysis, LLMFails
<1>12. CASE UNCHANGED vars
  BY <1>12 DEF vars, inputs, TypeOK
<1> QED
  BY <1>1, <1>2, <1>3, <1>4, <1>5, <1>6, <1>7, <1>8, <1>9, <1>11, <1>12
  DEF Next, Evaluate

\* Every variable keeps to its set (model/types.go).
THEOREM TypeCorrect == Spec => []TypeOK
  BY TypeCorrectInit, TypeCorrectStep, PTL DEF Spec

-----------------------------------------------------------------------------
(***************************************************************************)
(* The inductive invariant                                                 *)
(***************************************************************************)
\* A capture is counted exactly when its result is memoised, and a quota
\* verdict was computed from a memoised dump without error.
CaptureInv ==
    /\ dump \in DumpResults \cup {NoDump}
    /\ captures = IF Memoised(dump) THEN 1 ELSE 0
    /\ quota \in {"pass", "fail", "skipped"} =>
          Memoised(dump) /\ ~dump.err /\ dump.scheduler # None

\* The rules write each check once, in their order.
OrderInv ==
    /\ pc = "validate" => \A id \in CheckIds : checks[id] = "absent"
    /\ pc = "enqueue" => \A id \in EnqueueChecks : checks[id] = "absent"
    /\ pc \in {"validate", "enqueue", "jobValid", "allocate"} \/ stopped # {} =>
          /\ \A id \in AllocateChecks : checks[id] = "absent"
          /\ Listed = {}
    /\ pc \in {"complete", "source"} /\ checks["allocate.nodes"] = "fail" =>
          NodeAvailability(nodes, FALSE) = "fail"

\* Why the rules stopped, and what a stop decides about the source.
StopInv ==
    /\ pc \in {"validate", "enqueue", "jobValid", "allocate"} =>
          stopped = {} /\ ~noSource
    /\ pc \in {"source", "llm"} => ~noSource
    /\ "preflight" \in stopped => noSource
    /\ KnownStageFailure(checks, EnqueueChecks) => "enqueue" \in stopped
    /\ stopped # {} =>
          \/ KnownStageFailure(checks, CheckIds)
          \/ noSource /\ checks["task.load"] = "unknown"

\* Nothing asks the LLM before its step, and then nothing is proven.
ReportInv ==
    /\ pc # "done" => ~Asked
    /\ pc = "llm" => report.jobValid # "skipped"
    /\ LLMReplacesOnlyQuota
    /\ StagesInOrder

IInv == TypeOK /\ CaptureInv /\ OrderInv /\ StopInv /\ ReportInv

-----------------------------------------------------------------------------
\* captureCacheDump keeps the first attempt, whatever its outcome.
LEMMA CaptureKeepsInv ==
    ASSUME CaptureInv, CaptureCacheDump
    PROVE  /\ dump' \in DumpResults
           /\ Memoised(dump')
           /\ captures' = 1
           /\ Memoised(dump) => dump' = dump
BY DEF CaptureInv, CaptureCacheDump, Memoised, DumpResults, NoDump

LEMMA CaptureInvStep == TypeOK /\ CaptureInv /\ [Next]_vars => CaptureInv'
<1> SUFFICES ASSUME TypeOK, CaptureInv, [Next]_vars
             PROVE  CaptureInv'
  OBVIOUS
<1>1. CASE UNCHANGED <<dump, captures, quota>>
  BY <1>1 DEF CaptureInv, Memoised
<1>2. CASE EvaluateEnqueue
  <2>1. PICK queue \in QueueVerdicts : LoadQueuePresentationEvidence(queue)
    BY <1>2 DEF EvaluateEnqueue
  <2>2. CASE CaptureCacheDump
              /\ \E built \in BOOLEAN :
                    quota' \in QuotaVerdicts(built /\ Snapshot(dump'))
    <3>1. /\ dump' \in DumpResults
          /\ Memoised(dump')
          /\ captures' = 1
      BY <2>2, CaptureKeepsInv
    <3>2. quota' \in {"pass", "fail", "skipped"} => ~dump'.err
      BY <2>2 DEF QuotaVerdicts, Snapshot
    <3>3. ~dump'.err => dump'.scheduler # None
      BY <3>1 DEF DumpResults
    <3> QED
      BY <3>1, <3>2, <3>3 DEF CaptureInv, Memoised
  <2>3. CASE quota' \in QuotaVerdicts(FALSE) /\ UNCHANGED <<dump, captures>>
    <3>1. quota' \notin {"pass", "fail", "skipped"}
      BY <2>3 DEF QuotaVerdicts
    <3> QED
      BY <2>3, <3>1 DEF CaptureInv, Memoised
  <2> QED
    BY <2>1, <2>2, <2>3 DEF LoadQueuePresentationEvidence
<1>3. CASE EvaluateAllocate
  <2>1. /\ dump' \in DumpResults
        /\ Memoised(dump')
        /\ captures' = 1
        /\ Memoised(dump) => dump' = dump
    BY <1>3, CaptureKeepsInv DEF EvaluateAllocate
  <2>2. quota' = quota
    BY <1>3 DEF EvaluateAllocate
  <2> QED
    BY <2>1, <2>2 DEF CaptureInv, Memoised
<1> QED
  BY <1>1, <1>2, <1>3
  DEF Next, Evaluate, vars, ContextExpires, TargetPodUnavailable,
      ValidateTarget, EvaluateJobValid, CompleteReport, PrepareSourceFails,
      PrepareSource, LLMAnswers, LLMRecommendsManualAnalysis, LLMFails,
      Consulted

\* finishReport leaves all checks but allocate.nodes alone, and that one too
\* when the allocate stage was not reached.
LEMMA FinishKeepsChecks ==
    ASSUME TypeOK, NEW h, NEW o, NEW llm, NEW fallback,
           FinishReport(h, o, llm, fallback)
    PROVE  /\ \A id \in CheckIds \ {"allocate.nodes"} : checks'[id] = checks[id]
           /\ stopped # {} => checks' = checks
<1>1. checks' = Synchronized(h, o)
  BY DEF FinishReport
<1>2. stopped # {} => AllocateOutcome(h, o) = "skipped"
  BY DEF AllocateOutcome
<1>3. stopped # {} => checks' = checks
  BY <1>1, <1>2 DEF Synchronized
<1>4. ASSUME NEW id \in CheckIds \ {"allocate.nodes"}
      PROVE  checks'[id] = checks[id]
  BY <1>1 DEF Synchronized, TypeOK
<1> QED
  BY <1>3, <1>4

\* An action that ends the analysis is finishReport or follows it.
LEMMA AfterTheRules ==
    ASSUME TypeOK,
           CompleteReport \/ PrepareSourceFails \/ PrepareSource
    PROVE  /\ UNCHANGED <<stopped, noSource, nodes>>
           /\ pc \in {"complete", "source"}
           /\ pc' \in {"source", "llm", "done"}
           /\ \A id \in CheckIds \ {"allocate.nodes"} : checks'[id] = checks[id]
           /\ stopped # {} => checks' = checks
           /\ pc' = "source" => checks' = checks
<1>1. CASE CompleteReport
  BY <1>1, FinishKeepsChecks DEF CompleteReport
<1>2. CASE PrepareSourceFails
  BY <1>2, FinishKeepsChecks DEF PrepareSourceFails
<1>3. CASE PrepareSource
  BY <1>3, FinishKeepsChecks DEF PrepareSource
<1> QED
  BY <1>1, <1>2, <1>3

LEMMA OrderInvStep ==
    TypeOK /\ OrderInv /\ StopInv /\ [Next]_vars => OrderInv'
<1> SUFFICES ASSUME TypeOK, OrderInv, StopInv, [Next]_vars
             PROVE  OrderInv'
  OBVIOUS
<1>1. CASE ContextExpires \/ UNCHANGED vars
  BY <1>1 DEF ContextExpires, vars, OrderInv, Listed, NodeAvailability,
              NodeOutcomes
<1>2. CASE TargetPodUnavailable
  <2>1. /\ pc = "validate" /\ pc' = "complete"
        /\ nodes' = nodes
        /\ \A id \in CheckIds \ {"task.load"} : checks'[id] = checks[id]
    BY <1>2 DEF TargetPodUnavailable, TypeOK
  <2> QED
    BY <2>1 DEF OrderInv, Listed, CheckIds, AllocateChecks, PreflightChecks
<1>3. CASE ValidateTarget
  <2>1. /\ pc = "validate" /\ pc' \in {"complete", "enqueue"}
        /\ nodes' = nodes
        /\ \A id \in EnqueueChecks \cup AllocateChecks : checks'[id] = checks[id]
    BY <1>3 DEF ValidateTarget, TypeOK, CheckIds, PreflightChecks,
                EnqueueChecks, JobValidChecks, AllocateChecks
  <2> QED
    BY <2>1 DEF OrderInv, Listed, CheckIds, AllocateChecks
<1>4. CASE EvaluateEnqueue
  <2>1. /\ pc = "enqueue" /\ pc' \in {"complete", "jobValid"}
        /\ nodes' = nodes
        /\ \A id \in AllocateChecks : checks'[id] = checks[id]
    BY <1>4 DEF EvaluateEnqueue, TypeOK, CheckIds, EnqueueChecks, AllocateChecks
  <2> QED
    BY <2>1 DEF OrderInv, Listed, AllocateChecks
<1>5. CASE EvaluateJobValid
  <2>1. /\ pc = "jobValid" /\ pc' \in {"complete", "allocate"}
        /\ UNCHANGED <<nodes, checks>>
    BY <1>5 DEF EvaluateJobValid
  <2> QED
    BY <2>1 DEF OrderInv, Listed, AllocateChecks
<1>6. CASE EvaluateAllocate
  <2>1. pc' = "complete" /\ stopped' = {}
    BY <1>6 DEF EvaluateAllocate, StopInv
  <2>2. checks'["allocate.nodes"] = AllocationCheck(nodes', expired)
    BY <1>6 DEF EvaluateAllocate, TypeOK, CheckIds, AllocateChecks
  <2>3. checks'["allocate.nodes"] = "fail" =>
           NodeAvailability(nodes', FALSE) = "fail"
    BY <2>2, AllocationCheckFailure
  <2> QED
    BY <2>1, <2>3 DEF OrderInv, NodeAvailability, NodeOutcomes
<1>7. CASE CompleteReport \/ PrepareSourceFails \/ PrepareSource
  <2>1. /\ UNCHANGED <<stopped, nodes>>
        /\ pc \in {"complete", "source"}
        /\ pc' \in {"source", "llm", "done"}
        /\ stopped # {} => checks' = checks
        /\ pc' = "source" => checks' = checks
    BY <1>7, AfterTheRules
  <2> QED
    BY <2>1 DEF OrderInv, Listed, NodeAvailability, NodeOutcomes
<1>8. CASE LLMAnswers \/ LLMRecommendsManualAnalysis \/ LLMFails
  <2>1. pc' = "done" /\ UNCHANGED <<checks, stopped, nodes>>
    BY <1>8 DEF LLMAnswers, LLMRecommendsManualAnalysis, LLMFails, Consulted
  <2> QED
    BY <2>1 DEF OrderInv, Listed
<1> QED
  BY <1>1, <1>2, <1>3, <1>4, <1>5, <1>6, <1>7, <1>8 DEF Next, Evaluate

LEMMA StopInvStep ==
    TypeOK /\ OrderInv /\ StopInv /\ [Next]_vars => StopInv'
<1> SUFFICES ASSUME TypeOK, OrderInv, StopInv, [Next]_vars
             PROVE  StopInv'
  OBVIOUS
<1>1. CASE ContextExpires \/ UNCHANGED vars
  BY <1>1 DEF ContextExpires, vars, StopInv, KnownStageFailure
<1>2. CASE TargetPodUnavailable
  <2>1. PICK v \in {"fail", "unknown"} :
          checks' = [checks EXCEPT !["task.load"] = v]
    BY <1>2 DEF TargetPodUnavailable
  <2>2. "task.load" \in CheckIds /\ checks'["task.load"] \in {"fail", "unknown"}
    BY <2>1 DEF TypeOK, CheckIds, PreflightChecks
  <2>3. /\ pc = "validate" /\ pc' = "complete"
        /\ stopped' = {"preflight"} /\ noSource'
    BY <1>2 DEF TargetPodUnavailable
  <2>4. ~KnownStageFailure(checks', EnqueueChecks)
    BY <2>1, <2>3 DEF KnownStageFailure, EnqueueChecks, CheckIds, OrderInv, TypeOK
  <2> QED
    BY <2>2, <2>3, <2>4 DEF StopInv, KnownStageFailure
<1>3. CASE ValidateTarget
  <2>1. /\ pc = "validate" /\ stopped = {} /\ ~noSource
        /\ \A id \in EnqueueChecks : checks'[id] = checks[id]
    BY <1>3 DEF ValidateTarget, TypeOK, StopInv, CheckIds, EnqueueChecks
  <2>2. ~KnownStageFailure(checks', EnqueueChecks)
    BY <2>1 DEF KnownStageFailure, OrderInv, CheckIds
  <2>3. \/ /\ KnownStageFailure(checks', PreflightChecks)
           /\ stopped' = {"preflight"} /\ noSource' /\ pc' = "complete"
        \/ pc' = "enqueue" /\ stopped' = {} /\ ~noSource'
    BY <1>3, <2>1 DEF ValidateTarget
  <2>4. KnownStageFailure(checks', PreflightChecks) =>
           KnownStageFailure(checks', CheckIds)
    BY DEF KnownStageFailure, CheckIds
  <2> QED
    BY <2>2, <2>3, <2>4 DEF StopInv
<1>4. CASE EvaluateEnqueue
  <2>1. pc = "enqueue" /\ stopped = {} /\ ~noSource /\ ~noSource'
    BY <1>4 DEF EvaluateEnqueue, StopInv
  <2>2. \/ /\ KnownStageFailure(checks', EnqueueChecks)
           /\ stopped' = {"enqueue", "allocate"} /\ pc' = "complete"
        \/ /\ ~KnownStageFailure(checks', EnqueueChecks)
           /\ stopped' = {} /\ pc' = "jobValid"
    BY <1>4, <2>1 DEF EvaluateEnqueue
  <2>3. KnownStageFailure(checks', EnqueueChecks) =>
           KnownStageFailure(checks', CheckIds)
    BY DEF KnownStageFailure, CheckIds
  <2> QED
    BY <2>1, <2>2, <2>3 DEF StopInv
<1>5. CASE EvaluateJobValid
  <2>1. /\ pc = "jobValid" /\ stopped = {} /\ ~noSource
        /\ UNCHANGED <<checks, noSource>>
    BY <1>5 DEF EvaluateJobValid, StopInv
  <2>2. \/ /\ KnownStageFailure(checks, JobValidChecks)
           /\ stopped' = {"allocate"} /\ pc' = "complete"
        \/ stopped' = {} /\ pc' = "allocate"
    BY <1>5, <2>1 DEF EvaluateJobValid
  <2>3. KnownStageFailure(checks, JobValidChecks) =>
           KnownStageFailure(checks', CheckIds)
    BY <2>1 DEF KnownStageFailure, CheckIds
  <2> QED
    BY <2>1, <2>2, <2>3 DEF StopInv, KnownStageFailure
<1>6. CASE EvaluateAllocate
  <2>1. /\ pc = "allocate" /\ pc' = "complete"
        /\ stopped = {} /\ ~noSource
        /\ UNCHANGED <<stopped, noSource>>
        /\ \A id \in EnqueueChecks : checks'[id] = checks[id]
    BY <1>6 DEF EvaluateAllocate, StopInv, TypeOK, CheckIds, EnqueueChecks
  <2> QED
    BY <2>1 DEF StopInv, KnownStageFailure
<1>7. CASE CompleteReport \/ PrepareSourceFails \/ PrepareSource
  <2>1. /\ UNCHANGED <<stopped, noSource, nodes>>
        /\ pc \in {"complete", "source"}
        /\ pc' \in {"source", "llm", "done"}
        /\ \A id \in CheckIds \ {"allocate.nodes"} : checks'[id] = checks[id]
        /\ stopped # {} => checks' = checks
    BY <1>7, AfterTheRules
  <2>2. pc' \in {"source", "llm"} => ~noSource
    BY <1>7 DEF CompleteReport, PrepareSourceFails, PrepareSource, StopInv
  <2>3. KnownStageFailure(checks', EnqueueChecks) =>
           KnownStageFailure(checks, EnqueueChecks)
    BY <2>1 DEF KnownStageFailure, EnqueueChecks, CheckIds
  <2> QED
    BY <2>1, <2>2, <2>3 DEF StopInv
<1>8. CASE LLMAnswers \/ LLMRecommendsManualAnalysis \/ LLMFails
  <2>1. pc' = "done" /\ UNCHANGED <<checks, stopped, noSource>>
    BY <1>8 DEF LLMAnswers, LLMRecommendsManualAnalysis, LLMFails, Consulted
  <2> QED
    BY <2>1 DEF StopInv, KnownStageFailure
<1> QED
  BY <1>1, <1>2, <1>3, <1>4, <1>5, <1>6, <1>7, <1>8 DEF Next, Evaluate

\* A stage is skipped in the report of finishReport by the flags of the stop.
LEMMA FinishSkipsStages ==
    ASSUME NEW h, NEW o, NEW llm, NEW fallback,
           FinishReport(h, o, llm, fallback)
    PROVE  /\ report'.enqueue = "skipped" <=> "preflight" \in stopped
           /\ report'.jobValid = "skipped" <=>
                stopped \cap {"preflight", "enqueue"} # {}
           /\ report'.allocate = "skipped" <=> stopped # {}
           /\ report'.llm = llm
<1>1. report'.enqueue = EnqueueOutcome /\ report'.jobValid = JobValidOutcome
  BY DEF FinishReport
<1>2. report'.allocate = AllocateOutcome(h, o) /\ report'.llm = llm
  BY DEF FinishReport
<1>3. EnqueueOutcome = "skipped" <=> "preflight" \in stopped
  BY StateFromChecksType DEF EnqueueOutcome, Verdicts
<1>4. JobValidOutcome = "skipped" <=> stopped \cap {"preflight", "enqueue"} # {}
  BY StateFromChecksType DEF JobValidOutcome, Verdicts
<1>5. AllocateOutcome(h, o) = "skipped" <=> stopped # {}
  BY StateFromChecksType DEF AllocateOutcome, Verdicts
<1> QED
  BY <1>1, <1>2, <1>3, <1>4, <1>5

\* With no failure in the check list, none is in the allocate table either:
\* synchronizePresentation made the two agree.
LEMMA NoFailureNoFailedTable ==
    ASSUME TypeOK, NEW h, NEW o, NEW llm, NEW fallback,
           FinishReport(h, o, llm, fallback),
           ~KnownStageFailure(checks', CheckIds)
    PROVE  report'.allocate # "fail"
<1> SUFFICES ASSUME AllocateOutcome(h, o) = "fail"
             PROVE  FALSE
  BY DEF FinishReport
<1>1. stopped = {}
  BY DEF AllocateOutcome
<1>2. checks' = [checks EXCEPT
                   !["allocate.nodes"] = NodeAvailability(nodes, Merged(h, o))]
  BY DEF FinishReport, Synchronized
<1>3. checks'["allocate.nodes"] = NodeAvailability(nodes, Merged(h, o))
  BY <1>2 DEF TypeOK, CheckIds, AllocateChecks
<1>4. \A id \in AllocateChecks : checks'[id] # "fail"
  BY DEF KnownStageFailure, CheckIds
<1>5. \A id \in AllocateChecks \ {"allocate.nodes"} : checks[id] # "fail"
  BY <1>2, <1>4 DEF TypeOK, CheckIds
<1>6. "fail" \notin
        {checks["cache.capture"], checks["scheduler.evidence.identity"],
         NodeAvailability(nodes, Merged(h, o))}
        \cup (IF h = "none" THEN {checks["plugins.predicates"]} ELSE {})
        \cup (IF h = "unknown" THEN {"unknown"} ELSE {})
  BY <1>3, <1>4, <1>5 DEF AllocateChecks
<1> QED
  BY <1>1, <1>6 DEF AllocateOutcome, StateFromChecks

\* With no failure in the check list, a diagnosis that names one can only be of the
\* quota check, which buildEnqueuePresentation adds to its table.
LEMMA NoFailureOnlyQuota ==
    ASSUME TypeOK, NEW h, NEW o, NEW llm, NEW fallback,
           FinishReport(h, o, llm, fallback), stopped = {},
           ~KnownStageFailure(checks', CheckIds),
           report'.diagnosis \in Proven
    PROVE  report'.diagnosis = "enqueue failure" /\ quota = "fail"
<1>1. checks' = [checks EXCEPT
                   !["allocate.nodes"] = NodeAvailability(nodes, Merged(h, o))]
  BY DEF FinishReport, Synchronized, AllocateOutcome, StateFromChecks
<1>2. report'.diagnosis = DiagnosisOf(checks', EnqueueOutcome, JobValidOutcome,
                                     AllocateOutcome(h, o), h, o)
  BY DEF FinishReport
<1>3. ~KnownStageFailure(checks', PreflightChecks)
  BY DEF KnownStageFailure, CheckIds
<1>4. EnqueueOutcome = "fail" => quota = "fail"
  <2>1. \A id \in EnqueueChecks : checks[id] # "fail"
    BY <1>1 DEF KnownStageFailure, CheckIds, EnqueueChecks, TypeOK
  <2> QED
    BY <2>1 DEF EnqueueOutcome, StateFromChecks
<1>5. NodeOutcomes(nodes, Merged(h, o)) # {"fail"}
  <2>1. checks'["allocate.nodes"] = NodeAvailability(nodes, Merged(h, o))
    BY <1>1 DEF TypeOK, CheckIds, AllocateChecks
  <2>2. checks'["allocate.nodes"] # "fail"
    BY DEF KnownStageFailure, CheckIds, AllocateChecks
  <2> QED
    BY <2>1, <2>2 DEF NodeAvailability
<1> QED
  BY <1>2, <1>3, <1>4, <1>5 DEF DiagnosisOf, Proven

\* The stages of a finished report are in order.
LEMMA FinishOrdersStages ==
    ASSUME TypeOK, OrderInv, StopInv, NEW h, NEW o, NEW llm, NEW fallback,
           FinishReport(h, o, llm, fallback), nodes' = nodes,
           \A id \in CheckIds \ {"allocate.nodes"} : checks'[id] = checks[id],
           stopped # {} => checks' = checks
    PROVE  StagesInOrder'
<1>1. KnownStageFailure(checks', EnqueueChecks) => "enqueue" \in stopped
  BY DEF KnownStageFailure, EnqueueChecks, CheckIds, StopInv
<1>2. stopped # {} => /\ Listed' = {}
                      /\ \A id \in AllocateChecks : checks'[id] = "absent"
  BY DEF OrderInv, Listed
<1> QED
  BY <1>1, <1>2, FinishSkipsStages DEF StagesInOrder

LEMMA ReportInvStep == IInv /\ [Next]_vars => ReportInv'
<1> SUFFICES ASSUME IInv, [Next]_vars
             PROVE  ReportInv'
  OBVIOUS
<1> USE DEF IInv
<1>1. CASE ContextExpires \/ UNCHANGED vars
  <2>1. UNCHANGED <<pc, noSource, checks, quota, nodes, report>>
    BY <1>1 DEF ContextExpires, inputs, vars
  <2> QED
    BY <2>1 DEF ReportInv, Asked, Done, Listed, LLMReplacesOnlyQuota,
                StagesInOrder, KnownStageFailure
<1>2. CASE TargetPodUnavailable \/ ValidateTarget \/ EvaluateEnqueue
             \/ EvaluateJobValid \/ EvaluateAllocate
  <2>1. pc \in {"validate", "enqueue", "jobValid", "allocate"}
    BY <1>2 DEF TargetPodUnavailable, ValidateTarget, EvaluateEnqueue,
                EvaluateJobValid, EvaluateAllocate
  <2>2. report' = report
    BY <1>2 DEF TargetPodUnavailable, ValidateTarget, EvaluateEnqueue,
                EvaluateJobValid, EvaluateAllocate
  <2>3. pc' \in {"enqueue", "jobValid", "allocate", "complete"}
    BY <1>2 DEF TargetPodUnavailable, ValidateTarget, EvaluateEnqueue,
                EvaluateJobValid, EvaluateAllocate
  <2> QED
    BY <2>1, <2>2, <2>3 DEF ReportInv, Asked, Done, LLMReplacesOnlyQuota,
                            StagesInOrder
<1>3. CASE CompleteReport /\ pc' = "source"
  <2>1. report' = report
    BY <1>3 DEF CompleteReport
  <2> QED
    BY <1>3, <2>1 DEF CompleteReport, ReportInv, Asked, Done,
                      LLMReplacesOnlyQuota, StagesInOrder
<1>4. CASE (CompleteReport /\ pc' # "source") \/ PrepareSourceFails
  <2>1. PICK o \in BOOLEAN, llm \in {"none", "source failed"},
             fallback \in BOOLEAN : FinishReport("none", o, llm, fallback)
    BY <1>4 DEF CompleteReport, PrepareSourceFails, OptionalPredicates
  <2>2. ~Asked'
    BY <2>1, FinishSkipsStages DEF Asked
  <2>3. pc' = "done"
    BY <1>4 DEF CompleteReport, PrepareSourceFails
  <2>4. StagesInOrder'
    BY <1>4, <2>1, AfterTheRules, FinishOrdersStages
  <2> QED
    BY <2>2, <2>3, <2>4 DEF ReportInv, LLMReplacesOnlyQuota
<1>5. CASE PrepareSource
  <2>1. PICK h \in HookKinds, o \in BOOLEAN :
             /\ FinishReport(h, o, "none", TRUE)
             /\ pc' = IF LLMNeeded(checks', h) THEN "llm" ELSE "done"
    BY <1>5 DEF PrepareSource, OptionalPredicates
  <2>2. ~Asked'
    BY <2>1 DEF FinishReport, Asked
  <2>3. StagesInOrder'
    <3>1. /\ nodes' = nodes
          /\ \A id \in CheckIds \ {"allocate.nodes"} : checks'[id] = checks[id]
          /\ stopped # {} => checks' = checks
      BY <1>5, AfterTheRules
    <3> QED
      BY <2>1, <3>1, FinishOrdersStages
  <2>4. ASSUME pc' = "llm"
        PROVE  /\ ~noSource'
               /\ ~KnownStageFailure(checks', CheckIds)
               /\ report'.enqueue # "skipped"
               /\ report'.jobValid # "skipped"
               /\ report'.allocate \notin {"fail", "skipped"}
               /\ report'.diagnosis \in Proven =>
                     report'.diagnosis = "enqueue failure" /\ quota' = "fail"
    <3>1. ~noSource /\ ~noSource'
      BY <1>5 DEF PrepareSource, StopInv
    <3>2. ~KnownStageFailure(checks', CheckIds)
      BY <2>1, <2>4 DEF LLMNeeded
    <3>3. stopped # {} => checks' = checks
      BY <1>5, AfterTheRules
    <3>4. stopped = {}
      BY <3>1, <3>2, <3>3 DEF StopInv
    <3>5. /\ report'.enqueue # "skipped"
          /\ report'.jobValid # "skipped"
          /\ report'.allocate # "skipped"
      BY <2>1, <3>4, FinishSkipsStages
    <3>6. report'.allocate # "fail"
      BY <2>1, <3>2, NoFailureNoFailedTable
    <3>7. report'.diagnosis \in Proven =>
            report'.diagnosis = "enqueue failure" /\ quota' = "fail"
      BY <1>5, <2>1, <3>2, <3>4, NoFailureOnlyQuota DEF PrepareSource
    <3> QED
      BY <3>1, <3>2, <3>5, <3>6, <3>7
  <2> QED
    BY <2>2, <2>3, <2>4 DEF ReportInv, LLMReplacesOnlyQuota
<1>6. CASE LLMAnswers \/ LLMRecommendsManualAnalysis \/ LLMFails
  <2>1. PICK llm \in {"answer", "manual", "failed"} : Consulted(llm)
    BY <1>6 DEF LLMAnswers, LLMRecommendsManualAnalysis, LLMFails
  <2>2. /\ pc = "llm" /\ pc' = "done"
        /\ UNCHANGED <<checks, stopped, noSource, quota, nodes>>
    BY <2>1 DEF Consulted
  <2>3. /\ report'.enqueue = report.enqueue
        /\ report'.jobValid = report.jobValid
        /\ report'.allocate = report.allocate
        /\ report'.diagnosis \in {report.diagnosis, "llm", "manual"}
    BY <2>1 DEF Consulted, TypeOK, Reports
  <2>4. LLMReplacesOnlyQuota'
    BY <2>2, <2>3 DEF ReportInv, LLMReplacesOnlyQuota, KnownStageFailure, Proven
  <2>5. stopped = {}
    BY <2>2 DEF ReportInv, LLMReplacesOnlyQuota, StopInv
  <2>6. ~KnownStageFailure(checks', EnqueueChecks)
    BY <2>2 DEF ReportInv, LLMReplacesOnlyQuota, KnownStageFailure, CheckIds
  <2> QED
    BY <2>2, <2>3, <2>4, <2>5, <2>6
    DEF ReportInv, LLMReplacesOnlyQuota, StagesInOrder
<1> QED
  BY <1>1, <1>2, <1>3, <1>4, <1>5, <1>6 DEF Next, Evaluate

-----------------------------------------------------------------------------
(***************************************************************************)
(* Theorems                                                                *)
(***************************************************************************)
LEMMA InitIInv == Init => IInv
<1> SUFFICES ASSUME Init, TypeOK
             PROVE  CaptureInv /\ OrderInv /\ StopInv /\ ReportInv
  BY TypeCorrectInit DEF IInv
<1>1. CaptureInv
  BY DEF Init, CaptureInv, Memoised, NoDump
<1>2. OrderInv
  BY DEF Init, OrderInv, Listed, CheckIds, AllocateChecks
<1>3. StopInv
  BY DEF Init, StopInv, KnownStageFailure, CheckIds
<1>4. ReportInv
  BY DEF Init, ReportInv, EmptyReport, Asked, Done, LLMReplacesOnlyQuota,
         StagesInOrder
<1> QED
  BY <1>1, <1>2, <1>3, <1>4

LEMMA IInvHolds == Spec => []IInv
<1>1. IInv /\ [Next]_vars => IInv'
  BY TypeCorrectStep, CaptureInvStep, OrderInvStep, StopInvStep, ReportInvStep
  DEF IInv
<1> QED
  BY InitIInv, <1>1, PTL DEF Spec

\* One analysis signals the scheduler at most once (captureCacheDump).
THEOREM OneCaptureHolds == Spec => []OneCapture
<1>1. IInv => OneCapture
  BY DEF IInv, CaptureInv, OneCapture
<1> QED
  BY IInvHolds, <1>1, PTL

\* A quota verdict rests on the whole dump that the analysis keeps
\* (loadQueuePresentationEvidence).
THEOREM QuotaFromWholeDumpHolds == Spec => []QuotaFromWholeDump
<1>1. IInv => QuotaFromWholeDump
  BY DEF IInv, CaptureInv, QuotaFromWholeDump
<1> QED
  BY IInvHolds, <1>1, PTL

\* Rules stop on a proven failure or an unreadable target (rules.go).
THEOREM StopIsProvenHolds == Spec => []StopIsProven
<1>1. IInv => StopIsProven
  BY DEF IInv, StopInv, StopIsProven, KnownStageFailure
<1> QED
  BY IInvHolds, <1>1, PTL

\* Stages are reported as not reached in order, and without evidence
\* (buildPresentation).
THEOREM StagesInOrderHolds == Spec => []StagesInOrder
<1>1. IInv => StagesInOrder
  BY DEF IInv, ReportInv
<1> QED
  BY IInvHolds, <1>1, PTL

\* applySourceFallback asks the LLM only if no check of the report failed, and what
\* it says then replaces no proven failure but that of the quota formula.
THEOREM LLMReplacesOnlyQuotaHolds == Spec => []LLMReplacesOnlyQuota
<1>1. IInv => LLMReplacesOnlyQuota
  BY DEF IInv, ReportInv
<1> QED
  BY IInvHolds, <1>1, PTL

\* The node table that is written back keeps a failure (finishReport).
LEMMA FinishKeepsFailures ==
    ASSUME TypeOK, OrderInv, pc \in {"complete", "source"},
           NEW h, NEW o \in BOOLEAN, NEW llm, NEW fallback,
           FinishReport(h, o, llm, fallback),
           NEW id \in CheckIds, checks[id] = "fail"
    PROVE  checks'[id] = "fail"
<1>1. CASE id = "allocate.nodes"
  <2>1. NodeAvailability(nodes, FALSE) = "fail"
    BY <1>1 DEF OrderInv
  <2>2. Merged(h, o) \in BOOLEAN
    BY DEF Merged
  <2>3. NodeAvailability(nodes, Merged(h, o)) = "fail"
    BY <2>1, <2>2, FailureSurvivesMerge
  <2>4. checks' = Synchronized(h, o)
    BY DEF FinishReport
  <2> QED
    BY <1>1, <2>3, <2>4 DEF Synchronized, TypeOK
<1>2. CASE id # "allocate.nodes"
  BY <1>2, FinishKeepsChecks
<1> QED
  BY <1>1, <1>2

LEMMA FailureStays ==
    ASSUME IInv, [Next]_vars, NEW id \in CheckIds, checks[id] = "fail"
    PROVE  checks'[id] = "fail"
<1> USE DEF IInv
<1>1. CASE TargetPodUnavailable \/ ValidateTarget
  BY <1>1 DEF TargetPodUnavailable, ValidateTarget, OrderInv
<1>2. CASE EvaluateEnqueue
  <2>1. id \notin EnqueueChecks
    BY <1>2 DEF EvaluateEnqueue, OrderInv
  <2> QED
    BY <1>2, <2>1 DEF EvaluateEnqueue, TypeOK, EnqueueChecks
<1>3. CASE EvaluateAllocate
  <2>1. id \notin AllocateChecks
    BY <1>3 DEF EvaluateAllocate, OrderInv
  <2> QED
    BY <1>3, <2>1 DEF EvaluateAllocate, TypeOK, AllocateChecks
<1>4. CASE CompleteReport
  BY <1>4, FinishKeepsFailures DEF CompleteReport, OptionalPredicates
<1>5. CASE PrepareSourceFails
  BY <1>5, FinishKeepsFailures DEF PrepareSourceFails, OptionalPredicates
<1>6. CASE PrepareSource
  BY <1>6, FinishKeepsFailures DEF PrepareSource, OptionalPredicates
<1>7. CASE UNCHANGED checks
  BY <1>7
<1> QED
  BY <1>1, <1>2, <1>3, <1>4, <1>5, <1>6, <1>7
  DEF Next, Evaluate, vars, ContextExpires, EvaluateJobValid, LLMAnswers,
      LLMRecommendsManualAnalysis, LLMFails, Consulted

\* A failure proven by a rule is still a failure in the report
\* (synchronizePresentation).
THEOREM FailureIsFinalHolds == Spec => FailureIsFinal
<1>1. IInv /\ [Next]_vars =>
        [\A id \in CheckIds : checks[id] = "fail" => checks'[id] = "fail"]_vars
  BY FailureStays
<1> QED
  BY IInvHolds, <1>1, PTL DEF Spec, FailureIsFinal

-----------------------------------------------------------------------------
(***************************************************************************)
(* What the report concludes                                               *)
(***************************************************************************)
\* The evidence of the dump and the plugins may be missing, but no rule fails
\* it; a failure of the preflight stage is what stopped the rules there.
VerdictInv ==
    /\ \A id \in JobValidChecks \cup AllocateChecks :
          id # "allocate.nodes" => checks[id] # "fail"
    /\ KnownStageFailure(checks, PreflightChecks) => "preflight" \in stopped

LEMMA VerdictInvStep == IInv /\ VerdictInv /\ [Next]_vars => VerdictInv'
<1> SUFFICES ASSUME IInv, VerdictInv, [Next]_vars
             PROVE  VerdictInv'
  OBVIOUS
<1> USE DEF IInv
<1>0. /\ JobValidChecks \cup AllocateChecks \subseteq CheckIds
      /\ PreflightChecks \subseteq CheckIds
  BY DEF CheckIds
<1>1. CASE TargetPodUnavailable
  <2>1. PICK v : checks' = [checks EXCEPT !["task.load"] = v]
    BY <1>1 DEF TargetPodUnavailable
  <2>2. \A id \in JobValidChecks \cup AllocateChecks : checks'[id] = checks[id]
    BY <2>1 DEF TypeOK, JobValidChecks, AllocateChecks
  <2> QED
    BY <1>1, <2>2 DEF TargetPodUnavailable, VerdictInv
<1>2. CASE ValidateTarget
  <2>1. /\ checks'["plugins.job-valid"] = "unknown"
        /\ \A id \in AllocateChecks : checks'[id] = checks[id]
    BY <1>2 DEF ValidateTarget, TypeOK, CheckIds, JobValidChecks, AllocateChecks
  <2>2. KnownStageFailure(checks', PreflightChecks) => "preflight" \in stopped'
    BY <1>2 DEF ValidateTarget
  <2> QED
    BY <2>1, <2>2 DEF VerdictInv, JobValidChecks
<1>3. CASE EvaluateEnqueue
  <2>1. \A id \in CheckIds \ EnqueueChecks : checks'[id] = checks[id]
    BY <1>3 DEF EvaluateEnqueue, TypeOK, EnqueueChecks
  <2>2. stopped = {}
    BY <1>3 DEF EvaluateEnqueue, StopInv
  <2>3. \A id \in PreflightChecks : checks[id] # "fail"
    BY <2>2 DEF VerdictInv, KnownStageFailure
  <2>4. \A id \in PreflightChecks \cup JobValidChecks \cup AllocateChecks : checks'[id] = checks[id]
    BY <2>1 DEF CheckIds, PreflightChecks, JobValidChecks, AllocateChecks, EnqueueChecks
  <2> QED
    BY <2>3, <2>4 DEF VerdictInv, KnownStageFailure
<1>4. CASE EvaluateAllocate
  <2>1. PICK capture \in {"unknown", "pass"} :
          checks' = [checks EXCEPT
              !["cache.capture"] = capture,
              !["scheduler.evidence.identity"] = IdentityVerdict(policy, dump'),
              !["allocate.nodes"]     = AllocationCheck(nodes', expired),
              !["plugins.predicates"] = "unknown"]
    BY <1>4 DEF EvaluateAllocate
  <2>2. IdentityVerdict(policy, dump') # "fail"
    BY DEF IdentityVerdict
  <2>3. \A id \in AllocateChecks : id # "allocate.nodes" => checks'[id] # "fail"
    BY <2>1, <2>2 DEF TypeOK, CheckIds, AllocateChecks
  <2>4. \A id \in PreflightChecks \cup JobValidChecks : checks'[id] = checks[id]
    BY <2>1, <1>0 DEF TypeOK, PreflightChecks, JobValidChecks
  <2>5. stopped' = stopped
    BY <1>4 DEF EvaluateAllocate
  <2> QED
    BY <2>3, <2>4, <2>5 DEF VerdictInv, KnownStageFailure, JobValidChecks
<1>5. CASE CompleteReport \/ PrepareSourceFails \/ PrepareSource
  <2>1. /\ stopped' = stopped
        /\ \A id \in CheckIds \ {"allocate.nodes"} : checks'[id] = checks[id]
    BY <1>5, AfterTheRules
  <2>2. \A id \in PreflightChecks \cup JobValidChecks \cup AllocateChecks :
           id # "allocate.nodes" => checks'[id] = checks[id]
    BY <1>0, <2>1
  <2>3. "allocate.nodes" \notin PreflightChecks
    BY DEF PreflightChecks
  <2> QED
    BY <2>1, <2>2, <2>3 DEF VerdictInv, KnownStageFailure
<1>6. CASE UNCHANGED checks /\ (UNCHANGED stopped \/ stopped = {})
  BY <1>6 DEF VerdictInv, KnownStageFailure
<1>7. EvaluateJobValid => UNCHANGED checks /\ stopped = {}
  BY DEF EvaluateJobValid, StopInv
<1>8. ContextExpires \/ LLMAnswers \/ LLMRecommendsManualAnalysis \/ LLMFails \/ UNCHANGED vars
        => UNCHANGED <<checks, stopped>>
  BY DEF ContextExpires, LLMAnswers, LLMRecommendsManualAnalysis, LLMFails, Consulted, vars
<1> QED
  BY <1>1, <1>2, <1>3, <1>4, <1>5, <1>6, <1>7, <1>8 DEF Next, Evaluate

\* What the text, the table and the root cause say of the check list.
Agrees ==
    /\ report.conclusion = "failures" <=> KnownStageFailure(checks, CheckIds)
    /\ report.allocate = "fail" <=> KnownStageFailure(checks, AllocateChecks)

NamesFailure ==
    KnownStageFailure(checks, CheckIds) /\ Listed # {} =>
        report.diagnosis =
            IF report.enqueue = "fail" THEN "enqueue failure" ELSE "node failure"

\* synchronizePresentation writes the verdict that the table has.
LEMMA TableHasTheVerdict ==
    ASSUME TypeOK, stopped = {}, NEW h, NEW o, NEW llm, NEW fallback,
           FinishReport(h, o, llm, fallback)
    PROVE  checks' = [checks EXCEPT
                        !["allocate.nodes"] = NodeAvailability(nodes, Merged(h, o))]
<1>1. AllocateOutcome(h, o) # "skipped"
  BY StateFromChecksType DEF AllocateOutcome, Verdicts
<1> QED
  BY <1>1 DEF FinishReport, Synchronized

LEMMA FinishAgrees ==
    ASSUME TypeOK, OrderInv, VerdictInv, NEW h, NEW o, NEW llm, NEW fallback,
           FinishReport(h, o, llm, fallback)
    PROVE  Agrees'
<1>1. report'.conclusion = "failures" <=> KnownStageFailure(checks', CheckIds)
  <2>1. report'.conclusion = ConclusionOf(checks', h, o)
    BY DEF FinishReport
  <2>2. AllPassed(checks', h, o) => ~KnownStageFailure(checks', CheckIds)
    BY DEF AllPassed, KnownStageFailure
  <2> QED
    BY <2>1, <2>2 DEF ConclusionOf
<1>2. report'.allocate = AllocateOutcome(h, o)
  BY DEF FinishReport
<1>3. CASE stopped # {}
  <2>1. checks' = checks /\ AllocateOutcome(h, o) = "skipped"
    BY <1>3, FinishKeepsChecks DEF AllocateOutcome
  <2>2. ~KnownStageFailure(checks', AllocateChecks)
    BY <1>3, <2>1 DEF OrderInv, KnownStageFailure
  <2> QED
    BY <1>1, <1>2, <2>1, <2>2 DEF Agrees
<1>4. CASE stopped = {}
  <2>1. checks'["allocate.nodes"] = NodeAvailability(nodes, Merged(h, o))
    BY <1>4, TableHasTheVerdict DEF TypeOK, CheckIds, AllocateChecks
  <2>2. \A id \in AllocateChecks : id # "allocate.nodes" => checks[id] # "fail" /\ checks'[id] # "fail"
    BY <1>4, TableHasTheVerdict DEF TypeOK, CheckIds, VerdictInv
  <2>3. KnownStageFailure(checks', AllocateChecks) <=> NodeAvailability(nodes, Merged(h, o)) = "fail"
    BY <2>1, <2>2 DEF KnownStageFailure, AllocateChecks
  <2>4. "fail" \in {checks["cache.capture"], checks["scheduler.evidence.identity"],
                    NodeAvailability(nodes, Merged(h, o))}
                   \cup (IF h = "none" THEN {checks["plugins.predicates"]} ELSE {})
                   \cup (IF h = "unknown" THEN {"unknown"} ELSE {})
          <=> NodeAvailability(nodes, Merged(h, o)) = "fail"
    BY <2>2 DEF AllocateChecks
  <2>5. AllocateOutcome(h, o) = "fail" <=> NodeAvailability(nodes, Merged(h, o)) = "fail"
    BY <1>4, <2>4 DEF AllocateOutcome, StateFromChecks
  <2> QED
    BY <1>1, <1>2, <2>3, <2>5 DEF Agrees
<1> QED
  BY <1>3, <1>4

\* diagnoseReport comes to the nodes only if no earlier stage failed, and then
\* only they can have.
LEMMA FinishNamesFailure ==
    ASSUME TypeOK, OrderInv, StopInv, VerdictInv, NEW h, NEW o, NEW llm, NEW fallback,
           FinishReport(h, o, llm, fallback), nodes' = nodes
    PROVE  NamesFailure'
<1> SUFFICES ASSUME KnownStageFailure(checks', CheckIds), Listed' # {}
             PROVE  report'.diagnosis = IF report'.enqueue = "fail"
                                        THEN "enqueue failure" ELSE "node failure"
  BY DEF NamesFailure
<1>1. stopped = {} /\ Listed # {}
  BY DEF OrderInv, Listed
<1>2. checks' = [checks EXCEPT
                   !["allocate.nodes"] = NodeAvailability(nodes, Merged(h, o))]
  BY <1>1, TableHasTheVerdict
<1>3. \A id \in PreflightChecks \cup EnqueueChecks : checks'[id] # "fail"
  <2>1. \A id \in PreflightChecks \cup EnqueueChecks : checks[id] # "fail"
    BY <1>1 DEF VerdictInv, StopInv, KnownStageFailure
  <2> QED
    BY <1>2, <2>1 DEF TypeOK, CheckIds, PreflightChecks, EnqueueChecks
<1>4. \A id \in JobValidChecks \cup AllocateChecks : id # "allocate.nodes" => checks'[id] # "fail"
  BY <1>2 DEF VerdictInv, TypeOK, CheckIds
<1>5. checks'["allocate.nodes"] = "fail"
  BY <1>3, <1>4 DEF KnownStageFailure, CheckIds
<1>6. NodeAvailability(nodes, Merged(h, o)) = "fail"
  BY <1>2, <1>5 DEF TypeOK, CheckIds, AllocateChecks
<1>7. NodeOutcomes(nodes, Merged(h, o)) = {"fail"}
  <2>1. NodeOutcomes(nodes, Merged(h, o)) \subseteq {"fail"}
    BY <1>6 DEF NodeAvailability
  <2>2. PICK n \in Nodes : nodes[n].kube # "absent"
    BY <1>1 DEF Listed
  <2>3. NodeOutcome(nodes[n], Merged(h, o)) # "absent"
    BY <2>2 DEF NodeOutcome
  <2>4. NodeOutcome(nodes[n], Merged(h, o)) \in NodeOutcomes(nodes, Merged(h, o))
    BY <2>3 DEF NodeOutcomes
  <2> QED
    BY <2>1, <2>4
<1>8. ~KnownStageFailure(checks', PreflightChecks)
  BY <1>3 DEF KnownStageFailure
<1>9. AllocateOutcome(h, o) # "skipped"
  BY <1>1, StateFromChecksType DEF AllocateOutcome, Verdicts
<1>10. /\ report'.diagnosis = DiagnosisOf(checks', EnqueueOutcome, JobValidOutcome,
                                          AllocateOutcome(h, o), h, o)
       /\ report'.enqueue = EnqueueOutcome
  BY DEF FinishReport
<1> QED
  BY <1>7, <1>8, <1>9, <1>10 DEF DiagnosisOf

ConcludedInv == pc \in {"llm", "done"} => Agrees /\ NamesFailure

LEMMA ConcludedInvStep == IInv /\ VerdictInv /\ ConcludedInv /\ [Next]_vars => ConcludedInv'
<1> SUFFICES ASSUME IInv, VerdictInv, ConcludedInv, [Next]_vars, pc' \in {"llm", "done"}
             PROVE  Agrees' /\ NamesFailure'
  BY DEF ConcludedInv
<1> USE DEF IInv
<1>1. CASE \E h, o, llm, fallback : FinishReport(h, o, llm, fallback) /\ nodes' = nodes
  BY <1>1, FinishAgrees, FinishNamesFailure
<1>2. CompleteReport \/ PrepareSourceFails \/ PrepareSource
        => \E h, o, llm, fallback : FinishReport(h, o, llm, fallback) /\ nodes' = nodes
  <2>1. CompleteReport => \E o : FinishReport("none", o, "none", FALSE) /\ nodes' = nodes
    BY DEF CompleteReport
  <2>2. PrepareSourceFails => \E o : FinishReport("none", o, "source failed", TRUE) /\ nodes' = nodes
    BY DEF PrepareSourceFails
  <2>3. PrepareSource => \E h, o : FinishReport(h, o, "none", TRUE) /\ nodes' = nodes
    BY DEF PrepareSource
  <2> QED
    BY <2>1, <2>2, <2>3
<1>3. CASE LLMAnswers \/ LLMRecommendsManualAnalysis \/ LLMFails
  <2>1. PICK llm \in {"answer", "manual", "failed"} : Consulted(llm)
    BY <1>3 DEF LLMAnswers, LLMRecommendsManualAnalysis, LLMFails
  <2>2. pc = "llm" /\ checks' = checks
    BY <2>1 DEF Consulted
  <2>3. ~KnownStageFailure(checks, CheckIds) /\ report.allocate # "fail"
    BY <2>2 DEF ReportInv, LLMReplacesOnlyQuota
  <2>4. ~KnownStageFailure(checks', CheckIds) /\ ~KnownStageFailure(checks', AllocateChecks)
    BY <2>2, <2>3 DEF KnownStageFailure, CheckIds
  <2>5. report.conclusion # "failures"
    BY <2>2, <2>3 DEF ConcludedInv, Agrees
  <2>6. report'.allocate = report.allocate /\ report'.conclusion # "failures"
    BY <2>1, <2>5 DEF Consulted, TypeOK, Reports
  <2> QED
    BY <2>3, <2>4, <2>6 DEF Agrees, NamesFailure
<1>4. CASE pc \in {"llm", "done"} /\ UNCHANGED <<checks, nodes, report>>
  BY <1>4 DEF ConcludedInv, Agrees, NamesFailure, Listed, KnownStageFailure
<1>5. ContextExpires \/ UNCHANGED vars => pc \in {"llm", "done"} /\ UNCHANGED <<checks, nodes, report>>
  BY DEF ContextExpires, vars
<1>6. ~(TargetPodUnavailable \/ ValidateTarget \/ EvaluateEnqueue \/ EvaluateJobValid \/ EvaluateAllocate)
  BY DEF TargetPodUnavailable, ValidateTarget, EvaluateEnqueue, EvaluateJobValid, EvaluateAllocate
<1> QED
  BY <1>1, <1>2, <1>3, <1>4, <1>5, <1>6 DEF Next, Evaluate

LEMMA ConcludedInvHolds == Spec => []ConcludedInv
<1>1. Init => IInv /\ VerdictInv /\ ConcludedInv
  BY InitIInv DEF Init, VerdictInv, ConcludedInv, KnownStageFailure, CheckIds
<1>2. IInv /\ VerdictInv /\ ConcludedInv /\ [Next]_vars => (VerdictInv /\ ConcludedInv)'
  BY VerdictInvStep, ConcludedInvStep
<1> QED
  BY <1>1, <1>2, IInvHolds, PTL DEF Spec

\* The conclusion and the allocate table say what the check list says
\* (finalizeReport, buildAllocatePresentation, synchronizePresentation).
THEOREM ReportAgreesHolds == Spec => []ReportAgrees
<1>1. ConcludedInv => ReportAgrees
  BY DEF ConcludedInv, ReportAgrees, Agrees, Done
<1> QED
  BY <1>1, ConcludedInvHolds, PTL

\* The root cause is the earliest proven failure (diagnoseReport).
THEOREM DiagnosisNamesFailureHolds == Spec => []DiagnosisNamesFailure
<1>1. ConcludedInv => DiagnosisNamesFailure
  BY DEF ConcludedInv, DiagnosisNamesFailure, NamesFailure, Done
<1> QED
  BY <1>1, ConcludedInvHolds, PTL

-----------------------------------------------------------------------------
(***************************************************************************)
(* Why an analysis ends                                                    *)
(***************************************************************************)
\* The steps that are left from each rule or completion step on, at most.
StepsFrom == [validate |-> 7, enqueue |-> 6, jobValid |-> 5, allocate |-> 4,
              complete |-> 3, source |-> 2, llm |-> 1, done |-> 0]
StepsLeft == StepsFrom[pc]

\* Every step of Analyze uses up one of at most seven, and nothing gives one back:
\* no rule is run again, whatever failed, and the LLM is consulted once.
THEOREM AnalysisStepsRunOut ==
    Spec => [][/\ Evaluate => StepsLeft' < StepsLeft
               /\ StepsLeft' <= StepsLeft]_vars
<1>1. TypeOK => StepsLeft \in 0 .. 7
  BY DEF TypeOK, StepsLeft, StepsFrom
<1>2. (TypeOK => StepsLeft \in 0 .. 7)'
  BY <1>1, PTL
<1>3. TypeOK /\ ContextExpires => StepsLeft' <= StepsLeft
  BY <1>1 DEF ContextExpires, StepsLeft
<1>4. TypeOK /\ Evaluate => StepsLeft' < StepsLeft
  <2> SUFFICES ASSUME TypeOK, Evaluate
               PROVE  StepsLeft' < StepsLeft
    OBVIOUS
  <2>1. \/ pc = "validate" /\ pc' \in {"enqueue", "complete"}
        \/ pc = "enqueue" /\ pc' \in {"jobValid", "complete"}
        \/ pc = "jobValid" /\ pc' \in {"allocate", "complete"}
        \/ pc = "allocate" /\ pc' = "complete"
        \/ pc = "complete" /\ pc' \in {"source", "done"}
        \/ pc = "source" /\ pc' \in {"llm", "done"}
        \/ pc = "llm" /\ pc' = "done"
    BY DEF Evaluate, TargetPodUnavailable, ValidateTarget, EvaluateEnqueue,
       EvaluateJobValid, EvaluateAllocate, CompleteReport, PrepareSourceFails,
       PrepareSource, LLMAnswers, LLMRecommendsManualAnalysis, LLMFails, Consulted
  <2> QED
    BY <2>1 DEF StepsLeft, StepsFrom
<1>5. TypeOK /\ [Next]_vars =>
        [/\ Evaluate => StepsLeft' < StepsLeft
         /\ StepsLeft' <= StepsLeft]_vars
  <2> SUFFICES ASSUME TypeOK, Next
               PROVE  /\ Evaluate => StepsLeft' < StepsLeft
                      /\ StepsLeft' <= StepsLeft
    BY <1>1
  <2>1. StepsLeft \in 0 .. 7
    BY <1>1
  <2>2. CASE Evaluate
    <3>1. StepsLeft' < StepsLeft
      BY <1>4, <2>2
    <3>2. StepsLeft' \in 0 .. 7
      BY <1>2, TypeCorrectStep
    <3> QED
      BY <2>1, <2>2, <3>1, <3>2
  <2>3. CASE ~Evaluate
    BY <1>3, <2>3 DEF Next
  <2> QED
    BY <2>2, <2>3
<1> QED
  BY <1>5, TypeCorrect, PTL DEF Spec
=============================================================================
