-------------------------- MODULE AnalysisPipeline --------------------------
(***************************************************************************)
(* One call of agent.Analyze: the four registered rules (validate,         *)
(* enqueue, jobValid, allocate) run in order over one RuleState, then the  *)
(* report is completed, possibly with the source and LLM fallback, and     *)
(* presented.  A rule is one action: what it reads from the cluster is     *)
(* chosen by \E.  The request context can expire between two rules.        *)
(*                                                                         *)
(* A check is reduced to its verdict, a presentation table to its outcome. *)
(* SchedulerPolicy.ActiveDeterminate is FALSE in every policy the code     *)
(* builds (runtime/policy.go), so what it guards is not represented.       *)
(***************************************************************************)
EXTENDS Naturals, FiniteSets

CONSTANTS
    Schedulers, \* identities (namespace, name and UID) of scheduler Pods
    Nodes,      \* names of Kubernetes nodes
    None        \* the empty scheduler identity

ASSUME NoneAssumption == None \notin Schedulers

VARIABLES
    pc,        \* the rule or completion step that runs next
    expired,   \* the request context is done
    branch,    \* Request.Branch was given
    scheduler, \* RuleState.scheduler, None when it could not be selected
    policy,    \* Report.Policy
    group,     \* the PodGroup as validateRule read it
    checks,    \* Report.Checks, one verdict per check
    stopped,   \* the PreflightStopped, EnqueueStopped, AllocateStopped flags
    noSource,  \* RuleState.finishWithoutSource
    dump,      \* RuleState.cacheDump and cacheDumpErr
    captures,  \* calls of Client.CaptureCacheDump so far
    quota,     \* verdict of queue.enqueue-capacity, "absent" without it
    nodesErr,  \* ListNodes failed
    nodes,     \* Report.Nodes, the verdicts of each listed node
    hooks,     \* Predicate hooks that the plugin inspection reported
    optional,  \* an optional predicate the node checks skipped may be enabled
    report     \* what the report says once it has been finished

vars == <<pc, expired, branch, scheduler, policy, group, checks, stopped,
          noSource, dump, captures, quota, nodesErr, nodes, hooks, optional,
          report>>

\* What the validate rule establishes and later rules only read.
inputs == <<branch, scheduler, policy, group>>

Verdicts == {"pass", "fail", "unknown"}

PreflightChecks == {"task.load", "task.state", "task.scheduler",
                    "scheduler.policy", "job.podgroup", "job.podgroup.exists"}
EnqueueChecks   == {"job.queue.exists", "job.enqueue.evidence",
                    "plugins.job-enqueueable"}
JobValidChecks  == {"plugins.job-valid"}
AllocateChecks  == {"cache.capture", "scheduler.evidence.identity",
                    "allocate.nodes", "plugins.predicates"}
CheckIds == PreflightChecks \cup EnqueueChecks \cup JobValidChecks
              \cup AllocateChecks

\* A stage stopped by what is merely not known (a fault the runs must see).
AnyNotPassed(c, stage) == \E id \in stage : c[id] \in {"fail", "unknown"}

\* knownStageFailure and knownFailures: a determinate check that did not pass.
KnownStageFailure(c, stage) == \E id \in stage : c[id] = "fail"

\* hasUnknown: some check of the report is not determinate.
HasUnknown(c) == \E id \in CheckIds : c[id] = "unknown"

-----------------------------------------------------------------------------
Policies == [determinate : BOOLEAN, enqueue : BOOLEAN, quota : BOOLEAN,
             scheduler : Schedulers \cup {None}]

\* GetVolcanoSchedulerConfigurationFor and ObservePolicy: only a parsed
\* ConfigMap of a selected scheduler has actions and plugins; a context that
\* expired leaves no identity behind.
PoliciesOf(s) ==
    {p \in Policies :
        /\ p.scheduler \in {s, None}
        /\ p.determinate => p.scheduler # None
        /\ ~p.determinate => ~p.enqueue /\ ~p.quota}

NoPolicy == [determinate |-> FALSE, enqueue |-> FALSE, quota |-> FALSE,
             scheduler |-> None]

Groups == [read : {"found", "notFound", "error"}, inQueue : BOOLEAN,
           minResources : BOOLEAN]

\* A PodGroup that was not read is the zero value.
ReadableGroups ==
    {g \in Groups : g.read # "found" => ~g.inQueue /\ ~g.minResources}

NoGroup == [read |-> "error", inQueue |-> FALSE, minResources |-> FALSE]

Dumps == [nil : BOOLEAN, err : BOOLEAN, nodes : SUBSET Nodes,
          short : SUBSET Nodes, scheduler : Schedulers \cup {None}]

\* The values CaptureCacheDump returns.  Its node map is nil after an error
\* before the dump was read, partial after one while it was read; "short"
\* are the nodes whose idle and releasing resources the Pod exceeds.
DumpResults ==
    {d \in Dumps :
        /\ d.short \subseteq d.nodes
        /\ d.nil => d.err /\ d.nodes = {}
        /\ d.scheduler = None => d.err /\ ~d.nil /\ d.nodes = {}}

NoDump == [nil |-> TRUE, err |-> FALSE, nodes |-> {}, short |-> {},
           scheduler |-> None]

Cells == Verdicts \cup {"absent"}
NodeVerdicts == [kube : Cells, cache : Cells]

Stages    == {"preflight", "enqueue", "allocate"}
Outcomes  == {"none", "pass", "fail", "unknown", "skipped"}
HookKinds == {"none", "skipped", "unknown"}
Reports   == [enqueue : Outcomes, jobValid : Outcomes, allocate : Outcomes,
              passed : BOOLEAN,
              conclusion : {"none", "failures", "passed", "unknown", "llm",
                            "manual"},
              diagnosis : {"none", "preflight failure", "preflight unknown",
                           "enqueue failure", "node failure", "insufficient",
                           "no failure", "llm", "manual"},
              llm : {"none", "source failed", "answer", "manual", "failed"},
              sourceFallback : BOOLEAN]

EmptyReport ==
    [enqueue |-> "none", jobValid |-> "none", allocate |-> "none",
     passed |-> FALSE, conclusion |-> "none", diagnosis |-> "none",
     llm |-> "none", sourceFallback |-> FALSE]

Init ==
    /\ pc = "validate"
    /\ expired \in BOOLEAN
    /\ branch \in BOOLEAN
    /\ scheduler = None
    /\ policy = NoPolicy
    /\ group = NoGroup
    /\ checks = [id \in CheckIds |-> "absent"]
    /\ stopped = {}
    /\ noSource = FALSE
    /\ dump = NoDump
    /\ captures = 0
    /\ quota = "absent"
    /\ nodesErr = FALSE
    /\ nodes = [n \in Nodes |-> [kube |-> "absent", cache |-> "absent"]]
    /\ hooks = "none"
    /\ optional = FALSE
    /\ report = EmptyReport

-----------------------------------------------------------------------------
\* The analysis timeout elapses or the client disconnects.
ContextExpires ==
    /\ pc # "done"
    /\ ~expired
    /\ expired' = TRUE
    /\ UNCHANGED <<pc, inputs, checks, stopped, noSource, dump, captures,
                   quota, nodesErr, nodes, hooks, optional, report>>

(***************************************************************************)
(* validateRule                                                            *)
(***************************************************************************)
\* GetPod fails: the target is gone, or could not be read.
TargetPodUnavailable ==
    /\ pc = "validate"
    /\ \E v \in {"fail", "unknown"} :
          /\ expired => v = "unknown"
          /\ checks' = [checks EXCEPT !["task.load"] = v]
    /\ stopped' = {"preflight"}
    /\ noSource' = TRUE
    /\ pc' = "complete"
    /\ UNCHANGED <<expired, inputs, dump, captures, quota, nodesErr, nodes,
                   hooks, optional, report>>

\* The verdict of task.scheduler for a scheduler that was, or was not, selected.
SchedulerNameVerdicts(s) == IF s = None THEN {"fail", "unknown"} ELSE Verdicts

PodGroupVerdict(g) ==
    CASE g.read = "found"    -> "pass"
      [] g.read = "notFound" -> "fail"
      [] g.read = "error"    -> "unknown"

\* The Pod was read: scheduler, policy and PodGroup follow, and any known
\* failure of the preflight stage ends the analysis without source.
ValidateTarget ==
    /\ pc = "validate"
    /\ ~expired
    /\ \E s \in Schedulers \cup {None}, state \in {"pass", "fail"},
          association \in {"pass", "fail"} :
       \E name \in SchedulerNameVerdicts(s), p \in PoliciesOf(s),
          g \in ReadableGroups :
          /\ association = "fail" => g.read = "error"
          /\ scheduler' = s
          /\ policy' = p
          /\ group' = g
          /\ checks' = [checks EXCEPT
                !["task.state"]          = state,
                !["task.scheduler"]      = name,
                !["scheduler.policy"]    = "unknown",
                !["job.podgroup"]        = association,
                !["job.podgroup.exists"] = PodGroupVerdict(g),
                !["plugins.job-valid"]   = "unknown"]
    /\ IF KnownStageFailure(checks', PreflightChecks)
       THEN /\ stopped' = {"preflight"}
            /\ noSource' = TRUE
            /\ pc' = "complete"
       ELSE /\ pc' = "enqueue"
            /\ UNCHANGED <<stopped, noSource>>
    /\ UNCHANGED <<expired, branch, dump, captures, quota, nodesErr, nodes,
                   hooks, optional, report>>

(***************************************************************************)
(* RuleState.captureCacheDump                                              *)
(***************************************************************************)
\* Only a dump is kept, an error is forgotten (a fault the runs must see).
MemoisedDumpOnly(d) == ~d.nil

\* A dump, or the error of the attempt, is kept for the rest of the analysis.
Memoised(d) == ~d.nil \/ d.err

CaptureCacheDump ==
    IF Memoised(dump)
    THEN /\ dump' = dump
         /\ captures' = captures
    ELSE /\ dump' \in DumpResults
         /\ expired => dump'.err /\ dump'.nodes = {}
         /\ captures' = captures + 1

(***************************************************************************)
(* enqueueRule                                                             *)
(***************************************************************************)
\* evaluateQueue after collectQueue: the Queue of a PodGroup that was read.
QueueVerdicts ==
    IF group.read = "found" /\ ~expired THEN Verdicts ELSE {"unknown"}

\* enqueue.Evaluate on job.enqueue.evidence.  Events decide nothing: with or
\* without them the verdict of what is left is unknown.
EnqueueEvidence ==
    CASE policy.determinate /\ ~policy.enqueue -> "unknown"
      [] policy.determinate /\ policy.enqueue
           /\ group.read = "found" /\ ~group.inQueue -> "fail"
      [] ~(policy.determinate /\ ~policy.enqueue)
           /\ group.read = "found" /\ group.inQueue -> "pass"
      [] OTHER -> "unknown"

\* queueCapacityCheck: the quota formula needs a snapshot and a parsed policy.
QuotaVerdicts(snapshot) ==
    CASE ~group.minResources         -> {"absent"}
      [] group.minResources /\ ~(snapshot /\ policy.determinate)
                                     -> {"unknown"}
      [] group.minResources /\ snapshot /\ policy.determinate
           /\ ~policy.quota          -> {"skipped"}
      [] OTHER                       -> Verdicts

\* The snapshot of a dump with an error (a fault the runs must see).
SnapshotOfAnyDump(d) == ~d.nil

\* BuildQueueSnapshot is called on a dump that was captured without error.
Snapshot(d) == ~d.err

\* loadQueuePresentationEvidence: a dump is wanted only with a scheduler, a
\* queue, and the list of all queues; the snapshot is built from a whole dump.
LoadQueuePresentationEvidence(queue) ==
    \E queuesListed \in BOOLEAN :
        IF scheduler # None /\ queue = "pass" /\ queuesListed
        THEN /\ CaptureCacheDump
             /\ \E built \in BOOLEAN :
                   quota' \in QuotaVerdicts(built /\ Snapshot(dump'))
        ELSE /\ quota' \in QuotaVerdicts(FALSE)
             /\ UNCHANGED <<dump, captures>>

EvaluateEnqueue ==
    /\ pc = "enqueue"
    /\ \E queue \in QueueVerdicts :
          /\ checks' = [checks EXCEPT
                !["job.queue.exists"]        = queue,
                !["job.enqueue.evidence"]    = EnqueueEvidence,
                !["plugins.job-enqueueable"] = "unknown"]
          /\ LoadQueuePresentationEvidence(queue)
    /\ IF KnownStageFailure(checks', EnqueueChecks)
       THEN /\ stopped' = {"enqueue", "allocate"}
            /\ pc' = "complete"
       ELSE /\ pc' = "jobValid"
            /\ UNCHANGED stopped
    /\ UNCHANGED <<expired, inputs, noSource, nodesErr, nodes, hooks, optional, report>>

(***************************************************************************)
(* jobValidRule                                                            *)
(***************************************************************************)
EvaluateJobValid ==
    /\ pc = "jobValid"
    /\ IF KnownStageFailure(checks, JobValidChecks)
       THEN /\ stopped' = {"allocate"}
            /\ pc' = "complete"
       ELSE /\ pc' = "allocate"
            /\ UNCHANGED stopped
    /\ UNCHANGED <<expired, inputs, checks, noSource, dump, captures, quota,
                   nodesErr, nodes, hooks, optional, report>>

(***************************************************************************)
(* allocateRule                                                            *)
(***************************************************************************)
\* node.resources and node.pod-count, which read the node's cache entry: a
\* fit is only proven for a Pod without resource requests.
CacheVerdict(n, d, bestEffort) ==
    CASE n \notin d.nodes                                     -> "unknown"
      [] n \in d.short                                        -> "fail"
      [] n \in d.nodes /\ n \notin d.short /\ bestEffort      -> "pass"
      [] n \in d.nodes /\ n \notin d.short /\ ~bestEffort     -> "unknown"

\* What is unknown wins over a known failure (a fault the runs must see).
NodeOutcomeUnknownFirst(v, more) ==
    CASE v.kube = "absent" -> "absent"
      [] v.kube # "absent" /\ (more \/ "unknown" \in {v.kube, v.cache})
                           -> "unknown"
      [] v.kube # "absent" /\ ~more /\ {v.kube, v.cache} = {"pass"} -> "pass"
      [] OTHER             -> "fail"

\* The outcome of a node: a known failure wins over what is unknown.  "more"
\* says that unknown checks were merged into the node's own.
NodeOutcome(v, more) ==
    CASE v.kube = "absent"            -> "absent"
      [] "fail" \in {v.kube, v.cache} -> "fail"
      [] v.kube # "absent" /\ "fail" \notin {v.kube, v.cache}
           /\ (more \/ "unknown" \in {v.kube, v.cache}) -> "unknown"
      [] OTHER                        -> "pass"

NodeOutcomes(ns, more) == {NodeOutcome(ns[n], more) : n \in Nodes} \ {"absent"}

\* nodeAvailabilityCheck over the nodes of the report.
NodeAvailability(ns, more) ==
    CASE "pass" \in NodeOutcomes(ns, more)                 -> "pass"
      [] NodeOutcomes(ns, more) \subseteq {"fail"}         -> "fail"
      [] OTHER                                             -> "unknown"

\* filter.allocationCheck: as above, but unknown when nodes were not listed.
AllocationCheck(ns, err) ==
    IF err THEN "unknown" ELSE NodeAvailability(ns, FALSE)

\* A missing identity skips the check (a fault the runs must see).
IdentityVerdictSkipped(p, d) ==
    IF None \in {p.scheduler, d.scheduler} THEN "skipped"
    ELSE IF p.scheduler = d.scheduler THEN "pass" ELSE "unknown"

\* schedulerEvidenceIdentityCheck.
IdentityVerdict(p, d) ==
    IF p.scheduler # None /\ p.scheduler = d.scheduler
    THEN "pass" ELSE "unknown"

\* The node informer lists nodes unless the context is done.  "eligible" are
\* the Ready nodes that the selector and the affinity of the Pod admit.
EvaluateAllocate ==
    /\ pc = "allocate"
    /\ CaptureCacheDump
    /\ nodesErr' = expired
    /\ \E listed \in (IF expired THEN {{}} ELSE SUBSET Nodes),
          bestEffort \in BOOLEAN :
       \E kube \in [listed -> Verdicts], eligible \in SUBSET listed :
          /\ {n \in listed : kube[n] # "fail"} \subseteq eligible
          /\ nodes' = [n \in Nodes |->
                IF n \in listed
                THEN [kube  |-> kube[n],
                      cache |-> CacheVerdict(n, dump', bestEffort)]
                ELSE nodes[n]]
          /\ checks' = [checks EXCEPT
                !["cache.capture"] =
                    IF dump'.err \/ ~(eligible \subseteq dump'.nodes)
                    THEN "unknown" ELSE "pass",
                !["scheduler.evidence.identity"] =
                    IdentityVerdict(policy, dump'),
                !["allocate.nodes"]     = AllocationCheck(nodes', expired),
                !["plugins.predicates"] = "unknown"]
    /\ pc' = "complete"
    /\ UNCHANGED <<expired, inputs, stopped, noSource, quota, hooks, optional, report>>

(***************************************************************************)
(* finishReport: the tables are built from the verdicts, the node table is *)
(* written back into Report.Checks, then conclusion and diagnosis follow.  *)
(***************************************************************************)
\* stateFromChecks.
StateFromChecks(verdicts) ==
    CASE "fail" \in verdicts                               -> "fail"
      [] "pass" \in verdicts /\ verdicts \cap {"fail", "unknown"} = {}
                                                           -> "pass"
      [] OTHER                                             -> "unknown"

\* buildEnqueuePresentation: the table adds the quota check to the stage.
EnqueueOutcome ==
    IF "preflight" \in stopped THEN "skipped"
    ELSE LET verdicts == {checks[id] : id \in EnqueueChecks} \cup {quota}
         IN  IF "fail" \notin verdicts /\ checks["job.enqueue.evidence"] = "pass"
             THEN "pass" ELSE StateFromChecks(verdicts)

\* The enqueue stop is not looked at (a fault the runs must see).
JobValidOutcomeOfPreflight ==
    IF "preflight" \in stopped THEN "skipped"
    ELSE StateFromChecks({checks[id] : id \in JobValidChecks})

\* buildJobValidPresentation.
JobValidOutcome ==
    IF stopped \cap {"preflight", "enqueue"} # {} THEN "skipped"
    ELSE StateFromChecks({checks[id] : id \in JobValidChecks})

\* Unknown checks that normalizePredicateChecks and the Predicate hooks of
\* the selected source add to every node.
Merged(h, o) == h = "unknown" \/ o

\* buildAllocatePresentation: the node verdict is computed anew, and hook
\* checks replace the generic plugins.predicates.
AllocateOutcome(h, o) ==
    IF stopped # {} THEN "skipped"
    ELSE StateFromChecks(
            {checks["cache.capture"], checks["scheduler.evidence.identity"],
             NodeAvailability(nodes, Merged(h, o))}
            \cup (IF h = "none" THEN {checks["plugins.predicates"]} ELSE {})
            \cup (IF h = "unknown" THEN {"unknown"} ELSE {}))

\* The node table is not written back (a fault the runs must see).
NotSynchronized(h, o) == checks

\* synchronizePresentation: replaceCheck with the verdict of the node table.
Synchronized(h, o) ==
    IF AllocateOutcome(h, o) = "skipped" THEN checks
    ELSE [checks EXCEPT
             !["allocate.nodes"] = NodeAvailability(nodes, Merged(h, o))]

\* finalizeReport: Report.Passed.
AllPassed(c, h, o) ==
    /\ \A id \in CheckIds : c[id] \in {"pass", "absent"}
    /\ NodeOutcomes(nodes, Merged(h, o)) \subseteq {"pass"}
    /\ h # "unknown"

\* finalizeReport: the conclusion.
ConclusionOf(c, h, o) ==
    CASE KnownStageFailure(c, CheckIds) -> "failures"
      [] AllPassed(c, h, o)             -> "passed"
      [] OTHER                          -> "unknown"

\* What is unknown is named before the nodes (a fault the runs must see).
DiagnosisOfUnknownFirst(c, enq, job, alloc, h, o) ==
    IF KnownStageFailure(c, PreflightChecks) THEN "preflight failure"
    ELSE IF enq = "fail" THEN "enqueue failure"
    ELSE IF "unknown" \in {enq, job, alloc} THEN "insufficient"
    ELSE IF NodeOutcomes(nodes, Merged(h, o)) = {"fail"} THEN "node failure"
    ELSE "no failure"

\* diagnoseReport: the first stage that explains the Pending Pod.
DiagnosisOf(c, enq, job, alloc, h, o) ==
    IF KnownStageFailure(c, PreflightChecks) THEN "preflight failure"
    ELSE IF {enq, job, alloc} = {"skipped"}
             /\ \E id \in PreflightChecks : c[id] = "unknown"
         THEN "preflight unknown"
    ELSE IF enq = "fail" THEN "enqueue failure"
    ELSE IF alloc # "skipped" /\ NodeOutcomes(nodes, Merged(h, o)) = {"fail"}
         THEN "node failure"
    ELSE IF "unknown" \in {enq, job, alloc} THEN "insufficient"
    ELSE "no failure"

FinishReport(h, o, llm, fallback) ==
    /\ checks' = Synchronized(h, o)
    /\ hooks' = h
    /\ optional' = o
    /\ report' =
          [enqueue   |-> EnqueueOutcome,
           jobValid  |-> JobValidOutcome,
           allocate  |-> AllocateOutcome(h, o),
           passed    |-> AllPassed(Synchronized(h, o), h, o),
           conclusion |-> ConclusionOf(Synchronized(h, o), h, o),
           diagnosis |-> DiagnosisOf(Synchronized(h, o), EnqueueOutcome,
                            JobValidOutcome, AllocateOutcome(h, o), h, o),
           llm |-> llm, sourceFallback |-> fallback]

\* An optional predicate may be enabled by the arguments of a parsed policy
\* or, once a source is selected, by the defaults of its branch.
OptionalPredicates(sourced) ==
    IF policy.determinate \/ sourced THEN BOOLEAN ELSE {FALSE}

(***************************************************************************)
(* Analyze after the rules, completeReport and applySourceFallback         *)
(***************************************************************************)
\* A source is needed unless the preflight failed; it is selected by the
\* branch of the request or by the version of the scheduler.
CompleteReport ==
    /\ pc = "complete"
    /\ IF noSource \/ (scheduler = None /\ ~branch)
       THEN /\ \E o \in OptionalPredicates(FALSE) :
                   FinishReport("none", o, "none", FALSE)
            /\ pc' = "done"
       ELSE /\ pc' = "source"
            /\ UNCHANGED <<checks, hooks, optional, report>>
    /\ UNCHANGED <<expired, inputs, stopped, noSource, dump, captures, quota,
                   nodesErr, nodes>>

\* git, or the source index, fails; git commands run under the context.
PrepareSourceFails ==
    /\ pc = "source"
    /\ \E o \in OptionalPredicates(FALSE) :
          FinishReport("none", o, "source failed", TRUE)
    /\ pc' = "done"
    /\ UNCHANGED <<expired, inputs, stopped, noSource, dump, captures, quota,
                   nodesErr, nodes>>

\* Anything unknown leads to the LLM (a fault the runs must see).
LLMNeededIfUnknown(c, h) == HasUnknown(c) \/ h = "unknown"

\* applySourceFallback: no known failure, and something is unknown.
LLMNeeded(c, h) ==
    /\ ~KnownStageFailure(c, CheckIds)
    /\ HasUnknown(c) \/ h = "unknown"

\* The worktree is indexed and the plugin hooks are inspected.
PrepareSource ==
    /\ pc = "source"
    /\ ~expired
    /\ \E h \in HookKinds, o \in OptionalPredicates(TRUE) :
          /\ h # "none" => policy.determinate
          /\ FinishReport(h, o, "none", TRUE)
          /\ pc' = IF LLMNeeded(checks', h) THEN "llm" ELSE "done"
    /\ UNCHANGED <<expired, inputs, stopped, noSource, dump, captures, quota,
                   nodesErr, nodes>>

\* Client calls to the LLM end with the answer ...
Consulted(llm) ==
    /\ pc = "llm"
    /\ pc' = "done"
    /\ UNCHANGED <<expired, inputs, checks, stopped, noSource, dump, captures,
                   quota, nodesErr, nodes, hooks, optional>>
    /\ report' = IF llm = "failed" THEN [report EXCEPT !.llm = llm]
                 ELSE [report EXCEPT
                         !.llm        = llm,
                         !.conclusion = IF llm = "answer" THEN "llm" ELSE llm,
                         !.diagnosis  = IF llm = "answer" THEN "llm" ELSE llm]

LLMAnswers == ~expired /\ Consulted("answer")

\* ... with the round limit, a deadline or the cancellation of the request,
LLMRecommendsManualAnalysis == Consulted("manual")

\* ... or with another error, which leaves conclusion and diagnosis alone.
LLMFails == Consulted("failed")

-----------------------------------------------------------------------------
\* An LLM call always answers (a fault the runs must see).
EvaluateWithAnswers ==
    \/ TargetPodUnavailable
    \/ ValidateTarget
    \/ EvaluateEnqueue
    \/ EvaluateJobValid
    \/ EvaluateAllocate
    \/ CompleteReport
    \/ PrepareSourceFails
    \/ PrepareSource
    \/ LLMAnswers

Evaluate ==
    \/ TargetPodUnavailable
    \/ ValidateTarget
    \/ EvaluateEnqueue
    \/ EvaluateJobValid
    \/ EvaluateAllocate
    \/ CompleteReport
    \/ PrepareSourceFails
    \/ PrepareSource
    \/ LLMAnswers
    \/ LLMRecommendsManualAnalysis
    \/ LLMFails

Next == ContextExpires \/ Evaluate

\* A call of Analyze is a loop without waits of its own: every call it makes
\* returns, with an error at the latest when the context is done.
Spec == Init /\ [][Next]_vars /\ WF_vars(Evaluate)

-----------------------------------------------------------------------------
\* Every variable of RuleState and of the report keeps to its set.
TypeOK ==
    /\ pc \in {"validate", "enqueue", "jobValid", "allocate", "complete",
               "source", "llm", "done"}
    /\ expired \in BOOLEAN
    /\ branch \in BOOLEAN
    /\ scheduler \in Schedulers \cup {None}
    /\ policy \in Policies
    /\ group \in Groups
    /\ checks \in [CheckIds -> Cells]
    /\ stopped \in SUBSET Stages
    /\ noSource \in BOOLEAN
    /\ dump \in Dumps
    /\ captures \in Nat
    /\ quota \in Cells \cup {"skipped"}
    /\ nodesErr \in BOOLEAN
    /\ nodes \in [Nodes -> NodeVerdicts]
    /\ hooks \in HookKinds
    /\ optional \in BOOLEAN
    /\ report \in Reports

Done == pc = "done"
Listed == {n \in Nodes : nodes[n].kube # "absent"}
Asked == report.llm \in {"answer", "manual", "failed"}

\* The scheduler is signalled at most once per analysis: the quota of the
\* queue and the verdicts of the nodes rest on the same dump, also when the
\* first attempt to capture it failed.
OneCapture == captures <= 1

\* A quota verdict stands on a dump that was read to its end, and that dump is
\* still the one the report shows (RuleState.cacheDump is never replaced).
QuotaFromWholeDump ==
    quota \in {"pass", "fail", "skipped"} =>
        captures = 1 /\ ~dump.err /\ dump.scheduler # None

\* The rules stop only on a proven failure, or on a target they could not
\* read; a check that is merely unknown never keeps later stages from running.
StopIsProven ==
    stopped # {} =>
        \/ \E id \in CheckIds : checks[id] = "fail"
        \/ checks["task.load"] = "unknown"

\* Once a stage is reported as not reached, so are the stages behind it, and
\* no evidence of theirs was collected.
StagesInOrder ==
    Done =>
        /\ report.enqueue = "skipped" => report.jobValid = "skipped"
        /\ report.jobValid = "skipped" => report.allocate = "skipped"
        /\ KnownStageFailure(checks, EnqueueChecks) =>
              report.jobValid = "skipped"
        /\ report.allocate = "skipped" =>
              /\ Listed = {}
              /\ \A id \in AllocateChecks : checks[id] = "absent"

\* The text of the conclusion, the check list and the allocate table, which
\* are computed apart from each other, say the same.
ReportAgrees ==
    Done =>
        /\ report.conclusion = "failures" <=> KnownStageFailure(checks, CheckIds)
        /\ report.allocate = "fail" <=> KnownStageFailure(checks, AllocateChecks)

\* With a listed node, the root cause is the earliest failure that was proven.
DiagnosisNamesFailure ==
    Done /\ KnownStageFailure(checks, CheckIds) /\ Listed # {} =>
        report.diagnosis =
            IF report.enqueue = "fail" THEN "enqueue failure" ELSE "node failure"

\* Diagnoses that name a failure which is known.
Proven == {"preflight failure", "enqueue failure", "node failure"}

\* What the LLM says replaces conclusion and diagnosis (fallback.go).  It is asked
\* only when all stages were evaluated and no check of the report failed, and the
\* only proven failure it then replaces is that of the quota formula, which the
\* enqueue table has but the checks do not (see LLMOnlyWithoutConclusion).
LLMReplacesOnlyQuota ==
    pc = "llm" \/ Asked =>
        /\ ~noSource
        /\ ~KnownStageFailure(checks, CheckIds)
        /\ report.enqueue # "skipped"
        /\ report.allocate \notin {"fail", "skipped"}
        /\ report.diagnosis \in Proven =>
              report.diagnosis = "enqueue failure" /\ quota = "fail"

\* A failure that a rule has proven stays proven, whatever the hooks of the
\* selected source add to the nodes.
FailureIsFinal ==
    [][\A id \in CheckIds : checks[id] = "fail" => checks'[id] = "fail"]_vars

\* An analysis that has not ended can go on, whatever failed and whenever its
\* context expired: no rule and no fallback waits for what does not come.  Its
\* steps run out (AnalysisStepsRunOut), so that it ends with a report.
AnalysisGoesOn == Done \/ ENABLED Evaluate

(***************************************************************************)
(* What docs and tests of the repository say, and the code does not keep.  *)
(***************************************************************************)
\* TestEvaluateReportsNodeCollectionErrorAsUnknown: nodes that could not be
\* listed are unknown.
NodeCollectionErrorIsUnknown == nodesErr => checks["allocate.nodes"] # "fail"

\* volcano-cache skill: a partial dump gives no scheduling conclusion.
PartialDumpDecidesNothing ==
    dump.err => \A n \in Nodes : nodes[n].cache # "fail"

\* README: after a definitive rejection by enqueue, later stages are not reached.
RejectedEnqueueEndsStages ==
    Done /\ report.enqueue = "fail" =>
        report.jobValid = "skipped" /\ report.allocate = "skipped"

\* README: the LLM is asked only when the checks cannot reach a conclusion.
LLMOnlyWithoutConclusion == pc = "llm" => report.diagnosis \notin Proven
=============================================================================
