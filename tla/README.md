# Volens in TLA+

Volens explains why a Volcano Pod is Pending. It reads the cluster through the
Kubernetes API, asks the leading Volcano scheduler for a dump of its cache (a
signal, and the lines the scheduler then writes to its log), evaluates the stages
of a scheduling session in order, and, when the rules leave the cause open, reads
the scheduler's sources from a Git clone and consults an LLM with read-only tools.

This directory holds TLA+ models of it, the TLC runs that check them on small
instances, and proofs, checked by TLAPS, of what holds on all of them.
`PROJECT.json` relates every definition to the lines it was translated from.

    tlc -workers 2 -config MCAnalysisPipeline.cfg MCAnalysisPipeline.tla
    tlapm AnalysisPipelineProofs.tla

## 1. The system

| Component | State it keeps | Operations | Modelled by |
|---|---|---|---|
| HTTP service (`cmd/volens/main.go`) | one analysis slot, the scheduler version found at start | `GET /branches`, `POST /analyze` (slot, timeout, decode), shutdown | `Service`, with `SourceManager` (not `/pods`, the static files, the version) |
| Analysis pipeline (`agent/analyzer.go`, `rules.go`, `fallback.go`) | `RuleState`: report, scheduler, policy, PodGroup, memoised dump, stop flags | four rules, memoised capture, completion, source and LLM fallback | `AnalysisPipeline` |
| Report (`agent/report.go`, `presentation.go`) | conclusion, root cause, three tables | `finishReport`: build tables, write the node table back, conclude, diagnose | `AnalysisPipeline` (outcomes; not the rows) |
| Deterministic checks (`agent/validate`, `enqueue`, `filter`) | none | Pod, PodGroup, Queue and node predicates | `AnalysisPipeline` (verdicts; not the predicates) |
| Runtime policy (`agent/runtime`) | none | actions and plugin arguments of the scheduler's configuration | `AnalysisPipeline` (what is known of it) |
| Cache capture (`cluster/cache.go`) | `cacheMu`; per call a log stream, a scanner goroutine and its channel | `CaptureCacheDump`, `scanCacheDump` | `CacheCapture`, `CapturePromise` |
| Cluster client (`cluster/client.go`) | informers | lookups, leader selection, exec, logs | `SchedulerEvidence` (selection of the leader); `CacheCapture` (the leader, twice) |
| Scheduler configuration (`cluster/scheduler_config.go`) | none | locate and decode the mounted ConfigMap | `SchedulerEvidence` (whose it is, and whether it is determinate; not the decoding) |
| Queue snapshot (`cluster/proportion_snapshot.go`, `agent/presentation.go`) | none | capacity, allocated, inqueue, elastic and realCapability of a queue; the quota check | `QueueSnapshot`, in `SchedulerEvidence` |
| Volcano objects (`cluster/volcano_resources.go`) | none | list and decode PodGroups, Queues, Jobs | `SchedulerEvidence` (the listings; not the decoding) |
| Source manager (`source/manager.go`) | `mu`; on disk a clone and its worktrees | `ListBranches`, `PrepareBranch`, `Prepare` | `SourceManager` |
| Source index (`source/*_defaults.go`, `scheduler_sources.go`) | none | defaults read from Go syntax trees | no: sequential parsing |
| LLM loop and tools (`agent/llm.go`, `skills.go`) | messages, memoised tool results, call and byte counters, the target Pod of the session | rounds of chat and tool calls, final answer | `LLMLoop` (not the contents of tool answers) |
| Web UI (`web/static/app.js`) | forms, last report | asynchronous requests, rendering | no |
| Entrypoint (`docker/entrypoint.sh`), skill documents | none | clone before start; prompts | no (a restart on the clone is a step of `Service`) |

How they interact. One `POST /analyze` takes the slot, gets a context with the
analysis timeout and runs the pipeline in the goroutine of its request. The
pipeline calls the client (informer reads, API calls, one capture), the manager
(Git commands) and the LLM, all under that context. `GET /branches` calls the
manager from other goroutines, so the mutex of the manager and its clone on disk
are shared between requests; so are `cacheMu` and the scheduler, which anybody
else may signal as well. Leadership among scheduler replicas moves at any time, and
so does what one analysis adds up: Leases, Pods, PodGroups, Queues and the dump are
read one after another.

What is hard: a context that ends between any two steps; a leader that changes
while it is looked up, followed and signalled; dumps of somebody else, or broken
off, in the stream; a late result after the capture has returned; Git commands
killed half way, in a clone that survives them; verdicts computed by a rule, used
to stop, and then computed again when the report is presented; a process that is
stopped, or dies, while handlers run.

What makes each part correct:

- *Pipeline*: a stop only on a proven failure; stages in order; one dump for one
  analysis; a proven failure stays and is reported as such; the LLM replaces no
  proven conclusion; a report in the end.
- *Capture*: a returned dump is whole, a single one, begun after the capture had
  its turn, from a leader; captures one at a time; each returns, without leaks.
- *Manager*: the worktree an analysis reads is wholly that of its commit and stays
  so; the commit is current; master is only a justified fallback; calls return.
- *Evidence*: the scheduler chosen is the one that leads; policy and dump are of one
  scheduler; the verdict of the quota is that of the formula the cache skill states.
- *LLM loop*: its limits end it, with an answer or an error; every request keeps the
  protocol of the chat API; what the LLM is told is consistent and within the budget.
- *Service*: one analysis at a time; the slot comes back on every path, and nobody is
  refused without one that runs; the process ends after a signal.

`PROJECT.json` lists each hazard at its line, with the properties that guard it.

## 2. The models

### `AnalysisPipeline`

One call of `agent.Analyze`. `pc` is the rule or completion step that runs next;
the rules of `defaultRules` are `TargetPodUnavailable` / `ValidateTarget`
(`validateRule`), `EvaluateEnqueue`, `EvaluateJobValid` and `EvaluateAllocate`; then
`CompleteReport`, `PrepareSource(Fails)` and the three ways an LLM consultation ends.
A rule is one action because nothing runs beside it but the clock:
`ContextExpires` may happen between any two, and then the informer lookups, API
calls and Git commands of the later rules fail.

A check is its verdict: `pass`, `fail` (determinate), `unknown` (indeterminate), or
`absent` as long as nobody appended it. Which verdicts a check can have, given what
earlier rules read, is in the operators named after the evaluator
(`PodGroupVerdict`, `EnqueueEvidence`, `QuotaVerdicts`, `CacheVerdict`, `IdentityVerdict`,
...). A node has the verdict of its Kubernetes predicates and that of its cache
entry. `FinishReport` is `finishReport` as a whole: the three table outcomes, the
node table written back over `allocate.nodes` (`Synchronized`), the conclusion and
the cascade of `diagnoseReport`. `CaptureCacheDump` is the memoised call: an error is
memoised too. `SchedulerPolicy.ActiveDeterminate` is FALSE in every policy the code
builds, so the branches it guards are not represented.

### `CacheCapture` and `CapturePromise`

`CacheCapture` follows `CaptureCacheDump` step by step (`Lock`, `FindLeader`,
`OpenStream`, `ScannerReads`, `RecheckLeader`, `SignalScheduler`, `AwaitResult`, and
every failure of each), beside the scanner goroutine (`ScanStarts`, `ScanLine`,
`ScanBreaksOff`, `ScanSends`) and an environment that owes nothing: schedulers write
dumps or do not, begin another one before the first is finished, are signalled by
others, lose the lead; streams break; contexts end. A log line is a start, node, bad
node, jobs or end line carrying the dump it belongs to, which the code does not
see but the properties use: a node of a result is the number of the dump it was
read from.

`CapturePromise` is what a caller may rely on: one capture at a time, ending with
an error or with one dump begun since its turn and written to its end. The
refinement (`Promise`) maps a result to a dump only if its nodes are exactly those of
that dump, so that a mixture of two dumps has no abstract counterpart.

### `SourceManager`

The three operations of `source.Manager` as Git commands in their order (`config`,
`fetch`, `resolve`, `parse`, `tree`), under the mutex. A command whose context ends is
killed, and the actions `ConfigureOriginKilled`, `FetchBreaksOff`,
`AddWorktreeBreaksOff` and `CheckOutWorktreeBreaksOff` choose what it leaves: a lock
file, some refs already moved, a worktree without files or without its `.git`
file. `Drop` ends the analysis that reads its worktree; until then the mutex is free
and others check out.

The spellings of a tag and of a branch that `resolveRef` tries are one ref each.
Git is modelled from how the manager calls it, and marked external. `Prepare` of an
empty tag, which goes to master directly, `RecommendBranch` and the order in which
branches are listed change no state and are left out.

### `LLMLoop`

`LLMConfig.complete` with the tool session of `skills.go`. While `pc` is `"chat"` a
request is under way; `ChatIsCancelled`, `ChatFails`, `AnswerGiven`, `EmptyAnswer`,
`RoundLimitReached`, `CallLimitReached`, `InvalidCalls` and `CallsAsked` are what its
message, or its error, leads to, guarded in the order of the code's tests. While
`pc` is `"tools"` the calls of that message are answered one by one, from
`toolResults` (`AnswerFromMemory`) or by a tool (`AnswerCall`); the context may end and
the Pod may change between any two. A tool's answer is its size and the
state of the Pod it shows, if any. The three tools that call `getTargetPod`
(`ExecutePodTool`) show the Pod the session remembers; the events tool
(`ExecuteEventsTool`) asks `ListPodEvents`, which reads the Pod that is there now, whatever
the session remembers; scheduler logs and source files (`ExecuteTool`) show none. The budget is applied
to what is sent, not to what is remembered, as in the code. The system and user
messages, which every request repeats, are not counted.

`Pipeline` is `AnalysisPipeline` seen from the loop: `ConsultsAsPipeline` says that every
step of the loop is one of the LLM steps of that module, its clock, or invisible to
it. This is what composes the two: the pipeline model takes the loop as one step.

### `SchedulerEvidence` and `QueueSnapshot`

What `AnalysisPipeline` takes from sets, read step by step: `ListSchedulers`,
`ReadLease`, `ChooseLeader` and `LookupFails` are `GetVolcanoScheduler`; then come
`ReadConfiguration`, `ListPodGroups`, `ListQueues`, `CaptureCacheDump` (or
`CaptureFails`) and `CheckEvidence`. Between any two of them the cluster changes: a
Lease passes on or is not renewed, a scheduler Pod fails, goes, or comes back under its
name with another UID, a PodGroup is admitted, a task starts or ends. `held`, `steady`
and `quiet` remember, for the properties, whom the Leases named during the lookup and
whether the workload stood still between two of the reads.

`QueueSnapshot` is the arithmetic, without state: the maps of the code are functions
on the keys they have, since a key that is missing and a zero differ in
`MinResourceValues` and in `queueCapacityCheck`. The order in which Go walks a map is an
argument, chosen by `CheckEvidence`. Sums are `SumFunction` of the community module
`Functions`, and the proofs about them are in `SumsProofs`. Amounts and resource lists may
have any dimensions and any integers (`SpecsAssumption`, `QueueListsAssumption`,
`NodeListsAssumption`); queues, nodes, jobs and tasks are finitely many.

`Pipeline` is `AnalysisPipeline` seen from the evidence: `EvidenceAsPipeline` says that the
policy is one of its `PoliciesOf`, the verdict on the quota one of its `QuotaVerdicts`, and
the identity check its `IdentityVerdict`. What the pipeline model chooses from sets, this
one computes from reads at different moments.

### `Service`

The handlers of `POST /analyze` and `GET /branches`, `analyzeSlots`, and `serve`. It
extends `SourceManager`: a call of the manager belongs to the handler of one request,
and every action of the manager is taken under it. The rules and the LLM of an analysis
are one step each (`RulesSuffice`, `PrepareSource`, `SourceRead`); each may panic. A
signal makes the process drain; then it ends when its handlers have, or when the
five seconds of `Shutdown` pass (`ShutdownExpires`). `Crashes` is a death at any other
moment. Either leaves Git commands half done (`GitIsKilled`), loses what was in
memory (`Exits`), and `Starts` goes on with the clone on disk.

## 3. The runs

| Run | Question | Instance | Result |
|---|---|---|---|
| `pipeline` | Does the report say what the rules proved, and can the analysis always go on? | 2 scheduler Pods, 2 nodes | holds, 2.9 M states |
| `pipeline_nodes_error` | Nodes that could not be listed are unknown | 1 Pod, 1 node | violated |
| `pipeline_partial_dump` | A partial dump decides nothing | 1 Pod, 1 node | violated |
| `pipeline_quota` | After an enqueue rejection later stages are not reached | 1 Pod, 1 node | violated |
| `pipeline_llm` | The LLM is asked only without a conclusion | 1 Pod, 1 node | violated |
| `capture` | Is a result one whole dump of a leader, asked for? | 1 capture, 2 Pods, 1 node, 2 dumps, 1 change of leader | holds, 2.1 M states |
| `capture_live` | Does every capture return, and its goroutine end? | 2 captures, 1 Pod, 1 node, 1 dump | holds |
| `source` | Does an analysis read the whole tree of a current, rightful commit? | 2 analyses, 2 commits, 1 change of the remote | holds, 4.2 M states |
| `source_timeout` | The analysis timeout ends an analysis | a listing and an analysis | violated |
| `llm` | Does the loop keep its limits and the protocol, tell one story, and end? | 4 tools' calls, 3 rounds, 2 calls a message, 2 states of the Pod | holds, 1.1 M states |
| `evidence` | Are the leader, the policy, the dump and the quota verdict those of one cluster? | 2 replicas, 2 Leases, 3 jobs, 2 tasks, 1 change | holds, 2.7 M states |
| `service` | Does the slot come back, the manager serve everybody, and the process end? | a listing, 2 analyses, 1 restart | holds, 0.13 M states |

What the properties say is in the comment above each of them. What they exclude:

- `OneCapture`, `QuotaFromWholeDump`: a second signal after a failed first capture;
  a quota verdict and node verdicts from different dumps.
- `StopIsProven`, `StagesInOrder`: an analysis ended by what was merely not known;
  evidence in a stage shown as not reached.
- `ReportAgrees`, `DiagnosisNamesFailure`, `FailureIsFinal`: the conclusion, the check
  list and the tables, each computed by code of its own, disagreeing after the
  node table was rebuilt with the hooks of the selected source.
- `LLMReplacesOnlyQuota`: a failure that a check of the report proved, replaced by the
  LLM's text. A rejection by the quota formula is not such a check, and is replaced
  (section 4).
- `AnalysisGoesOn`: a rule or a fallback that waits for what an earlier one did not
  bring, or for a context that is over.
- `LeaderConfirmed`: a dump accepted from a Pod that had lost the lead before the scan of
  its log began and did not lead again before it was signalled.
- `PromiseKept`: two dumps merged, a dump broken off, a dump begun before the turn,
  two captures at once.
- `EveryCaptureReturns`, `NoScannerLeaks`: a capture stuck behind the lock, a scanner
  blocked for ever on its channel.
- `TreeOfItsCommit`: another call's checkout, or a killed one, under an analysis
  that is still reading.
- `CommitIsFresh`, `FallbackIsJustified`: a commit the clone had before the fetch; master
  selected because a lookup was killed by the timeout.
- `ProtocolKept`: a request the chat API refuses because a refused, failed or
  remembered call was left without its message, or out of order.
- `SameCallSameAnswer`, `OneSessionPod`: contradictory answers in one conversation, to the
  same call or by different tools that ask the session for the Pod.
- `LimitsHold`, `BudgetHolds`: more requests than the default of `LLM_TIMEOUT` is computed
  from; results that pass the budget one by one but not together.
- `ConsultsAsPipeline`, `LoopEnds`: an answer taken after the context was done; a loop
  that an LLM, or a connection that says nothing, keeps going.
- `EveryCallReturns`: a mutex kept, or a call waiting for a lock file; with the process
  draining, dying and starting again around it.
- `LeaderNotPassedOver`: a standby taken because it is ready, a Pod taken that no Lease
  named during the lookup, a leader passed over that led all along.
- `PolicyIsOfSelected`, `OneScheduler`: the configuration of a Pod that was recreated under
  the name of the selected one; a policy and a dump of two schedulers that pass for one.
- `EvidenceAsPipeline`: a quota verdict without a scheduler, a Queue or a parsed policy,
  or a policy of another scheduler than the one that was looked up: evidence for which
  the rules in `AnalysisPipeline` have no case.
- `QuotaIsFormula`: tasks of an admitted job counted twice, or not at all; a guarantee of
  the queue itself subtracted; a verdict that depends on the order of a Go map.
- `OneAnalysis`, `RefusedOnlyWhileBusy`, `SlotComesBack`: a slot kept after a panic, an early
  return or a death, so that every later analysis is refused; two analyses at once.
- `ServiceStops`: a process that waits after SIGTERM for a fetch that never ends.

**Bounds.** Two scheduler Pods let the policy come from one and the dump from the
other; two nodes let one fail and another not. In `capture` one capture is enough for
safety: what an earlier capture leaves behind, a pending signal or a dump in
progress, `ForeignSignal` and `BeginDump` produce as well; that the lock excludes a
second capture is `TypeOK` of `capture_live`, which has two (the types themselves are
proved). `MaxDumps` = 2 lets a dump
break off and another one follow, `MaxLeaders` = 1 lets the lead change in any
gap (with two Pods and no leader at all as targets). With `MaxMoves` = 1 the remote moves once between any two
commands: a ref that moves, vanishes or appears. The service admits one
analysis at a time, but `source` has two, because the manager promises more
(`TestManagerSerializesConcurrentBranchPreparation`) and does not know of the slot.
In `llm` three rounds and three calls (one
tool offered, up to two calls a message) let either limit be the first to end the loop, and sizes
1 and 3 under a budget of 4 let an answer be refused that a smaller one still
fits after; two keys of tools that ask the session let one tell of another Pod than the
other would, with the events and the logs beside them. IDs are alike and so are those two
keys; `InTurn` writes this symmetry out. The
sizes are small numbers in place of 256 KiB: the code only adds and compares them.
`MaxAsked` bounds the calls of one message, which the code bounds by the call limit
alone. In `evidence` `MaxChanges` = 1 puts one change of any kind into any gap between two
reads; what more of them would do, disagreeing Leases, Pods that are not ready, is
there from the start, since `Init` chooses it freely. Two UIDs let a name come back; the
other job is admitted, or running with more than its minimum; one task per CPU lets
the quota be met or missed by one. In `service` the two analyses are alike (they take the
same branch, and `InTurn` lets one of them begin first, which is their symmetry written
out, as TLC's would not be sound with liveness), the remote stands still (it is `source` that
moves it), and one restart lets a half-made worktree or a lock file be found.
Symmetry is used where no operator tells the elements apart, and never in a
liveness run.

**Fairness.** `pipeline` needs none: that an analysis ends is stated by `AnalysisGoesOn` (a
step is always enabled) and `AnalysisStepsRunOut` (there are at most seven), and takes only
that every call `Analyze` makes returns. `capture`: goroutines run,
a waiter is granted the mutex (strong fairness: Go's mutex hands over to a starving
waiter), and `cacheDumpTimeout`, or the timeout of the analysis, passes; schedulers
need never answer. `source`: local commands end and the mutex is granted; fetches need not end, even
killed, because `gitOutput` waits until the transport which Git started has closed
its output (no `WaitDelay` is set), so `EveryCallReturns` assumes that they do. `llm`: tools
return (each reads the informers or a file, or uses the context), the timeout of
the loop passes, and `net/http` ends a request whose context is done; the LLM need
never answer. `service`: as `source`, and the rules of an analysis end (`AnalysisGoesOn`),
handlers go on to their answers, the grace of `Shutdown` passes, and a Git command that
is killed with its process ends. Nobody need send a request or leave. `SlotComesBack`
and `EveryCallReturns` assume that fetches end; `ServiceStops` does not. `evidence` has no
liveness of its own: `AnalysisGoesOn` and `AnalysisStepsRunOut` are about the analysis.

## 4. What disagrees with the code

Five statements of the repository's documents and tests that the code does not
keep; each has a run whose counterexample shows it (`findings` in `PROJECT.json`).

1. *Nodes that could not be listed are reported as a deterministic failure.* The
   rule leaves `allocate.nodes` indeterminate, as `filter_test.go:150` asks, but
   `finishReport` replaces the check by the availability of an empty list.
2. *A partial dump rejects nodes.* `SKILL.md:11` of the cache skill says it is
   indeterminate; `filter.Evaluate` reads the nodes of a dump that came with an error.
3. *A quota rejection does not end the later stages*, as `README.md:118` says it does: the
   quota check is made when the table is built, after the rule decided.
4. *The analysis timeout does not end an analysis* (`README.md:131`) that waits for the
   manager's mutex behind the fetch of a `GET /branches` without timeout.
5. *The LLM replaces a proven conclusion.* `README.md:23` has it asked "only when the normal
   checks cannot reach a conclusion". A rejection by the quota formula is only in the
   enqueue table: `diagnoseReport` names it as the cause, `knownFailures` does not see it, and
   the LLM's answer overwrites the diagnosis (`fallback.go:72`, `106`).

## 5. What is proved

For any numbers of Pods, nodes, calls and commits, under the named assumptions of
the modules (`NoneAssumption`, that the "nobody" value is none of the others, and
the like). Every invariant and action property that a passing run checks is a theorem;
the runs show each on a small instance.

`AnalysisPipelineProofs`. No property is inductive alone. `OneCapture` needs that before
`enqueue` nothing was captured, and that a count of one comes with a memoised
dump (`CaptureInv`); the stops need to know which checks can exist at each `pc`
(`OrderInv`: those of later stages are absent), or a "stage not reached" could show
them; `LLMReplacesOnlyQuota` needs what is in the report once it is finished
(`ReportInv`): with no failure among the checks, a diagnosis that names one can only come
from the quota check of the enqueue table (`NoFailureOnlyQuota`). `IInv` is `TypeOK` with `CaptureInv`, `OrderInv`, `StopInv` and `ReportInv`;
every action has a step under it. `FailureIsFinal` follows from it: a check is only
overwritten by `Synchronized`, with a node table whose verdict can become worse,
never better, because a failed node stays failed whatever hooks add. `AnalysisStepsRunOut`
is the measure on which the end of an analysis rests: each step uses up one of at most
seven, and the clock gives none back.

`SourceManagerProofs`. `TypeInv` adds to the types that a call at `tree` has its
commit and ref; `CommitInv` adds that the clone's refs are among what the holder of
the mutex saw since it began (from its fetch on), and what a fallback has
witnessed; `TreeInv` is `TreeOfItsCommit` itself: a command only writes the tree of its
own name, the name holds the commit, and a killed checkout changes no tree that is
whole.

`CacheCaptureProofs`. `TypeInv` is `TypeOK` in groups, with the Pod a capture has found once it
is past `leader`, and the dump a scheduler that writes is at. `LedInv`, of which
`LeaderConfirmed` is a part, says that from the scanner's start to the second look `led` has
every Pod that leads, and after it the Pod of the capture: a leader that lost the lead
before the scan and does not lead again is not signalled. A change between the second look
and the signal is not seen by the code, nor excluded here.

`CacheCaptureRefinement`. That a result is one whole dump is a fact about the lines a
scanner has read *and* those in its stream, so `ScanInv` is about both (`Consistent`):
the lines come in the order of their dump's parts (`InOrder`), the dumps one after
the other (`Rising`), each line says what is so (`Truthful`), a dump whose start is
there has all its nodes before its jobs, or a node that cannot be read (`NodesFirst`),
and the scanner holds nodes of the dump it is in and no other (`ReadSoFar`). While the
stream is open the scheduler goes on where the lines end (`Continues`). Appending a line
keeps this (`AppendConsistent`), and so does reading one (`ReadConsistent`); when the end of a
dump is read it gives `IsWhole`, which then follows the result through the channel to
the caller. `PromiseKeptHolds` concludes from it: taking the lock is a `Take`, beginning
and finishing a dump a `Begin` and a `Complete`, a return a `Fail` or a `Serve`, and everything
else stutters.

`LLMLoopProofs`, for any keys, Pods, sizes and limits. `LimitsInv` counts the requests
against the rounds: one more than rounds while a request is under way. `ProtocolInv`
needs to know, while tools run, which message is open (`OpenAt`): its calls are those
answered followed by `asked`. `SameCallSameAnswer` is inductive only with `MemoInv`, that
every message answers its key as `toolResults` remembers it or by a refusal, and
that a refusal implies the remembered answer no longer fits; `OneSessionPod` only with
`PodInv`, that whatever was said or remembered of the Pod by the tools that ask the session
is the Pod of the session.
`ConsultsAsPipeline` follows from the actions and `TypeOK`. `BudgetHolds` is about a sum
over all messages, so `BudgetInv` says that `size` is that sum (`BytesAppended`: appending
a message adds its bytes) and that `size` exceeds `MaxSize` by at most one refusal for each
call that was answered: an answer that fits leaves it within the budget,
any other adds `ErrorSize`. `LoopStepsRunOut` is the safety half of `LoopEnds`: the rounds
and calls that are left, with the calls that wait, are a measure that every step of the
loop lowers and no change of the environment raises.

`SchedulerEvidenceProofs`, for any replicas, Leases, flags and changes. `LookupInv` says of a
lookup under way that whoever the Leases name now, or was read from one, is among `held`,
and that a replica named all along has been matched or has its Lease still to be
read; when none is unread, one match that is ready is enough. `EvidenceInv` says that before
it is read nothing is known of a policy, and that a passed identity check compared it
with the dump that is kept. `PolicyIsOfSelected` rests on configurations belonging to a
UID: an edit of the ConfigMap in place is not in the model. `OrderDoesNotMatter` is a
lemma about `QueueSnapshot` of its own: `ResourceListValues` is the same for both orders,
for any list; from it `VerdictIsDeterminate`, that the whole quota check is.

`QuotaIsFormula` compares what the code adds up, over maps of tasks, jobs, nodes and queues,
with a formula that is written differently. For one job, `JobCounts`: what is allocated
and inqueue without what is elastic is what the formula counts, by cases of its phase
and its members (`ReservedAndElastic` is the arithmetic). Sums of such jobs are linear
(`SnapshotCounts`), and a queue's own guarantee, subtracted with all and added again,
leaves those of the others (`CapacityIsLimit`); with every dimension that is asked for in the
dump, `VerdictIsFormula` follows. `QuotaInv` says when that applies: the verdict is the
one of the evidence that is kept, and as long as `quiet` holds the listed phases are
those of the dump.

`PipelineInv`, for `EvidenceAsPipeline`, says that a policy is of the scheduler that was looked
up, or of none and then unknown, and that there are no Queues without a scheduler,
which is what makes a verdict on the quota imply one though `CaptureCacheDump` looks the
leader up again.

`SumsProofs`. `SumFunctionOnSet` is a fold over a set, defined with `CHOOSE`; that it adds
each element once, in whatever order (`SumTakesAny`), is an induction over finite sets.
The library's induction theorems take an operator as a parameter, which the provers
cannot instantiate, so the induction is stated about a set: one that has the empty set,
and with a set each extension of it by an element, has every finite subset
(`SubsetsInduction`, from the well-foundedness of the natural numbers). The
rest, that sums are integers, that they are linear, that a constant is multiplied and
that a zero does not count, follows by it.

`ServiceProofs`, for any requests, commits and restarts. The steps of the process are steps
of the manager, or stutters, but for a death and the exit (`ManagerStep`); these
keep `TreeInv` as well (`DeathKeepsTrees`), so that the inductive step of
`SourceManagerProofs` carries over and `TreesSurviveDeath` is proved of the composition. So
does that of `CommitInv` (`DeathKeepsCommits`): `CommitIsFreshAcrossRestarts` and
`FallbackIsJustifiedAcrossRestarts` hold of a process that goes on with the clone in which
another one died.
`HandlerInv` ties a handler to its slot and to its call: the slot is with the analysis
that is active, a call has not begun before its handler prepares a source, and is over
after. The theorems are about `ServiceSpec`; the run's `MCSpec` restricts it to a
representative of each symmetric pair.

`ReportAgrees` and `DiagnosisNamesFailure` need `VerdictInv` besides `IInv`: that no rule
fails evidence that is merely missing, and that a failure of the preflight stage stopped
the rules there. Then, with a node in the report, no stage was stopped, and a failure
that is not the enqueue stage's is `allocate.nodes`, whose verdict the table has.

Only model-checked are `AnalysisGoesOn` and liveness: `EveryCaptureReturns`, `NoScannerLeaks`,
`LoopEnds`, `EveryCallReturns`, `SlotComesBack` and `ServiceStops`. Temporal reasoning with fairness
and `ENABLED` is beyond the proof system as installed.

## 6. What is not modelled, and why

- *Predicates of the checks* (`validate`, `enqueue`, `filter`): comparisons of Pods with
  Nodes, without state; the models take every verdict their code can return. The
  arithmetic of the quota is the exception.
- *Rows, wording and translation of the report*, prompts, and the views the tools encode:
  nothing is decided by them.
- *The version of the scheduler*, which is detected once and kept, by design
  (`main_test.go:172`), and is asked of the Pod by name, without its UID
  (`client.go:1047`).
- *Deserved and Request* of a queue, which are only shown.
- *A ConfigMap edited in place*: its configuration belongs to a Pod and its UID here.
- *The leader after the second look*: `CacheCapture` lets it change, and the dump of the former
  leader is accepted (`cache.go:291` to `303`); no document promises that it is not.
- *The Pod between its events and the other tools*: `ExecuteEventsTool` may tell of another
  Pod than the session (`skills.go:346`). The skill document promises the events of the
  current UID, not that it is the Pod of the other tools, so no property compares them. The
  target is known by its name throughout.
- *The name in a Lease*: it has no UID, so a Pod recreated under the name of the last
  holder is taken for the leader (`client.go:704`), and no lookup could tell.
- *A new container* starts as `ServiceInit`, with the clone of its image. The one
  that is started again has the entrypoint set the remote first, which fails
  while a killed `git config` has left its lock.
- *Decoding* of PodGroups, Queues, plugin arguments, Leases, flags and the YAML of the
  scheduler's configuration: functions of one input, which their tests reach.
- *Defaults read from Go syntax trees*: sequential parsing.
- *The Web UI*: rendering. *The entrypoint*: runs once, before the service.
- *Informers*: a lookup returns some current object, or fails when its context is done.
- *Git, the Kubernetes API, the scheduler's dump and the LLM*: environments, modelled
  from how the code uses them and marked external in `PROJECT.json`.

Three readings of the quota that `QuotaIsFormula` leaves out by its conditions, since no
document settles them, or the model's evidence would have to be of two moments:

- a target that was admitted before the dump was written is counted in the inqueue sum
  and as the candidate (`presentation.go:864`);
- when a PodGroup cannot be decoded, those listed before it are counted and the check
  is determinate all the same (`rules.go:256`);
- a dimension that the nodes lack gets the queue's capability as its real capability
  (`proportion_snapshot.go:270`), so the check has a verdict where `SKILL.md:11` of the cache
  skill wants an omitted device dimension indeterminate. And a dimension that is unknown
  hides one that is exceeded (`presentation.go:1004`).

## 7. Plan

Done, in this order, the most important behaviour first: `AnalysisPipeline` (what an
analysis concludes), `CacheCapture` against `CapturePromise` (the evidence it rests
on), `SourceManager` (the sources it reads), `LLMLoop` (what it is told in the end,
composed with the pipeline), `SchedulerEvidence` over `QueueSnapshot` (whose evidence it is,
and what it adds up to), `Service` over `SourceManager` (the process around it all), each
with proofs.

Next:

1. The evaluators whose verdicts `AnalysisPipeline` takes from sets (gang tasks, node
   resources), as operators, with the sets shown to be what they can return.
2. `CacheCapture` and `SourceManager` as the sources of the dumps and of the prepared sources
   of `AnalysisPipeline`, as `LLMLoop` and `SchedulerEvidence` are of what it takes from them.
3. Measures like those of `LoopStepsRunOut` and `AnalysisStepsRunOut` for a capture and for a call of the manager.
4. The scope and the views of the LLM tools, beyond the target Pod of their session.
