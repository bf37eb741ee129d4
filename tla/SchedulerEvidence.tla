--------------------------- MODULE SchedulerEvidence ---------------------------
(***************************************************************************)
(* What one analysis reads of the cluster, and when.  It looks up the      *)
(* scheduler that leads (a listing of Pods, then one Lease after another), *)
(* reads its configuration, lists the PodGroups of the queue and the       *)
(* Queues, and captures a cache dump.  From these it computes whether the  *)
(* quota of the queue admits the target, and whether policy and dump come  *)
(* from one scheduler.                                                     *)
(*                                                                         *)
(* Between any two reads the lead may change, scheduler Pods fail, go away *)
(* or come back under their name with another UID, PodGroups are admitted  *)
(* and tasks start and end.  The capture itself is CacheCapture.           *)
(***************************************************************************)
EXTENDS QueueSnapshot

CONSTANTS
    Replicas,       \* names of scheduler Pods
    Leases,         \* leader Leases the flags of a scheduler may name
    Flags,          \* the --leader-elect flags of the replicas, as they may be
    Configurations, \* the queue plugin of each replica and UID, as it may be
    MaxUid,         \* bound on the UIDs a name may have
    Dims,           \* resource dimensions
    Jobs,           \* jobs, and their PodGroups
    Target,         \* the one that is analysed
    Tasks,          \* tasks of a job
    Specs,          \* the jobs' specs, as they may be
    Starts,         \* their phases and tasks to begin with
    QueueLists,     \* the specs of queues that exist, as they may be
    NodeLists,      \* the allocatable amounts of nodes, as a dump may show them
    MaxChanges,     \* bound on the changes of the cluster
    None            \* no replica

ElectFlags == Leases \cup {"off", "unreadable"}
Plugins  == {"quota", "none", "unknown"}
Uids     == 1 .. MaxUid
Phases   == {"Pending", "Inqueue", "Running"}
Statuses == {"Pending", "Running", "Releasing"}

ASSUME NoneAssumption == None \notin Replicas
ASSUME ReplicasAssumption == IsFiniteSet(Replicas)
ASSUME LeasesAssumption == Leases \cap {"off", "unreadable"} = {}
ASSUME FlagsAssumption == Flags \subseteq [Replicas -> ElectFlags]
ASSUME ConfigurationsAssumption == Configurations \subseteq [Replicas \X Uids -> Plugins]
ASSUME BoundsAssumption == MaxUid \in Nat \ {0} /\ MaxChanges \in Nat
ASSUME TargetAssumption == Target \in Jobs
ASSUME StartsAssumption ==
    Starts \subseteq [phase : [Jobs -> Phases], tasks : [Jobs -> [Tasks -> Statuses]]]

\* Amounts, and resource lists, as QueueSnapshot has them.
IsAmount(amount) ==
    /\ DOMAIN amount \subseteq Dims
    /\ \A d \in DOMAIN amount : amount[d] \in Int

IsResourceList(list) ==
    /\ DOMAIN list \subseteq {"plain", "requests"} \X Dims
    /\ \A name \in DOMAIN list : list[name] \in Int

ASSUME WorkloadAssumption == IsFiniteSet(Jobs) /\ IsFiniteSet(Tasks)
ASSUME SpecsAssumption ==
    \A s \in Specs, j \in Jobs : IsResourceList(s[j].min) /\ IsAmount(s[j].resreq)
ASSUME QueueListsAssumption ==
    \A list \in QueueLists :
        /\ IsFiniteSet(DOMAIN list)
        /\ \A q \in DOMAIN list :
               IsResourceList(list[q].guarantee) /\ IsResourceList(list[q].capability)
ASSUME NodeListsAssumption ==
    \A nodes \in NodeLists :
        IsFiniteSet(DOMAIN nodes) /\ \A n \in DOMAIN nodes : IsAmount(nodes[n])

VARIABLES
    pods,      \* the scheduler Pods in the informer
    flags,     \* the flags of each replica
    conf,      \* the configuration of each scheduler Pod
    holder,    \* the replica whose name is in each Lease
    spec,      \* the specs of the jobs
    phase,     \* the phases of their PodGroups
    tasks,     \* the statuses of their tasks
    changes,   \* changes of the cluster so far
    pc,        \* what the analysis reads next
    expired,   \* its context is done
    listed,    \* the scheduler Pods it listed
    unread,    \* Leases it has still to read
    matched,   \* replicas that those it read named
    scheduler, \* RuleState.scheduler
    policy,    \* its SchedulerPolicy
    groups,    \* evidence.QueuePodGroups, and whether they were listed without an error
    queues,    \* the Queues
    dump,      \* RuleState.cacheDump
    quota,     \* the check queue.enqueue-capacity
    identity,  \* the check scheduler.evidence.identity
    held,      \* listed replicas that a Lease named during the lookup
    steady,    \* those of them that a Lease named all along
    quiet      \* phases and tasks have not changed since the PodGroups were listed

clusterVars  == <<pods, flags, conf, holder, spec, phase, tasks, changes>>
workloadVars == <<spec, phase, tasks>>
schedulerVars == <<pods, flags, conf, holder>>
lookupVars   == <<listed, unread, matched, scheduler>>
evidenceVars == <<policy, groups, queues, dump, quota, identity>>
historyVars  == <<held, steady, quiet>>
vars == <<clusterVars, pc, expired, lookupVars, evidenceVars, historyVars>>

Pods == {p \in [uid : Uids, there : BOOLEAN, ready : BOOLEAN] : p.ready => p.there}

\* A scheduler, as the analysis remembers it.
Identities == Replicas \X Uids
NoScheduler == <<None, 0>>

\* A policy that is not determinate has no plugins, but still says whose it is.
Policies == [of : Identities \cup {NoScheduler}, plugin : Plugins]

\* The phases in a dump are not read; they serve the properties.
Dumps == [of : Identities, nodes : NodeLists, tasks : [Jobs -> [Tasks -> Statuses]],
          phase : [Jobs -> Phases]]
NoDump == [of |-> NoScheduler]

\* Queues that could not be listed.
NoQueues == [q \in {} |-> Nothing]

Verdicts == {"open", "pass", "fail", "unknown", "skipped", "absent"}

Steps == {"list", "leases", "policy", "groups", "queues", "capture", "check", "done"}

Own == spec[Target].queue

Init ==
    /\ pods \in [Replicas -> {p \in Pods : p.uid = 1}]
    /\ flags \in Flags
    /\ conf \in Configurations
    /\ holder \in [Leases -> Replicas \cup {None}]
    /\ \A l \in Leases : holder[l] # None => flags[holder[l]] = l
    /\ spec \in Specs
    /\ \E start \in Starts : phase = start.phase /\ tasks = start.tasks
    /\ changes = 0
    /\ pc = "list"
    /\ expired = FALSE
    /\ listed = [p \in {} |-> [uid |-> 1, ready |-> FALSE]]
    /\ unread = {}
    /\ matched = {}
    /\ scheduler = NoScheduler
    /\ policy = [of |-> NoScheduler, plugin |-> "unknown"]
    /\ groups = [complete |-> FALSE, phase |-> [j \in {} |-> "Pending"]]
    /\ queues = NoQueues
    /\ dump = NoDump
    /\ quota = "open"
    /\ identity = "open"
    /\ held = {}
    /\ steady = {}
    /\ quiet = TRUE

-----------------------------------------------------------------------------
(***************************************************************************)
(* The cluster                                                             *)
(***************************************************************************)
\* What changes after the dump was written is read by nobody.
Changes ==
    /\ changes < MaxChanges
    /\ pc \notin {"check", "done"}
    /\ changes' = changes + 1
    /\ UNCHANGED <<flags, conf, spec, pc, expired, lookupVars, evidenceVars>>

HoldersAmong(listing) == {holder[l] : l \in Leases} \cap DOMAIN listing

\* A Lease passes to another replica, or nobody renews it.
LeaseChanges(l) ==
    /\ Changes
    /\ \E p \in {r \in Replicas : flags[r] = l} \cup {None} : holder' = [holder EXCEPT ![l] = p]
    /\ held' = IF pc = "leases" THEN held \cup HoldersAmong(listed)' ELSE held
    /\ steady' = IF pc = "leases" THEN steady \cap HoldersAmong(listed)' ELSE steady
    /\ UNCHANGED <<pods, workloadVars, quiet>>

PodChanges(p, pod) ==
    /\ Changes
    /\ pods' = [pods EXCEPT ![p] = pod]
    /\ UNCHANGED <<holder, workloadVars, historyVars>>

PodFailsOrRecovers(p) ==
    /\ pods[p].there
    /\ PodChanges(p, [pods[p] EXCEPT !.ready = ~@])

PodIsDeleted(p) ==
    /\ pods[p].there
    /\ PodChanges(p, [pods[p] EXCEPT !.there = FALSE, !.ready = FALSE])

\* A Pod under a name that was in use before has another UID.
PodIsRecreated(p) ==
    /\ pods[p].uid < MaxUid
    /\ \E ready \in BOOLEAN :
          PodChanges(p, [uid |-> pods[p].uid + 1, there |-> TRUE, ready |-> ready])

\* What the analysis has between its list of PodGroups and its dump.
WorkloadChanges ==
    /\ Changes
    /\ quiet' = (quiet /\ pc \notin {"queues", "capture"})
    /\ UNCHANGED <<schedulerVars, spec, held, steady>>

GroupIsAdmitted(j) ==
    /\ phase[j] = "Pending"
    /\ WorkloadChanges
    /\ phase' = [phase EXCEPT ![j] = "Inqueue"]
    /\ UNCHANGED tasks

RunningTasks(j) == {t \in Tasks : tasks[j][t] = "Running"}

\* The PodGroup is Running once it has its members.
TaskStarts(j, t) ==
    /\ phase[j] # "Pending"
    /\ tasks[j][t] = "Pending"
    /\ WorkloadChanges
    /\ tasks' = [tasks EXCEPT ![j][t] = "Running"]
    /\ phase' = [phase EXCEPT ![j] =
                   IF Cardinality(RunningTasks(j)) + 1 >= spec[j].minMember THEN "Running" ELSE @]

TaskEnds(j, t) ==
    /\ tasks[j][t] = "Running"
    /\ WorkloadChanges
    /\ tasks' = [tasks EXCEPT ![j][t] = "Releasing"]
    /\ UNCHANGED phase

ContextExpires ==
    /\ pc \notin {"check", "done"}
    /\ ~expired
    /\ expired' = TRUE
    /\ UNCHANGED <<clusterVars, pc, lookupVars, evidenceVars, historyVars>>

-----------------------------------------------------------------------------
(***************************************************************************)
(* GetVolcanoScheduler                                                     *)
(***************************************************************************)
Goes(step) ==
    /\ pc' = step
    /\ UNCHANGED <<clusterVars, expired>>

\* The Pods that the informer has, those of them that may be asked.
Listing == [p \in {r \in Replicas : pods[r].there} |->
               [uid |-> pods[p].uid, ready |-> pods[p].ready]]
Ready(listing) == {p \in DOMAIN listing : listing[p].ready}

\* Without leader election, and for a single Pod, there must be no choice.
WithoutLease(listing) ==
    IF /\ Cardinality(DOMAIN listing) = 1 \/ \A p \in DOMAIN listing : flags[p] = "off"
       /\ Cardinality(Ready(listing)) = 1
    THEN Ready(listing) ELSE {}

\* With it, no Lease is read if a flag cannot be, or if nobody could be asked.
ElectsLeader(listing) ==
    /\ Cardinality(DOMAIN listing) > 1
    /\ Ready(listing) # {}
    /\ \A p \in DOMAIN listing : flags[p] \in Leases

\* The holder is not looked up in the listing (a fault the runs must see).
NamedAnywhere(listing, l) == {holder[l]}

\* The Pods a Lease names, ready or not.
Named(listing, l) == {holder[l]} \cap DOMAIN listing

\* A ready Pod is as good as the leader (a fault the runs must see).
ByLeaseOrReady(listing, named) ==
    IF Cardinality(named) = 1 /\ named \subseteq Ready(listing) THEN named
    ELSE IF Cardinality(Ready(listing)) = 1 THEN Ready(listing) ELSE {}

\* schedulerLeaderFromLeases: one leader, and it must be ready.
ByLease(listing, named) ==
    IF Cardinality(named) = 1 /\ named \subseteq Ready(listing) THEN named ELSE {}

Chooses(listing, choice) ==
    scheduler' = IF choice = {} THEN NoScheduler
                 ELSE CHOOSE s \in {<<p, listing[p].uid>> : p \in choice} : TRUE

ListSchedulers ==
    /\ pc = "list"
    /\ ~expired
    /\ listed' = Listing
    /\ held' = HoldersAmong(Listing)
    /\ steady' = HoldersAmong(Listing)
    /\ \/ /\ ElectsLeader(Listing)
          /\ unread' = {flags[p] : p \in DOMAIN Listing}
          /\ Goes("leases")
          /\ UNCHANGED scheduler
       \/ /\ ~ElectsLeader(Listing)
          /\ Chooses(Listing, WithoutLease(Listing))
          /\ Goes("policy")
          /\ UNCHANGED unread
    /\ UNCHANGED <<matched, evidenceVars, quiet>>

\* The Leases are read one by one; one that does not exist names nobody.
ReadLease(l) ==
    /\ pc = "leases"
    /\ ~expired
    /\ l \in unread
    /\ unread' = unread \ {l}
    /\ matched' = matched \cup Named(listed, l)
    /\ Goes("leases")
    /\ UNCHANGED <<listed, scheduler, evidenceVars, historyVars>>

ChooseLeader ==
    /\ pc = "leases"
    /\ unread = {}
    /\ Chooses(listed, ByLease(listed, matched))
    /\ Goes("policy")
    /\ UNCHANGED <<listed, unread, matched, evidenceVars, historyVars>>

\* A context that is done, or an API call that fails.
LookupFails ==
    /\ \/ pc = "list" /\ expired
       \/ pc = "leases" /\ unread # {}
    /\ scheduler' = NoScheduler
    /\ Goes("policy")
    /\ UNCHANGED <<listed, unread, matched, evidenceVars, historyVars>>

-----------------------------------------------------------------------------
(***************************************************************************)
(* The rest of the evidence                                                *)
(***************************************************************************)
\* The name is all that is compared (a fault the runs must see).
ThereByName(s) == pods[s[1]].there

\* A Pod that was recreated is not the scheduler that was looked up.
StillThere(s) == pods[s[1]].there /\ pods[s[1]].uid = s[2]

\* GetVolcanoSchedulerConfigurationFor: without the Pod nothing is determinate.
ReadConfiguration ==
    /\ pc = "policy"
    /\ policy' = IF scheduler = NoScheduler \/ expired
                 THEN [of |-> NoScheduler, plugin |-> "unknown"]
                 ELSE [of |-> scheduler,
                       plugin |-> IF StillThere(scheduler)
                                  THEN conf[<<scheduler[1], pods[scheduler[1]].uid>>]
                                  ELSE "unknown"]
    /\ Goes("groups")
    /\ UNCHANGED <<lookupVars, groups, queues, dump, quota, identity, historyVars>>

OfQueue == {j \in Jobs : spec[j].queue = Own}

\* ListPodGroupsForQueue returns what it had when one could not be decoded.
ListPodGroups ==
    /\ pc = "groups"
    /\ \E some \in SUBSET OfQueue :
          /\ expired => some = {}
          /\ groups' = [complete |-> ~expired /\ some = OfQueue,
                        phase |-> [j \in some |-> phase[j]]]
    /\ quiet' = TRUE
    /\ Goes("queues")
    /\ UNCHANGED <<lookupVars, policy, queues, dump, quota, identity, held, steady>>

\* ListQueues, unless there is no scheduler; it is all of them or an error.
ListQueues ==
    /\ pc = "queues"
    /\ queues' \in {NoQueues} \cup IF scheduler = NoScheduler \/ expired THEN {} ELSE QueueLists
    /\ Goes("capture")
    /\ UNCHANGED <<lookupVars, policy, groups, dump, quota, identity, historyVars>>

\* The leader is looked up again, and is asked for its cache.
SelectedNow ==
    IF ElectsLeader(Listing)
    THEN ByLease(Listing, HoldersAmong(Listing))
    ELSE WithoutLease(Listing)

CaptureCacheDump ==
    /\ pc = "capture"
    /\ ~expired
    /\ \E p \in SelectedNow, nodes \in NodeLists :
          dump' = [of |-> <<p, pods[p].uid>>, nodes |-> nodes, tasks |-> tasks, phase |-> phase]
    /\ Goes("check")
    /\ UNCHANGED <<lookupVars, policy, groups, queues, quota, identity, historyVars>>

CaptureFails ==
    /\ pc = "capture"
    /\ Goes("check")
    /\ UNCHANGED <<lookupVars, evidenceVars, historyVars>>

DumpedJobs ==
    [j \in Jobs |-> [queue |-> spec[j].queue, tasks |-> dump.tasks[j], resreq |-> spec[j].resreq]]

ListedGroups ==
    [j \in DOMAIN groups.phase |->
        [phase |-> groups.phase[j], min |-> spec[j].min, minMember |-> spec[j].minMember]]

Snapshot(order) ==
    BuildQueueSnapshot([nodes |-> dump.nodes, jobs |-> DumpedJobs], queues, ListedGroups,
                       Own, order)

\* A policy that was not read counts as one without quota plugins (a fault the
\* runs must see).
QuotaOfReadPolicy(order) ==
    IF DOMAIN spec[Target].min = {} THEN "absent"
    ELSE IF dump = NoDump \/ Own \notin DOMAIN queues THEN "unknown"
    ELSE IF policy.plugin # "quota" THEN "skipped"
    ELSE QueueCapacityCheck(Snapshot(order), ResourceListValues(spec[Target].min, order))

\* queueCapacityCheck, and what comes before it.
QuotaVerdict(order) ==
    IF DOMAIN spec[Target].min = {} THEN "absent"
    ELSE IF dump = NoDump \/ Own \notin DOMAIN queues \/ policy.plugin = "unknown" THEN "unknown"
    ELSE IF policy.plugin = "none" THEN "skipped"
    ELSE QueueCapacityCheck(Snapshot(order), ResourceListValues(spec[Target].min, order))

\* The UID is not compared (a fault the runs must see).
IdentityByName ==
    IF dump.of # NoScheduler /\ policy.of[1] = dump.of[1] THEN "pass" ELSE "unknown"

\* schedulerEvidenceIdentityCheck
IdentityVerdict ==
    IF policy.of # NoScheduler /\ policy.of = dump.of THEN "pass" ELSE "unknown"

CheckEvidence ==
    /\ pc = "check"
    /\ \E order \in Orders : quota' = QuotaVerdict(order)
    /\ identity' = IdentityVerdict
    /\ Goes("done")
    /\ UNCHANGED <<lookupVars, policy, groups, queues, dump, historyVars>>

-----------------------------------------------------------------------------
Cluster ==
    \/ \E l \in Leases : LeaseChanges(l)
    \/ \E p \in Replicas : PodFailsOrRecovers(p) \/ PodIsDeleted(p) \/ PodIsRecreated(p)
    \/ \E j \in Jobs : GroupIsAdmitted(j) \/ \E t \in Tasks : TaskStarts(j, t) \/ TaskEnds(j, t)

GetVolcanoScheduler ==
    \/ ListSchedulers
    \/ \E l \in Leases : ReadLease(l)
    \/ ChooseLeader
    \/ LookupFails

Collect ==
    \/ ReadConfiguration
    \/ ListPodGroups
    \/ ListQueues
    \/ CaptureCacheDump
    \/ CaptureFails
    \/ CheckEvidence

Next == Cluster \/ ContextExpires \/ GetVolcanoScheduler \/ Collect

Spec == Init /\ [][Next]_vars

-----------------------------------------------------------------------------
\* Every variable keeps to its set.
TypeOK ==
    /\ pods \in [Replicas -> Pods]
    /\ flags \in Flags
    /\ conf \in Configurations
    /\ holder \in [Leases -> Replicas \cup {None}]
    /\ spec \in Specs
    /\ phase \in [Jobs -> Phases]
    /\ tasks \in [Jobs -> [Tasks -> Statuses]]
    /\ changes \in 0 .. MaxChanges
    /\ pc \in Steps
    /\ expired \in BOOLEAN
    /\ DOMAIN listed \subseteq Replicas
    /\ \A p \in DOMAIN listed : listed[p] \in [uid : Uids, ready : BOOLEAN]
    /\ unread \subseteq Leases
    /\ matched \subseteq DOMAIN listed
    /\ scheduler \in Identities \cup {NoScheduler}
    /\ policy \in Policies
    /\ groups.complete \in BOOLEAN
    /\ DOMAIN groups.phase \subseteq OfQueue
    /\ \A j \in DOMAIN groups.phase : groups.phase[j] \in Phases
    /\ queues \in QueueLists \cup {NoQueues}
    /\ dump \in Dumps \cup {NoDump}
    /\ quota \in Verdicts
    /\ identity \in {"open", "pass", "unknown"}
    /\ held \subseteq DOMAIN listed
    /\ steady \subseteq held
    /\ quiet \in BOOLEAN

\* client_test.go:558 and :617: with leader election, the scheduler is one that
\* was ready and that a Lease named while it was looked up; a listed replica
\* that a Lease named all along is not passed over, neither for a standby nor
\* for another leader.
LeaderNotPassedOver ==
    ElectsLeader(listed) /\ scheduler # NoScheduler =>
        /\ scheduler[1] \in held \cap Ready(listed)
        /\ steady \subseteq {scheduler[1]}

\* A determinate policy is the configuration of the very Pod that was selected,
\* though the Pod is read again, by its name, after it was selected.
PolicyIsOfSelected ==
    policy.plugin # "unknown" => policy.of = scheduler /\ conf[scheduler] = policy.plugin

\* "Policy and cache dump use the same scheduler Pod" (analyzer.go): if that check
\* passes, the scheduler that wrote the dump is configured as the policy says,
\* whatever changed its leader or recreated its Pod in between.
OneScheduler ==
    identity = "pass" /\ policy.plugin # "unknown" => conf[dump.of] = policy.plugin

-----------------------------------------------------------------------------
(***************************************************************************)
(* The quota, as skills/volcano-cache/SKILL.md:9 defines it, of the state  *)
(* in which the dump was written.  What a job has beyond its minimum is    *)
(* elastic, so a running job counts with its minimum and no more.          *)
(***************************************************************************)
Wanted(list, d) ==
    IF <<"requests", d>> \in DOMAIN list THEN list[<<"requests", d>>]
    ELSE IF <<"plain", d>> \in DOMAIN list THEN list[<<"plain", d>>] ELSE 0

Least(a, b) == IF a < b THEN a ELSE b

Counted(j, d) ==
    LET min == Wanted(spec[j].min, d)
        n   == Cardinality({t \in Tasks : dump.tasks[j][t] = "Running"})
        has == n * ValueOf(spec[j].resreq, d)
    IN IF dump.phase[j] = "Running" /\ n >= spec[j].minMember THEN min
       ELSE Least(has, min) + IF dump.phase[j] = "Inqueue" THEN min ELSE 0

RealLimit(d) ==
    LET total == SumFunction([n \in DOMAIN dump.nodes |-> ValueOf(dump.nodes[n], d)])
        other == SumFunctionOnSet([q \in DOMAIN queues |-> Wanted(queues[q].guarantee, d)],
                                  DOMAIN queues \ {Own})
        cap   == queues[Own].capability
    IN IF \E alias \in {"plain", "requests"} : <<alias, d>> \in DOMAIN cap
       THEN Least(total - other, Wanted(cap, d)) ELSE total - other

Asked == {d \in Dims : Wanted(spec[Target].min, d) > 0}

NeedFits ==
    \A d \in Asked :
        Wanted(spec[Target].min, d) + SumFunction([j \in OfQueue |-> Counted(j, d)]) <= RealLimit(d)

\* The evidence is of one moment: nothing was admitted or started between the
\* list of PodGroups and the dump, and the target was not admitted before.
OneMoment == quiet /\ groups.complete /\ dump.phase[Target] = "Pending"

Dumped == UNION {DOMAIN dump.nodes[n] : n \in DOMAIN dump.nodes}

\* SKILL.md:9, "A queue passes the capacity gate when need <= realCapability": with
\* evidence of one moment the verdict is that of the formula, in whatever order
\* the names of a dimension are read; without a dump there is none.
QuotaIsFormula ==
    /\ quota \in {"pass", "fail"} => dump # NoDump
    /\ quota \in {"pass", "fail"} /\ OneMoment /\ Asked \subseteq Dumped =>
           (quota = "pass" <=> NeedFits)

-----------------------------------------------------------------------------
\* What the rules of AnalysisPipeline see of the evidence.  Which actions a parsed
\* configuration has is not told apart here.
PipelinePolicy ==
    [determinate |-> policy.plugin # "unknown",
     enqueue     |-> policy.plugin # "unknown",
     quota       |-> policy.plugin = "quota",
     scheduler   |-> policy.of]

Pipeline == INSTANCE AnalysisPipeline WITH
    Schedulers <- Identities, Nodes <- {}, None <- NoScheduler,
    policy <- PipelinePolicy,
    group <- [read |-> "found", inQueue |-> FALSE,
              minResources |-> DOMAIN spec[Target].min # {}],
    branch <- None, checks <- None, stopped <- None, noSource <- None,
    captures <- None, nodesErr <- None, nodes <- None, hooks <- None,
    optional <- None, report <- None

\* The evidence is what AnalysisPipeline takes it for, whatever changes while it is
\* read: the policy is one of the scheduler that was looked up, or nobody's; the
\* verdict on the quota is one of a snapshot of this scheduler, its Queue and a dump,
\* or of none; and policy and dump agree exactly if they come from one Pod.
EvidenceAsPipeline ==
    /\ PipelinePolicy \in Pipeline!PoliciesOf(scheduler)
    /\ pc = "done" =>
          /\ quota \in Pipeline!QuotaVerdicts(/\ scheduler # NoScheduler
                                              /\ Own \in DOMAIN queues
                                              /\ dump # NoDump)
          /\ identity = Pipeline!IdentityVerdict(PipelinePolicy, [scheduler |-> dump.of])
=============================================================================
