------------------------ MODULE SchedulerEvidenceProofs ------------------------
(***************************************************************************)
(* Safety of the evidence, for any replicas, Leases, flags, configurations, *)
(* jobs and queues, and any number of changes: who is taken for the leader *)
(* and whose policy and dump the analysis has.                             *)
(***************************************************************************)
EXTENDS SchedulerEvidence, SumsProofs, FiniteSetTheorems, TLAPS

\* TypeOK in parts, so that a step is shown to preserve the part it changes.
ClusterTypes ==
    /\ pods \in [Replicas -> Pods]
    /\ flags \in Flags
    /\ conf \in Configurations
    /\ holder \in [Leases -> Replicas \cup {None}]
    /\ spec \in Specs
    /\ phase \in [Jobs -> Phases]
    /\ tasks \in [Jobs -> [Tasks -> Statuses]]
    /\ changes \in 0 .. MaxChanges

LookupTypes ==
    /\ pc \in Steps
    /\ expired \in BOOLEAN
    /\ DOMAIN listed \subseteq Replicas
    /\ \A p \in DOMAIN listed : listed[p] \in [uid : Uids, ready : BOOLEAN]
    /\ unread \subseteq Leases
    /\ matched \subseteq DOMAIN listed
    /\ scheduler \in Identities \cup {NoScheduler}
    /\ held \subseteq DOMAIN listed
    /\ steady \subseteq held

EvidenceTypes ==
    /\ policy \in Policies
    /\ groups.complete \in BOOLEAN
    /\ DOMAIN groups.phase \subseteq OfQueue
    /\ \A j \in DOMAIN groups.phase : groups.phase[j] \in Phases
    /\ queues \in QueueLists \cup {NoQueues}
    /\ dump \in Dumps \cup {NoDump}
    /\ quota \in Verdicts
    /\ identity \in {"open", "pass", "unknown"}
    /\ quiet \in BOOLEAN

LEMMA TypeParts == TypeOK <=> ClusterTypes /\ LookupTypes /\ EvidenceTypes
BY DEF TypeOK, ClusterTypes, LookupTypes, EvidenceTypes

LEMMA TypePartsNext == (TypeOK <=> ClusterTypes /\ LookupTypes /\ EvidenceTypes)'
BY TypeParts, PTL

\* No scheduler is not one of them.
LEMMA NoSchedulerIsNone ==
    /\ NoScheduler \notin Identities
    /\ \A s \in Identities : s[1] \in Replicas /\ s[2] \in Uids
BY NoneAssumption DEF NoScheduler, Identities

LEMMA ListingTypes ==
    ASSUME ClusterTypes
    PROVE  /\ DOMAIN Listing \subseteq Replicas
           /\ \A p \in DOMAIN Listing :
                 /\ Listing[p] \in [uid : Uids, ready : BOOLEAN]
                 /\ Listing[p].uid = pods[p].uid
BY DEF ClusterTypes, Listing, Pods

\* Whoever is chosen is one of those there are to choose from.
LEMMA ChosenIsOf ==
    ASSUME NEW listing, NEW choice, Chooses(listing, choice)
    PROVE  IF choice = {} THEN scheduler' = NoScheduler
           ELSE \E p \in choice : scheduler' = <<p, listing[p].uid>>
<1>1. CASE choice = {}
  BY <1>1 DEF Chooses
<1>2. CASE choice # {}
  <2> DEFINE S == {<<p, listing[p].uid>> : p \in choice}
  <2>1. \E s \in S : TRUE
    BY <1>2
  <2>2. (CHOOSE s \in S : TRUE) \in S
    BY <2>1
  <2>3. scheduler' = CHOOSE s \in S : TRUE
    BY <1>2 DEF Chooses
  <2> QED
    BY <1>2, <2>2, <2>3
<1> QED
  BY <1>1, <1>2

LEMMA ChoicesAreListed ==
    ASSUME NEW listing, NEW named, named \subseteq DOMAIN listing
    PROVE  /\ ByLease(listing, named) \subseteq DOMAIN listing
           /\ WithoutLease(listing) \subseteq DOMAIN listing
BY DEF ByLease, WithoutLease, Ready

-----------------------------------------------------------------------------
(***************************************************************************)
(* Type correctness                                                        *)
(***************************************************************************)
LEMMA InitTypes == Init => TypeOK
<1> SUFFICES ASSUME Init PROVE ClusterTypes /\ LookupTypes /\ EvidenceTypes
  BY TypeParts
<1>1. ClusterTypes
  <2>1. PICK start \in Starts : phase = start.phase /\ tasks = start.tasks
    BY DEF Init
  <2>2. phase \in [Jobs -> Phases] /\ tasks \in [Jobs -> [Tasks -> Statuses]]
    BY <2>1, StartsAssumption
  <2> QED
    BY <2>2, BoundsAssumption DEF Init, ClusterTypes
<1>2. LookupTypes
  BY DEF Init, LookupTypes, Steps
<1>3. EvidenceTypes
  BY DEF Init, EvidenceTypes, Policies, Plugins, Verdicts
<1> QED
  BY <1>1, <1>2, <1>3

LEMMA ClusterChanges ==
    ASSUME Cluster
    PROVE  Changes
<1>1. \A l \in Leases : LeaseChanges(l) => Changes
  BY DEF LeaseChanges
<1>2. \A p \in Replicas : PodFailsOrRecovers(p) \/ PodIsDeleted(p) \/ PodIsRecreated(p) => Changes
  BY DEF PodFailsOrRecovers, PodIsDeleted, PodIsRecreated, PodChanges
<1>3. \A j \in Jobs : GroupIsAdmitted(j) => Changes
  BY DEF GroupIsAdmitted, WorkloadChanges
<1>4. \A j \in Jobs, t \in Tasks : TaskStarts(j, t) \/ TaskEnds(j, t) => Changes
  BY DEF TaskStarts, TaskEnds, WorkloadChanges
<1> QED
  BY <1>1, <1>2, <1>3, <1>4 DEF Cluster

LEMMA ClusterStepTypes ==
    ASSUME TypeOK, Cluster
    PROVE  ClusterTypes'
<1> USE TypeParts, BoundsAssumption
<1>1. changes' \in 0 .. MaxChanges /\ UNCHANGED <<flags, conf, spec>>
  BY ClusterChanges DEF Changes, ClusterTypes
<1>2. ASSUME NEW l \in Leases, LeaseChanges(l)
      PROVE  ClusterTypes'
  BY <1>1, <1>2 DEF LeaseChanges, ClusterTypes, workloadVars
<1>3. ASSUME NEW p \in Replicas, NEW pod \in Pods, PodChanges(p, pod)
      PROVE  ClusterTypes'
  BY <1>1, <1>3 DEF PodChanges, ClusterTypes, workloadVars
<1>4. ASSUME NEW p \in Replicas, PodFailsOrRecovers(p) \/ PodIsDeleted(p) \/ PodIsRecreated(p)
      PROVE  ClusterTypes'
  <2>1. pods[p] \in Pods /\ pods[p].uid \in 1 .. MaxUid
    BY DEF ClusterTypes, Pods, Uids
  <2>2. CASE PodFailsOrRecovers(p)
    <3>1. [pods[p] EXCEPT !.ready = ~@] \in Pods
      BY <2>1, <2>2 DEF PodFailsOrRecovers, Pods
    <3> QED
      BY <1>3, <2>2, <3>1 DEF PodFailsOrRecovers
  <2>3. CASE PodIsDeleted(p)
    <3>1. [pods[p] EXCEPT !.there = FALSE, !.ready = FALSE] \in Pods
      BY <2>1 DEF Pods
    <3> QED
      BY <1>3, <2>3, <3>1 DEF PodIsDeleted
  <2>4. CASE PodIsRecreated(p)
    <3>1. \A ready \in BOOLEAN :
             [uid |-> pods[p].uid + 1, there |-> TRUE, ready |-> ready] \in Pods
      BY <2>1, <2>4 DEF PodIsRecreated, Pods, Uids
    <3> QED
      BY <1>3, <2>4, <3>1 DEF PodIsRecreated
  <2> QED
    BY <1>4, <2>2, <2>3, <2>4
<1>5. ASSUME NEW j \in Jobs, GroupIsAdmitted(j)
      PROVE  ClusterTypes'
  BY <1>1, <1>5 DEF GroupIsAdmitted, WorkloadChanges, ClusterTypes, schedulerVars, Phases
<1>6. ASSUME NEW j \in Jobs, NEW t \in Tasks, TaskStarts(j, t) \/ TaskEnds(j, t)
      PROVE  ClusterTypes'
  <2>1. phase' \in [Jobs -> Phases]
    BY <1>6 DEF TaskStarts, TaskEnds, ClusterTypes, Phases
  <2>2. tasks' \in [Jobs -> [Tasks -> Statuses]]
    <3>1. \A status \in Statuses : [tasks[j] EXCEPT ![t] = status] \in [Tasks -> Statuses]
      BY DEF ClusterTypes
    <3>2. \E status \in Statuses : tasks' = [tasks EXCEPT ![j] = [tasks[j] EXCEPT ![t] = status]]
      BY <1>6 DEF TaskStarts, TaskEnds, Statuses
    <3>3. tasks \in [Jobs -> [Tasks -> Statuses]]
      BY DEF ClusterTypes
    <3> QED
      BY <3>1, <3>2, <3>3
  <2> QED
    BY <1>1, <1>6, <2>1, <2>2
    DEF TaskStarts, TaskEnds, WorkloadChanges, ClusterTypes, schedulerVars
<1> QED
  BY <1>2, <1>4, <1>5, <1>6 DEF Cluster

\* Of what the analysis has, the cluster changes only what the properties remember.
LEMMA ClusterStepKeeps ==
    ASSUME TypeOK, Cluster
    PROVE  /\ UNCHANGED <<flags, conf, spec, pc, expired, lookupVars, evidenceVars>>
           /\ UNCHANGED <<holder, held, steady>> \/ \E l \in Leases : LeaseChanges(l)
           /\ quiet' \in BOOLEAN
<1>1. UNCHANGED <<flags, conf, spec, pc, expired, lookupVars, evidenceVars>>
  BY ClusterChanges DEF Changes
<1>2. ASSUME NEW l \in Leases, LeaseChanges(l)
      PROVE  UNCHANGED quiet
  BY <1>2 DEF LeaseChanges
<1>3. ASSUME NEW p \in Replicas, PodFailsOrRecovers(p) \/ PodIsDeleted(p) \/ PodIsRecreated(p)
      PROVE  UNCHANGED <<holder, historyVars>>
  BY <1>3 DEF PodFailsOrRecovers, PodIsDeleted, PodIsRecreated, PodChanges
<1>4. ASSUME NEW j \in Jobs, GroupIsAdmitted(j) \/ \E t \in Tasks : TaskStarts(j, t) \/ TaskEnds(j, t)
      PROVE  UNCHANGED <<holder, held, steady>> /\ quiet' \in BOOLEAN
  <2>1. WorkloadChanges
    BY <1>4 DEF GroupIsAdmitted, TaskStarts, TaskEnds
  <2> QED
    BY <2>1 DEF WorkloadChanges, schedulerVars, TypeOK
<1>5. UNCHANGED <<holder, held, steady>> \/ \E l \in Leases : LeaseChanges(l)
  BY <1>3, <1>4 DEF Cluster, historyVars
<1>6. quiet' \in BOOLEAN
  BY <1>2, <1>3, <1>4 DEF Cluster, historyVars, TypeOK
<1> QED
  BY <1>1, <1>5, <1>6

-----------------------------------------------------------------------------
(***************************************************************************)
(* The lookup                                                              *)
(***************************************************************************)
\* A Lease is held only by a replica that contends for it.  While Leases are
\* read, a replica that a Lease named all along was found or its Lease is still
\* to be read, and what was found was named at some moment.
LookupInv ==
    /\ \A l \in Leases : holder[l] # None => flags[holder[l]] = l
    /\ pc = "list" => matched = {}
    /\ pc \in {"list", "leases"} => scheduler = NoScheduler
    /\ pc = "leases" =>
          /\ ElectsLeader(listed)
          /\ steady \subseteq HoldersAmong(listed)
          /\ HoldersAmong(listed) \subseteq held
          /\ matched \subseteq held
          /\ \A p \in steady : p \in matched \/ flags[p] \in unread

LEMMA LookupStepTypes ==
    ASSUME TypeOK, LookupInv, GetVolcanoScheduler
    PROVE  LookupTypes'
<1> USE TypeParts
<1>1. \A p \in Replicas : pods[p].uid \in Uids
  BY DEF ClusterTypes, Pods
<1>2. UNCHANGED expired /\ pc' \in Steps
  BY DEF GetVolcanoScheduler, ListSchedulers, ReadLease, ChooseLeader, LookupFails, Goes,
         LookupTypes, Steps
<1>3. CASE ListSchedulers
  <2>1. HoldersAmong(Listing) \subseteq DOMAIN Listing
    BY DEF HoldersAmong
  <2>2. matched' = {}
    BY <1>3 DEF ListSchedulers, LookupInv
  <2>3. unread' \subseteq Leases
    BY <1>3 DEF ListSchedulers, ElectsLeader, LookupTypes
  <2>4. scheduler' \in Identities \cup {NoScheduler}
    <3>1. CASE UNCHANGED scheduler
      BY <3>1 DEF LookupTypes
    <3>2. CASE Chooses(Listing, WithoutLease(Listing))
      <4>1. WithoutLease(Listing) \subseteq DOMAIN Listing
        BY DEF WithoutLease, Ready
      <4> QED
        BY <1>1, <3>2, <4>1, ChosenIsOf, ListingTypes DEF Identities
    <3> QED
      BY <1>3, <3>1, <3>2 DEF ListSchedulers
  <2> QED
    BY <1>2, <1>3, <2>1, <2>2, <2>3, <2>4, ListingTypes DEF ListSchedulers, LookupTypes
<1>4. ASSUME NEW l \in Leases, ReadLease(l)
      PROVE  LookupTypes'
  BY <1>2, <1>4 DEF ReadLease, Named, LookupTypes, historyVars
<1>5. CASE ChooseLeader
  <2>1. ByLease(listed, matched) \subseteq DOMAIN listed
    BY DEF ByLease, LookupTypes
  <2>2. scheduler' \in Identities \cup {NoScheduler}
    BY <1>5, <2>1, ChosenIsOf DEF ChooseLeader, LookupTypes, Identities
  <2> QED
    BY <1>2, <1>5, <2>2 DEF ChooseLeader, LookupTypes, historyVars
<1>6. CASE LookupFails
  BY <1>2, <1>6 DEF LookupFails, LookupTypes, historyVars
<1> QED
  BY <1>3, <1>4, <1>5, <1>6 DEF GetVolcanoScheduler

LEMMA LookupInit == Init => LookupInv /\ LeaderNotPassedOver
BY DEF Init, LookupInv, LeaderNotPassedOver, HoldersAmong

\* A Lease that passes on: who held it is no longer steady, who holds it is held.
LEMMA LeaseChangeKeepsLookup ==
    ASSUME TypeOK, LookupInv, LeaderNotPassedOver, NEW l \in Leases, LeaseChanges(l)
    PROVE  LookupInv' /\ LeaderNotPassedOver'
<1> USE TypeParts
<1>1. UNCHANGED <<flags, pc, lookupVars>>
  BY DEF LeaseChanges, Changes
<1>2. \A m \in Leases : holder'[m] # None => flags'[holder'[m]] = m
  BY <1>1 DEF LeaseChanges, LookupInv, ClusterTypes
<1>3. UNCHANGED ElectsLeader(listed)
  BY <1>1 DEF ElectsLeader, Ready, lookupVars
<1>4. CASE pc = "leases"
  <2>1. /\ held' = held \cup HoldersAmong(listed)'
        /\ steady' = steady \cap HoldersAmong(listed)'
    BY <1>4 DEF LeaseChanges
  <2> QED
    BY <1>1, <1>2, <1>3, <1>4, <2>1 DEF LookupInv, LeaderNotPassedOver, lookupVars
<1>5. CASE pc # "leases"
  <2>1. UNCHANGED <<held, steady>>
    BY <1>5 DEF LeaseChanges
  <2> QED
    BY <1>1, <1>2, <1>3, <1>5, <2>1 DEF LookupInv, LeaderNotPassedOver, lookupVars, Ready
<1> QED
  BY <1>4, <1>5
\* The one replica that was found is the leader, or the lookup fails.
LEMMA ChosenLeaderHolds ==
    ASSUME TypeOK, LookupInv, ChooseLeader
    PROVE  LeaderNotPassedOver'
<1> USE TypeParts
<1>1. UNCHANGED <<flags, listed, matched, held, steady>> /\ unread = {} /\ pc = "leases"
  BY DEF ChooseLeader, Goes, clusterVars, historyVars
<1>2. CASE ByLease(listed, matched) = {}
  BY <1>1, <1>2, ChosenIsOf DEF ChooseLeader, LeaderNotPassedOver
<1>3. CASE ByLease(listed, matched) # {}
  <2>1. Cardinality(matched) = 1 /\ matched \subseteq Ready(listed) /\ ByLease(listed, matched) = matched
    BY <1>3 DEF ByLease
  <2>2. IsFiniteSet(matched)
    BY ReplicasAssumption, FS_Subset DEF LookupTypes
  <2>3. PICK x : matched = {x}
    BY <2>1, <2>2, FS_Singleton
  <2>4. scheduler'[1] = x
    BY <1>3, <2>1, <2>3, ChosenIsOf DEF ChooseLeader
  <2>5. steady \subseteq {x} /\ x \in held
    BY <1>1, <2>3 DEF LookupInv
  <2> QED
    BY <1>1, <2>1, <2>3, <2>4, <2>5 DEF LeaderNotPassedOver, Ready
<1> QED
  BY <1>2, <1>3

LEMMA LookupStep ==
    ASSUME TypeOK, LookupInv, LeaderNotPassedOver, GetVolcanoScheduler
    PROVE  LookupInv' /\ LeaderNotPassedOver'
<1> USE TypeParts
<1>1. UNCHANGED <<flags, holder>>
  BY DEF GetVolcanoScheduler, ListSchedulers, ReadLease, ChooseLeader, LookupFails, Goes, clusterVars
<1>2. CASE ListSchedulers
  <2>1. /\ pc = "list" /\ matched' = {} /\ listed' = Listing
        /\ held' = HoldersAmong(Listing) /\ steady' = HoldersAmong(Listing)
    BY <1>2 DEF ListSchedulers, LookupInv
  <2>2. HoldersAmong(listed)' = HoldersAmong(Listing)
    BY <1>1, <2>1 DEF HoldersAmong
  <2>3. ElectsLeader(listed)' <=> ElectsLeader(Listing)
    BY <1>1, <2>1 DEF ElectsLeader, Ready
  <2>4. CASE ElectsLeader(Listing)
    <3>1. /\ unread' = {flags[p] : p \in DOMAIN Listing}
          /\ pc' = "leases" /\ UNCHANGED scheduler
      BY <1>2, <2>4 DEF ListSchedulers, Goes
    <3>2. \A p \in steady' : flags'[p] \in unread'
      BY <1>1, <2>1, <3>1 DEF HoldersAmong
    <3> QED
      BY <1>1, <2>1, <2>2, <2>3, <2>4, <3>1, <3>2 DEF LookupInv, LeaderNotPassedOver
  <2>5. CASE ~ElectsLeader(Listing)
    <3>1. pc' = "policy"
      BY <1>2, <2>5 DEF ListSchedulers, Goes
    <3> QED
      BY <1>1, <2>3, <2>5, <3>1 DEF LookupInv, LeaderNotPassedOver
  <2> QED
    BY <2>4, <2>5
<1>3. ASSUME NEW l \in Leases, ReadLease(l)
      PROVE  LookupInv' /\ LeaderNotPassedOver'
  <2>1. /\ pc = "leases" /\ pc' = "leases" /\ UNCHANGED <<listed, scheduler, held, steady>>
        /\ unread' = unread \ {l} /\ matched' = matched \cup Named(listed, l)
    BY <1>3 DEF ReadLease, Goes, historyVars
  <2>2. HoldersAmong(listed)' = HoldersAmong(listed) /\ UNCHANGED ElectsLeader(listed)
    BY <1>1, <2>1 DEF HoldersAmong, ElectsLeader, Ready
  <2>3. Named(listed, l) \subseteq HoldersAmong(listed)
    BY DEF Named, HoldersAmong
  <2>4. ASSUME NEW p \in steady, flags[p] = l
        PROVE  p \in Named(listed, l)
    <3>1. PICK m \in Leases : holder[m] = p /\ p \in DOMAIN listed
      BY <2>1 DEF LookupInv, HoldersAmong
    <3>2. p # None
      BY <3>1, NoneAssumption DEF LookupTypes
    <3> QED
      BY <2>4, <3>1, <3>2 DEF LookupInv, Named
  <2>5. \A p \in steady : p \in matched' \/ flags[p] \in unread'
    BY <2>1, <2>4 DEF LookupInv
  <2> QED
    BY <1>1, <2>1, <2>2, <2>3, <2>5 DEF LookupInv, LeaderNotPassedOver
<1>4. CASE ChooseLeader
  <2>1. pc' = "policy"
    BY <1>4 DEF ChooseLeader, Goes
  <2> QED
    BY <1>1, <1>4, <2>1, ChosenLeaderHolds DEF LookupInv
<1>5. CASE LookupFails
  <2>1. pc' = "policy" /\ scheduler' = NoScheduler
    BY <1>5 DEF LookupFails, Goes
  <2> QED
    BY <1>1, <2>1 DEF LookupInv, LeaderNotPassedOver
<1> QED
  BY <1>2, <1>3, <1>4, <1>5 DEF GetVolcanoScheduler
-----------------------------------------------------------------------------
(***************************************************************************)
(* The rest of the evidence                                                *)
(***************************************************************************)
\* The policy is of the scheduler that was looked up, who is not looked up again;
\* the identity is checked last.
EvidenceInv ==
    /\ PolicyIsOfSelected
    /\ pc \in {"list", "leases", "policy"} => policy.plugin = "unknown"
    /\ pc # "done" => identity = "open"
    /\ identity = "pass" => policy.of = dump.of

LEMMA EvidenceInit == Init => EvidenceInv
BY DEF Init, EvidenceInv, PolicyIsOfSelected

LEMMA ReadConfigurationIsOfSelected ==
    ASSUME TypeOK, ReadConfiguration
    PROVE  /\ policy' \in Policies
           /\ policy'.plugin # "unknown" =>
                 policy'.of = scheduler /\ conf[scheduler] = policy'.plugin
<1> USE TypeParts
<1>1. CASE scheduler = NoScheduler \/ expired
  <2>1. policy' = [of |-> NoScheduler, plugin |-> "unknown"]
    BY <1>1 DEF ReadConfiguration
  <2> QED
    BY <2>1 DEF Policies, Plugins
<1>2. CASE ~(scheduler = NoScheduler \/ expired)
  <2>1. scheduler \in Identities /\ scheduler[1] \in Replicas
    BY <1>2, NoSchedulerIsNone DEF LookupTypes
  <2>2. pods[scheduler[1]].uid \in Uids
    BY <2>1 DEF ClusterTypes, Pods
  <2>3. conf \in [Replicas \X Uids -> Plugins]
    BY ConfigurationsAssumption DEF ClusterTypes
  <2>4. CASE StillThere(scheduler)
    <3>1. scheduler = <<scheduler[1], pods[scheduler[1]].uid>>
      BY <2>1, <2>4 DEF StillThere, Identities
    <3>2. policy' = [of |-> scheduler, plugin |-> conf[scheduler]]
      BY <1>2, <2>4, <3>1 DEF ReadConfiguration
    <3>3. conf[scheduler] \in Plugins
      BY <2>1, <2>3 DEF Identities
    <3> QED
      BY <2>1, <3>2, <3>3 DEF Policies
  <2>5. CASE ~StillThere(scheduler)
    <3>1. policy' = [of |-> scheduler, plugin |-> "unknown"]
      BY <1>2, <2>5 DEF ReadConfiguration
    <3> QED
      BY <2>1, <3>1 DEF Policies, Plugins
  <2> QED
    BY <2>4, <2>5
<1> QED
  BY <1>1, <1>2

LEMMA VerdictType ==
    ASSUME NEW order
    PROVE  QuotaVerdict(order) \in Verdicts
BY DEF QuotaVerdict, QueueCapacityCheck, Verdicts

\* A dump is of a scheduler that was there to be asked.
LEMMA CaptureTypes ==
    ASSUME TypeOK, CaptureCacheDump
    PROVE  dump' \in Dumps
<1> USE TypeParts
<1>1. SelectedNow \subseteq Replicas
  <2>1. HoldersAmong(Listing) \subseteq DOMAIN Listing
    BY DEF HoldersAmong
  <2> QED
    BY <2>1, ChoicesAreListed, ListingTypes DEF SelectedNow
<1>2. PICK p \in SelectedNow, nodes \in NodeLists :
         dump' = [of |-> <<p, pods[p].uid>>, nodes |-> nodes, tasks |-> tasks, phase |-> phase]
  BY DEF CaptureCacheDump
<1>3. <<p, pods[p].uid>> \in Identities
  BY <1>1 DEF ClusterTypes, Pods, Identities
<1> QED
  BY <1>2, <1>3 DEF Dumps, ClusterTypes

LEMMA CollectStep ==
    ASSUME TypeOK, EvidenceInv, Collect
    PROVE  EvidenceTypes' /\ EvidenceInv' /\ pc' \in Steps \ {"list", "leases"}
<1> USE TypeParts DEF Goes, clusterVars, lookupVars, historyVars, Steps
<1>1. CASE ReadConfiguration
  <2>1. OfQueue' = OfQueue
    BY <1>1 DEF ReadConfiguration, OfQueue, Own
  <2> QED
    BY <1>1, <2>1, ReadConfigurationIsOfSelected
    DEF ReadConfiguration, EvidenceTypes, EvidenceInv, PolicyIsOfSelected
<1>2. CASE ListPodGroups
  <2>1. OfQueue' = OfQueue /\ OfQueue \subseteq Jobs
    BY <1>2 DEF ListPodGroups, OfQueue, Own
  <2>2. PICK some \in SUBSET OfQueue :
           groups' = [complete |-> ~expired /\ some = OfQueue, phase |-> [j \in some |-> phase[j]]]
    BY <1>2 DEF ListPodGroups
  <2>3. /\ groups'.complete \in BOOLEAN
        /\ DOMAIN groups'.phase \subseteq OfQueue
        /\ \A j \in DOMAIN groups'.phase : groups'.phase[j] \in Phases
    BY <2>1, <2>2 DEF ClusterTypes, LookupTypes
  <2> QED
    BY <1>2, <2>1, <2>3 DEF ListPodGroups, EvidenceTypes, EvidenceInv, PolicyIsOfSelected
<1>3. CASE ListQueues
  <2>1. OfQueue' = OfQueue
    BY <1>3 DEF ListQueues, OfQueue, Own
  <2> QED
    BY <1>3, <2>1 DEF ListQueues, EvidenceTypes, EvidenceInv, PolicyIsOfSelected
<1>4. CASE CaptureCacheDump
  <2>1. OfQueue' = OfQueue
    BY <1>4 DEF CaptureCacheDump, OfQueue, Own
  <2> QED
    BY <1>4, <2>1, CaptureTypes
    DEF CaptureCacheDump, EvidenceTypes, EvidenceInv, PolicyIsOfSelected
<1>5. CASE CaptureFails
  <2>1. OfQueue' = OfQueue
    BY <1>5 DEF CaptureFails, OfQueue, Own
  <2> QED
    BY <1>5, <2>1 DEF CaptureFails, evidenceVars, EvidenceTypes, EvidenceInv, PolicyIsOfSelected
<1>6. CASE CheckEvidence
  <2>1. OfQueue' = OfQueue
    BY <1>6 DEF CheckEvidence, OfQueue, Own
  <2>2. quota' \in Verdicts
    BY <1>6, VerdictType DEF CheckEvidence
  <2>3. /\ identity' \in {"pass", "unknown"}
        /\ identity' = "pass" => policy.of = dump.of
    BY <1>6 DEF CheckEvidence, IdentityVerdict
  <2> QED
    BY <1>6, <2>1, <2>2, <2>3
    DEF CheckEvidence, EvidenceTypes, EvidenceInv, PolicyIsOfSelected
<1> QED
  BY <1>1, <1>2, <1>3, <1>4, <1>5, <1>6 DEF Collect

\* The lookup is before all other evidence.
LEMMA LookupKeepsEvidence ==
    ASSUME TypeOK, EvidenceInv, GetVolcanoScheduler
    PROVE  EvidenceTypes' /\ EvidenceInv'
<1> USE TypeParts
<1>1. /\ pc \in {"list", "leases"} /\ pc' # "done"
      /\ UNCHANGED <<spec, conf, evidenceVars>> /\ quiet' = quiet
  BY DEF GetVolcanoScheduler, ListSchedulers, ReadLease, ChooseLeader, LookupFails, Goes,
         clusterVars, historyVars
<1>2. OfQueue' = OfQueue
  BY <1>1 DEF OfQueue, Own
<1> QED
  BY <1>1, <1>2 DEF evidenceVars, EvidenceTypes, EvidenceInv, PolicyIsOfSelected

-----------------------------------------------------------------------------
Inv == TypeOK /\ LookupInv /\ LeaderNotPassedOver /\ EvidenceInv

\* Steps that do not look anybody up.
LEMMA LookupKept ==
    ASSUME LookupTypes, LookupInv, LeaderNotPassedOver,
           UNCHANGED <<flags, holder, lookupVars, held, steady>>,
           pc' = pc \/ pc' \in Steps \ {"list", "leases"}, expired' \in BOOLEAN
    PROVE  LookupTypes' /\ LookupInv' /\ LeaderNotPassedOver'
<1>1. LookupTypes'
  BY DEF LookupTypes, lookupVars
<1>2. UNCHANGED <<HoldersAmong(listed), ElectsLeader(listed), Ready(listed)>>
  BY DEF HoldersAmong, ElectsLeader, Ready, lookupVars
<1> QED
  BY <1>1, <1>2 DEF LookupInv, LeaderNotPassedOver, lookupVars

LEMMA InvStep == Inv /\ [Next]_vars => Inv'
<1> SUFFICES ASSUME Inv, [Next]_vars
             PROVE  ClusterTypes' /\ LookupTypes' /\ EvidenceTypes'
                    /\ LookupInv' /\ LeaderNotPassedOver' /\ EvidenceInv'
  BY TypePartsNext DEF Inv
<1> USE TypeParts DEF Inv
<1>1. CASE Cluster
  <2>1. ClusterTypes'
    BY <1>1, ClusterStepTypes
  <2>2. /\ UNCHANGED <<flags, conf, spec, pc, expired, lookupVars, evidenceVars>>
        /\ quiet' \in BOOLEAN
    BY <1>1, ClusterStepKeeps
  <2>3. OfQueue' = OfQueue
    BY <2>2 DEF OfQueue, Own
  <2>4. EvidenceTypes' /\ EvidenceInv'
    BY <2>2, <2>3 DEF lookupVars, evidenceVars, EvidenceTypes, EvidenceInv, PolicyIsOfSelected
  <2>5. CASE \E l \in Leases : LeaseChanges(l)
    <3>1. LookupInv' /\ LeaderNotPassedOver'
      BY <2>5, LeaseChangeKeepsLookup
    <3>2. held' \subseteq DOMAIN listed' /\ steady' \subseteq held'
      BY <2>2, <2>5 DEF LeaseChanges, LookupTypes, HoldersAmong, lookupVars
    <3>3. LookupTypes'
      BY <2>2, <3>2 DEF LookupTypes, lookupVars
    <3> QED
      BY <2>1, <2>4, <3>1, <3>3
  <2>6. CASE UNCHANGED <<holder, held, steady>>
    <3>1. expired' \in BOOLEAN
      BY <2>2 DEF LookupTypes
    <3> QED
      BY <2>1, <2>2, <2>4, <2>6, <3>1, LookupKept
  <2> QED
    BY <1>1, <2>5, <2>6, ClusterStepKeeps
<1>2. CASE ContextExpires
  <2>1. /\ UNCHANGED <<clusterVars, pc, lookupVars, evidenceVars, historyVars>>
        /\ expired' = TRUE
    BY <1>2 DEF ContextExpires
  <2>2. ClusterTypes' /\ OfQueue' = OfQueue
    BY <2>1 DEF ClusterTypes, clusterVars, OfQueue, Own
  <2>3. EvidenceTypes' /\ EvidenceInv'
    BY <2>1, <2>2
    DEF clusterVars, lookupVars, evidenceVars, historyVars, EvidenceTypes, EvidenceInv,
        PolicyIsOfSelected
  <2> QED
    BY <2>1, <2>2, <2>3, LookupKept DEF clusterVars, historyVars
<1>3. CASE GetVolcanoScheduler
  <2>1. ClusterTypes'
    BY <1>3 DEF GetVolcanoScheduler, ListSchedulers, ReadLease, ChooseLeader, LookupFails, Goes,
                clusterVars, ClusterTypes
  <2> QED
    BY <1>3, <2>1, LookupStepTypes, LookupStep, LookupKeepsEvidence
<1>4. CASE Collect
  <2>1. /\ UNCHANGED <<clusterVars, expired, lookupVars, held, steady>>
    BY <1>4 DEF Collect, ReadConfiguration, ListPodGroups, ListQueues, CaptureCacheDump,
                CaptureFails, CheckEvidence, Goes, historyVars
  <2>2. ClusterTypes' /\ expired' \in BOOLEAN
    BY <2>1 DEF ClusterTypes, clusterVars, LookupTypes
  <2> QED
    BY <1>4, <2>1, <2>2, CollectStep, LookupKept DEF clusterVars
<1>5. CASE UNCHANGED vars
  <2>1. ClusterTypes' /\ OfQueue' = OfQueue
    BY <1>5 DEF vars, ClusterTypes, clusterVars, OfQueue, Own
  <2>2. EvidenceTypes' /\ EvidenceInv'
    BY <1>5, <2>1
    DEF vars, clusterVars, lookupVars, evidenceVars, historyVars, EvidenceTypes, EvidenceInv,
        PolicyIsOfSelected
  <2>3. expired' \in BOOLEAN
    BY <1>5 DEF vars, LookupTypes
  <2> QED
    BY <1>5, <2>1, <2>2, <2>3, LookupKept DEF vars, clusterVars, historyVars
<1> QED
  BY <1>1, <1>2, <1>3, <1>4, <1>5 DEF Next

LEMMA InvHolds == Spec => []Inv
<1>1. Init => Inv
  BY InitTypes, LookupInit, EvidenceInit DEF Inv
<1> QED
  BY <1>1, InvStep, PTL DEF Spec

\* Every variable of the evidence keeps to its set.
THEOREM TypeCorrect == Spec => []TypeOK
<1>1. Inv => TypeOK
  BY DEF Inv
<1> QED
  BY <1>1, InvHolds, PTL

\* GetVolcanoScheduler takes a ready replica that a Lease named during the lookup,
\* and passes over none that a Lease named all along.
THEOREM LeaderNotPassedOverHolds == Spec => []LeaderNotPassedOver
<1>1. Inv => LeaderNotPassedOver
  BY DEF Inv
<1> QED
  BY <1>1, InvHolds, PTL

\* A determinate policy is that of the Pod, with its UID, that was selected.
THEOREM PolicyIsOfSelectedHolds == Spec => []PolicyIsOfSelected
<1>1. Inv => PolicyIsOfSelected
  BY DEF Inv, EvidenceInv
<1> QED
  BY <1>1, InvHolds, PTL

\* If the identity check passes, the dump comes from the scheduler whose policy
\* the report shows.
THEOREM OneSchedulerHolds == Spec => []OneScheduler
<1>1. Inv => OneScheduler
  BY DEF Inv, EvidenceInv, PolicyIsOfSelected, OneScheduler
<1> QED
  BY <1>1, InvHolds, PTL
-----------------------------------------------------------------------------
(***************************************************************************)
(* Resource lists                                                          *)
(***************************************************************************)
LEMMA MaxIsLast ==
    /\ Max({1}) = 1
    /\ Max({2}) = 2
    /\ Max({1, 2}) = 2
BY DEF Max

\* The names of a dimension that a list has, and those whose value is written.
FoundAt(list, order, d) == {i \in DOMAIN order : <<order[i], d>> \in DOMAIN list}

WrittenAt(list, order, d) ==
    {i \in FoundAt(list, order, d) :
        Overwrites(order[i], {order[j] : j \in {k \in FoundAt(list, order, d) : k < i}})}

\* The value of a dimension is that of its request if there is one.
LEMMA RequestWins ==
    ASSUME NEW list, NEW order \in Orders, NEW d,
           \E alias \in {"plain", "requests"} : <<alias, d>> \in DOMAIN list
    PROVE  order[Max(WrittenAt(list, order, d))] =
               IF <<"requests", d>> \in DOMAIN list THEN "requests" ELSE "plain"
<1> DEFINE found == FoundAt(list, order, d)
           written == WrittenAt(list, order, d)
<1> USE DEF FoundAt, WrittenAt
<1>1. DOMAIN order = {1, 2}
  BY DEF Orders
<1>2. CASE order = <<"plain", "requests">>
  <2>1. order[1] = "plain" /\ order[2] = "requests"
    BY <1>2
  <2>2. CASE <<"requests", d>> \in DOMAIN list
    <3>1. 2 \in written /\ written \subseteq {1, 2}
      BY <1>1, <2>1, <2>2 DEF Overwrites
    <3>2. written = {2} \/ written = {1, 2}
      BY <3>1
    <3> QED
      BY <2>1, <2>2, <3>2, MaxIsLast
  <2>3. CASE <<"requests", d>> \notin DOMAIN list
    <3>1. found = {1}
      BY <1>1, <2>1, <2>3
    <3>2. written = {1}
      BY <2>1, <3>1 DEF Overwrites
    <3> QED
      BY <2>1, <2>3, <3>2, MaxIsLast
  <2> QED
    BY <2>2, <2>3
<1>3. CASE order = <<"requests", "plain">>
  <2>1. order[1] = "requests" /\ order[2] = "plain"
    BY <1>3
  <2>2. CASE <<"requests", d>> \in DOMAIN list
    <3>1. 1 \in found /\ found \subseteq {1, 2}
      BY <1>1, <2>1, <2>2
    <3>2. 1 \in written
      BY <2>1, <3>1 DEF Overwrites
    <3>3. 2 \notin written
      BY <2>1, <3>1 DEF Overwrites
    <3>4. written = {1}
      BY <3>1, <3>2, <3>3
    <3> QED
      BY <2>1, <2>2, <3>4, MaxIsLast
  <2>3. CASE <<"requests", d>> \notin DOMAIN list
    <3>1. found = {2}
      BY <1>1, <2>1, <2>3
    <3>2. written = {2}
      BY <2>1, <3>1 DEF Overwrites
    <3> QED
      BY <2>1, <2>3, <3>2, MaxIsLast
  <2> QED
    BY <2>2, <2>3
<1> QED
  BY <1>2, <1>3 DEF Orders

\* resourceListValues does not depend on the order in which Go walks its map.
THEOREM OrderDoesNotMatter ==
    ASSUME NEW list, NEW S, DOMAIN list \subseteq {"plain", "requests"} \X S,
           NEW first \in Orders, NEW second \in Orders
    PROVE  ResourceListValues(list, first) = ResourceListValues(list, second)
<1> DEFINE dims == {name[2] : name \in DOMAIN list}
           Values(order) == [d \in dims |-> list[<<order[Max(WrittenAt(list, order, d))], d>>]]
<1>1. \A d \in dims : \E alias \in {"plain", "requests"} : <<alias, d>> \in DOMAIN list
  OBVIOUS
<1>2. \A d \in dims :
         first[Max(WrittenAt(list, first, d))] = second[Max(WrittenAt(list, second, d))]
  BY <1>1, RequestWins
<1>3. /\ ResourceListValues(list, first) = Values(first)
      /\ ResourceListValues(list, second) = Values(second)
  BY DEF ResourceListValues, WrittenAt, FoundAt
<1>4. Values(first) = Values(second)
  BY <1>2
<1> QED
  BY <1>3, <1>4
\* What a list says of a dimension, whichever name it uses.
LEMMA ListIsWanted ==
    ASSUME NEW list, IsResourceList(list), NEW order \in Orders, NEW d
    PROVE  /\ ValueOf(ResourceListValues(list, order), d) = Wanted(list, d)
           /\ Wanted(list, d) \in Int
           /\ d \in DOMAIN ResourceListValues(list, order) <=>
                 \E alias \in {"plain", "requests"} : <<alias, d>> \in DOMAIN list
           /\ d \in DOMAIN ResourceListValues(list, order) => d \in Dims
<1> DEFINE dims == {name[2] : name \in DOMAIN list}
           last(e) == order[Max(WrittenAt(list, order, e))]
<1>1. ResourceListValues(list, order) = [e \in dims |-> list[<<last(e), e>>]]
  BY DEF ResourceListValues, WrittenAt, FoundAt
<1>2. d \in dims <=> \E alias \in {"plain", "requests"} : <<alias, d>> \in DOMAIN list
  BY DEF IsResourceList
<1>3. d \in dims => d \in Dims
  BY DEF IsResourceList
<1>4. CASE d \in dims
  <2>1. last(d) = IF <<"requests", d>> \in DOMAIN list THEN "requests" ELSE "plain"
    BY <1>2, <1>4, RequestWins
  <2>2. <<last(d), d>> \in DOMAIN list
    BY <1>2, <1>4, <2>1
  <2> HIDE DEF last
  <2>3. ValueOf(ResourceListValues(list, order), d) = list[<<last(d), d>>]
    BY <1>1, <1>4 DEF ValueOf
  <2>4. Wanted(list, d) = list[<<last(d), d>>]
    BY <1>2, <1>4, <2>1 DEF Wanted
  <2>5. list[<<last(d), d>>] \in Int
    BY <2>2 DEF IsResourceList
  <2> QED
    BY <1>1, <1>2, <1>3, <1>4, <2>3, <2>4, <2>5
<1>5. CASE d \notin dims
  <2>1. ValueOf(ResourceListValues(list, order), d) = 0
    BY <1>1, <1>5 DEF ValueOf
  <2>2. Wanted(list, d) = 0
    BY <1>2, <1>5 DEF Wanted
  <2> QED
    BY <1>1, <1>2, <1>5, <2>1, <2>2
<1> QED
  BY <1>4, <1>5

-----------------------------------------------------------------------------
(***************************************************************************)
(* Amounts, dimension by dimension                                         *)
(***************************************************************************)
LEMMA AmountValue ==
    ASSUME NEW amount, IsAmount(amount), NEW d
    PROVE  ValueOf(amount, d) \in Int
BY DEF IsAmount, ValueOf

LEMMA TotalValue ==
    ASSUME NEW amounts, IsFiniteSet(DOMAIN amounts), NEW d,
           \A x \in DOMAIN amounts : ValueOf(amounts[x], d) \in Int
    PROVE  /\ ValueOf(Total(amounts), d) =
                  SumFunctionOnSet(InDimension(amounts, d), DOMAIN amounts)
           /\ ValueOf(Total(amounts), d) \in Int
           /\ d \in DOMAIN Total(amounts) <=>
                 \E x \in DOMAIN amounts : d \in DOMAIN amounts[x]
<1> DEFINE f == InDimension(amounts, d)
           dims == UNION {DOMAIN amounts[x] : x \in DOMAIN amounts}
<1>1. \A x \in DOMAIN amounts : f[x] = ValueOf(amounts[x], d)
  BY DEF InDimension
<1>2. DOMAIN f = DOMAIN amounts
  BY DEF InDimension
<1>3. DOMAIN Total(amounts) = dims
  BY DEF Total
<1>4. SumFunctionOnSet(f, DOMAIN amounts) \in Int
  BY <1>1, SumIsInt
<1>5. CASE d \in dims
  <2>1. Total(amounts)[d] = SumFunction(f)
    BY <1>5 DEF Total
  <2>2. SumFunction(f) = SumFunctionOnSet(f, DOMAIN amounts)
    BY <1>2 DEF SumFunction
  <2> QED
    BY <1>3, <1>4, <1>5, <2>1, <2>2 DEF ValueOf
<1>6. CASE d \notin dims
  <2>1. \A x \in DOMAIN amounts : f[x] = 0
    BY <1>1, <1>6 DEF ValueOf
  <2>2. SumFunctionOnSet(f, DOMAIN amounts) = 0
    BY <2>1, SumOfZeros
  <2> QED
    BY <1>3, <1>6, <2>2 DEF ValueOf
<1> QED
  BY <1>5, <1>6

LEMMA DiffValue ==
    ASSUME NEW left, NEW right, NEW d,
           ValueOf(left, d) \in Int, ValueOf(right, d) \in Int
    PROVE  ValueOf(PositiveResourceDiff(left, right), d) =
               IF ValueOf(left, d) > ValueOf(right, d)
               THEN ValueOf(left, d) - ValueOf(right, d) ELSE 0
<1> DEFINE more == {e \in DOMAIN left \cup DOMAIN right : ValueOf(left, e) > ValueOf(right, e)}
<1>1. ValueOf(left, d) > ValueOf(right, d) => d \in DOMAIN left \cup DOMAIN right
  BY DEF ValueOf
<1>2. d \in more <=> ValueOf(left, d) > ValueOf(right, d)
  BY <1>1
<1> QED
  BY <1>2 DEF PositiveResourceDiff, ValueOf

LEMMA DifferenceValue ==
    ASSUME NEW left, NEW right, NEW d \in DOMAIN left
    PROVE  /\ d \in DOMAIN SubResourceValues(left, right)
           /\ ValueOf(SubResourceValues(left, right), d) = ValueOf(left, d) - ValueOf(right, d)
BY DEF SubResourceValues, ValueOf

LEMMA SumValue ==
    ASSUME NEW left, NEW right, NEW d \in DOMAIN left
    PROVE  /\ d \in DOMAIN AddResourceValues(left, right)
           /\ AddResourceValues(left, right)[d] = ValueOf(left, d) + ValueOf(right, d)
BY DEF AddResourceValues

\* A dimension that the target has is limited by the limit, if that has it.
LEMMA LimitValue ==
    ASSUME NEW target, NEW limit, NEW d \in DOMAIN target
    PROVE  /\ d \in DOMAIN MinResourceValues(target, limit)
           /\ MinResourceValues(target, limit)[d] =
                 IF d \in DOMAIN limit /\ limit[d] < target[d] THEN limit[d] ELSE target[d]
BY DEF MinResourceValues

-----------------------------------------------------------------------------
(***************************************************************************)
(* What a job counts                                                       *)
(***************************************************************************)
\* The tasks that run, according to the dump.
RunningIn(j) == {t \in Tasks : dump.tasks[j][t] = "Running"}

LEMMA DumpTypes ==
    ASSUME TypeOK, dump # NoDump
    PROVE  /\ dump.tasks \in [Jobs -> [Tasks -> Statuses]]
           /\ dump.nodes \in NodeLists
           /\ IsFiniteSet(DOMAIN dump.nodes)
           /\ \A n \in DOMAIN dump.nodes : IsAmount(dump.nodes[n])
BY NodeListsAssumption DEF TypeOK, Dumps

LEMMA AllocatedValue ==
    ASSUME TypeOK, dump # NoDump, NEW j \in Jobs, NEW d
    PROVE  LET n == Cardinality(RunningIn(j))
               v == ValueOf(spec[j].resreq, d)
           IN /\ AllocatedTasks(DumpedJobs[j]) = RunningIn(j)
              /\ n \in Nat
              /\ v \in Int
              /\ n * v \in Int
              /\ ValueOf(Allocated(DumpedJobs[j]), d) = n * v
<1> DEFINE n == Cardinality(RunningIn(j))
           v == ValueOf(spec[j].resreq, d)
           amounts == [t \in RunningIn(j) |-> spec[j].resreq]
<1>1. AllocatedTasks(DumpedJobs[j]) = RunningIn(j)
  <2>1. DumpedJobs[j].tasks = dump.tasks[j] /\ dump.tasks[j] \in [Tasks -> Statuses]
    BY DumpTypes DEF DumpedJobs
  <2> QED
    BY <2>1 DEF AllocatedTasks, RunningIn, allocatedTaskStatuses, Statuses
<1>2. IsFiniteSet(RunningIn(j)) /\ n \in Nat
  BY WorkloadAssumption, FS_Subset, FS_CardinalityType DEF RunningIn
<1>3. v \in Int
  BY SpecsAssumption, AmountValue DEF TypeOK
<1>4. Allocated(DumpedJobs[j]) = Total(amounts)
  <2>1. DumpedJobs[j].resreq = spec[j].resreq
    BY DEF DumpedJobs
  <2> QED
    BY <1>1, <2>1 DEF Allocated
<1>5. \A t \in RunningIn(j) : ValueOf(amounts[t], d) = v
  OBVIOUS
<1>6. DOMAIN amounts = RunningIn(j)
  OBVIOUS
<1>7. ValueOf(Total(amounts), d) = SumFunctionOnSet(InDimension(amounts, d), RunningIn(j))
  <2> HIDE DEF amounts, v
  <2> QED
    BY <1>2, <1>3, <1>5, <1>6, TotalValue
<1>8. \A t \in RunningIn(j) : InDimension(amounts, d)[t] = v
  <2> HIDE DEF amounts, v
  <2> QED
    BY <1>5, <1>6 DEF InDimension
<1>9. SumFunctionOnSet(InDimension(amounts, d), RunningIn(j)) = n * v
  <2> HIDE DEF amounts, v
  <2> QED
    BY <1>2, <1>3, <1>8, SumOfConstant
<1>10. n * v \in Int
  <2> HIDE DEF n, v
  <2> QED
    BY <1>2, <1>3
<1> QED
  BY <1>1, <1>2, <1>3, <1>4, <1>7, <1>9, <1>10

\* The three parts of the arithmetic, whatever the numbers.
LEMMA ReservedAndElastic ==
    ASSUME NEW has \in Int, NEW min \in Int
    PROVE  LET more == IF has > min THEN has - min ELSE 0
               less == IF min > has THEN min - has ELSE 0
           IN /\ more \in Int
              /\ less \in Int
              /\ has + less - more = min
              /\ has + 0 - more = Least(has, min)
              /\ has + min - more = Least(has, min) + min
BY DEF Least

\* A PodGroup that the dump shows as it was listed: what its job has, and
\* reserves, without what is elastic, is what the formula counts.
LEMMA JobCounts ==
    ASSUME TypeOK, dump # NoDump, NEW j \in DOMAIN groups.phase,
           dump.phase[j] = groups.phase[j],
           NEW order \in Orders, NEW d
    PROVE  LET job   == DumpedJobs[j]
               group == ListedGroups[j]
           IN /\ ValueOf(Allocated(job), d) \in Int
              /\ ValueOf(Inqueue(job, group, order), d) \in Int
              /\ ValueOf(Elastic(job, group, order), d) \in Int
              /\ Counted(j, d) \in Int
              /\ ValueOf(Allocated(job), d) + ValueOf(Inqueue(job, group, order), d)
                     - ValueOf(Elastic(job, group, order), d) = Counted(j, d)
<1> DEFINE job   == DumpedJobs[j]
           group == ListedGroups[j]
           list  == spec[j].min
           min   == Wanted(list, d)
           n     == Cardinality(RunningIn(j))
           has   == n * ValueOf(spec[j].resreq, d)
           more  == IF has > min THEN has - min ELSE 0
           less  == IF min > has THEN min - has ELSE 0
           full  == dump.phase[j] = "Running" /\ n >= spec[j].minMember
<1>1. j \in Jobs
  BY DEF TypeOK, OfQueue
<1>2. /\ has \in Int
      /\ ValueOf(Allocated(job), d) = has
      /\ AllocatedTasks(job) = RunningIn(j)
  BY <1>1, AllocatedValue
<1>3. min \in Int /\ ValueOf(ResourceListValues(list, order), d) = min
  BY <1>1, SpecsAssumption, ListIsWanted DEF TypeOK
<1>4. /\ group.phase = dump.phase[j]
      /\ group.min = list
      /\ group.minMember = spec[j].minMember
  BY DEF ListedGroups
<1>5. ValueOf(Elastic(job, group, order), d) = more
  BY <1>2, <1>3, <1>4, DiffValue DEF Elastic
<1>6. ValueOf(Inqueue(job, group, order), d) =
          IF dump.phase[j] = "Inqueue" THEN min ELSE IF full THEN less ELSE 0
  <2>1. ValueOf(PositiveResourceDiff(ResourceListValues(list, order), Allocated(job)), d) = less
    BY <1>2, <1>3, DiffValue
  <2>2. ValueOf(Nothing, d) = 0
    BY DEF Nothing, ValueOf
  <2> HIDE DEF less, min, n, job, list
  <2>3. Inqueue(job, group, order) =
            IF dump.phase[j] = "Inqueue" THEN ResourceListValues(list, order)
            ELSE IF full THEN PositiveResourceDiff(ResourceListValues(list, order), Allocated(job))
            ELSE Nothing
    BY <1>2, <1>4 DEF Inqueue, n
  <2> QED
    BY <1>3, <2>1, <2>2, <2>3
<1>7. Counted(j, d) =
          IF full THEN min ELSE Least(has, min) + IF dump.phase[j] = "Inqueue" THEN min ELSE 0
  BY DEF Counted, RunningIn
<1>8. /\ more \in Int /\ less \in Int
      /\ has + less - more = min
      /\ has + 0 - more = Least(has, min)
      /\ has + min - more = Least(has, min) + min
  <2> HIDE DEF has, min
  <2> QED
    BY <1>2, <1>3, ReservedAndElastic
<1>9. dump.phase[j] = "Inqueue" => ~full
  OBVIOUS
<1>10. Least(has, min) \in Int
  <2> HIDE DEF has, min
  <2> QED
    BY <1>2, <1>3 DEF Least
<1> HIDE DEF job, group, min, has, more, less, full
<1>11. CASE dump.phase[j] = "Inqueue"
  BY <1>2, <1>3, <1>5, <1>6, <1>7, <1>8, <1>9, <1>10, <1>11 DEF job, group
<1>12. CASE dump.phase[j] # "Inqueue" /\ full
  BY <1>2, <1>3, <1>5, <1>6, <1>7, <1>8, <1>12 DEF job, group
<1>13. CASE dump.phase[j] # "Inqueue" /\ ~full
  BY <1>2, <1>3, <1>5, <1>6, <1>7, <1>8, <1>10, <1>13 DEF job, group
<1> QED
  BY <1>11, <1>12, <1>13

-----------------------------------------------------------------------------
(***************************************************************************)
(* The snapshot of the queue                                               *)
(***************************************************************************)
\* The PodGroups were all listed, and the dump shows each in the phase it had.
Consistent ==
    /\ DOMAIN groups.phase = OfQueue
    /\ \A j \in OfQueue : dump.phase[j] = groups.phase[j]

CountedJobs(d) == [j \in OfQueue |-> Counted(j, d)]

LEMMA SnapshotCounts ==
    ASSUME TypeOK, dump # NoDump, Consistent, NEW order \in Orders, NEW d
    PROVE  /\ ValueOf(Snapshot(order).allocated, d) \in Int
           /\ ValueOf(Snapshot(order).inqueue, d) \in Int
           /\ ValueOf(Snapshot(order).elastic, d) \in Int
           /\ ValueOf(Snapshot(order).allocated, d) + ValueOf(Snapshot(order).inqueue, d)
                  - ValueOf(Snapshot(order).elastic, d) = SumFunction(CountedJobs(d))
           /\ SumFunction(CountedJobs(d)) \in Int
<1> DEFINE A == [j \in OfQueue |-> Allocated(DumpedJobs[j])]
           I == [j \in OfQueue |-> Inqueue(DumpedJobs[j], ListedGroups[j], order)]
           E == [j \in OfQueue |-> Elastic(DumpedJobs[j], ListedGroups[j], order)]
           a == InDimension(A, d)
           i == InDimension(I, d)
           e == InDimension(E, d)
           c == CountedJobs(d)
           h == [j \in OfQueue |-> a[j] + i[j]]
<1>1. IsFiniteSet(OfQueue)
  BY WorkloadAssumption, FS_Subset DEF OfQueue
<1>2. /\ Snapshot(order).allocated = Total(A)
      /\ Snapshot(order).inqueue = Total(I)
      /\ Snapshot(order).elastic = Total(E)
  <2>1. {j \in DOMAIN DumpedJobs : DumpedJobs[j].queue = Own} = OfQueue
    BY DEF DumpedJobs, OfQueue
  <2>2. OfQueue \cap DOMAIN ListedGroups = OfQueue
    BY DEF ListedGroups, Consistent
  <2> QED
    BY <2>1, <2>2 DEF Snapshot, BuildQueueSnapshot
<1>3. DOMAIN A = OfQueue /\ DOMAIN I = OfQueue /\ DOMAIN E = OfQueue
  OBVIOUS
<1>4. \A j \in OfQueue :
         /\ a[j] = ValueOf(A[j], d)
         /\ i[j] = ValueOf(I[j], d)
         /\ e[j] = ValueOf(E[j], d)
  BY DEF InDimension
<1>5. \A j \in OfQueue :
         /\ ValueOf(A[j], d) \in Int
         /\ ValueOf(I[j], d) \in Int
         /\ ValueOf(E[j], d) \in Int
         /\ c[j] \in Int
         /\ ValueOf(A[j], d) + ValueOf(I[j], d) - ValueOf(E[j], d) = c[j]
  BY JobCounts DEF Consistent, CountedJobs
<1> HIDE DEF A, I, E, a, i, e, c
<1>6. /\ ValueOf(Total(A), d) = SumFunctionOnSet(a, OfQueue)
      /\ ValueOf(Total(I), d) = SumFunctionOnSet(i, OfQueue)
      /\ ValueOf(Total(E), d) = SumFunctionOnSet(e, OfQueue)
  BY <1>1, <1>3, <1>5, TotalValue DEF a, i, e
<1>7. SumFunctionOnSet(h, OfQueue) = SumFunctionOnSet(a, OfQueue) + SumFunctionOnSet(i, OfQueue)
  BY <1>1, <1>4, <1>5, SumOfSums
<1>8. SumFunctionOnSet(h, OfQueue) = SumFunctionOnSet(c, OfQueue) + SumFunctionOnSet(e, OfQueue)
  <2>1. \A j \in OfQueue : c[j] \in Int /\ e[j] \in Int /\ h[j] = c[j] + e[j]
    BY <1>4, <1>5
  <2> HIDE DEF h
  <2> QED
    BY <1>1, <2>1, SumOfSums
<1>9. /\ SumFunctionOnSet(a, OfQueue) \in Int
      /\ SumFunctionOnSet(i, OfQueue) \in Int
      /\ SumFunctionOnSet(e, OfQueue) \in Int
      /\ SumFunctionOnSet(c, OfQueue) \in Int
  BY <1>1, <1>4, <1>5, SumIsInt
<1>10. SumFunction(c) = SumFunctionOnSet(c, OfQueue)
  BY DEF SumFunction, c, CountedJobs
<1> QED
  BY <1>2, <1>6, <1>7, <1>8, <1>9, <1>10 DEF c

LEMMA QueueTypes ==
    ASSUME TypeOK, Own \in DOMAIN queues
    PROVE  /\ IsFiniteSet(DOMAIN queues)
           /\ \A q \in DOMAIN queues :
                 IsResourceList(queues[q].guarantee) /\ IsResourceList(queues[q].capability)
<1>1. queues # NoQueues
  BY DEF NoQueues
<1> QED
  BY <1>1, QueueListsAssumption DEF TypeOK

\* A dimension that some node has: what the nodes have, without what the other
\* queues are guaranteed, unless the queue has a lower limit.
LEMMA CapacityIsLimit ==
    ASSUME TypeOK, dump # NoDump, Own \in DOMAIN queues, NEW order \in Orders,
           NEW d \in Dumped
    PROVE  /\ d \in DOMAIN Snapshot(order).capacity
           /\ Snapshot(order).capacity[d] = RealLimit(d)
           /\ RealLimit(d) \in Int
<1> DEFINE nodes == dump.nodes
           G     == [q \in DOMAIN queues |-> ResourceListValues(queues[q].guarantee, order)]
           w     == [q \in DOMAIN queues |-> Wanted(queues[q].guarantee, d)]
           kept  == ResourceListValues(queues[Own].guarantee, order)
           cap   == queues[Own].capability
           limit == ResourceListValues(cap, order)
           target == AddResourceValues(SubResourceValues(Total(nodes), Total(G)), kept)
           total == SumFunction([n \in DOMAIN nodes |-> ValueOf(nodes[n], d)])
           other == SumFunctionOnSet(w, DOMAIN queues \ {Own})
<1>1. Snapshot(order).capacity = MinResourceValues(target, limit)
  BY DEF Snapshot, BuildQueueSnapshot, RealCapability
<1>2. /\ ValueOf(Total(nodes), d) = total
      /\ total \in Int
      /\ d \in DOMAIN Total(nodes)
  <2>1. InDimension(nodes, d) = [n \in DOMAIN nodes |-> ValueOf(nodes[n], d)]
    BY DEF InDimension
  <2>2. SumFunctionOnSet(InDimension(nodes, d), DOMAIN nodes) = total
    BY <2>1 DEF SumFunction
  <2>3. \A n \in DOMAIN nodes : ValueOf(nodes[n], d) \in Int
    BY DumpTypes, AmountValue
  <2>4. \E n \in DOMAIN nodes : d \in DOMAIN nodes[n]
    BY DEF Dumped
  <2> HIDE DEF total
  <2> QED
    BY <2>2, <2>3, <2>4, DumpTypes, TotalValue
<1>3. \A q \in DOMAIN queues : w[q] \in Int /\ ValueOf(G[q], d) = w[q]
  BY QueueTypes, ListIsWanted
<1>4. /\ ValueOf(Total(G), d) = w[Own] + other
      /\ other \in Int
  <2>1. DOMAIN G = DOMAIN queues
    OBVIOUS
  <2>2. \A q \in DOMAIN queues : InDimension(G, d)[q] = w[q]
    BY <1>3, <2>1 DEF InDimension
  <2> HIDE DEF G, w
  <2>3. ValueOf(Total(G), d) = SumFunctionOnSet(InDimension(G, d), DOMAIN queues)
    BY <1>3, <2>1, QueueTypes, TotalValue
  <2>4. SumFunctionOnSet(InDimension(G, d), DOMAIN queues) = SumFunctionOnSet(w, DOMAIN queues)
    BY <1>3, <2>2, QueueTypes, SumsEqual
  <2>5. SumFunctionOnSet(w, DOMAIN queues) = w[Own] + other
    BY <1>3, QueueTypes, SumTakesAny
  <2>6. IsFiniteSet(DOMAIN queues \ {Own})
    BY QueueTypes, FS_Subset
  <2>7. other \in Int
    BY <1>3, <2>6, SumIsInt
  <2> QED
    BY <2>3, <2>4, <2>5, <2>7
<1>5. ValueOf(kept, d) = w[Own] /\ w[Own] \in Int
  BY <1>3
<1>6. d \in DOMAIN target /\ target[d] = total - other
  <2> HIDE DEF G, w, kept, total, other
  <2> DEFINE rest == SubResourceValues(Total(nodes), Total(G))
  <2>1. d \in DOMAIN rest /\ ValueOf(rest, d) = ValueOf(Total(nodes), d) - ValueOf(Total(G), d)
    BY <1>2, DifferenceValue
  <2> HIDE DEF rest
  <2>2. /\ d \in DOMAIN AddResourceValues(rest, kept)
        /\ AddResourceValues(rest, kept)[d] = ValueOf(rest, d) + ValueOf(kept, d)
    BY <2>1, SumValue
  <2> QED
    BY <1>2, <1>4, <1>5, <2>1, <2>2 DEF rest
<1>7. /\ d \in DOMAIN limit <=> \E alias \in {"plain", "requests"} : <<alias, d>> \in DOMAIN cap
      /\ d \in DOMAIN limit => limit[d] = Wanted(cap, d)
      /\ Wanted(cap, d) \in Int
  <2>1. IsResourceList(cap)
    BY QueueTypes
  <2> HIDE DEF cap
  <2>2. d \in DOMAIN limit => ValueOf(limit, d) = limit[d]
    BY DEF ValueOf
  <2> QED
    BY <2>1, <2>2, ListIsWanted
<1>8. RealLimit(d) = IF d \in DOMAIN limit THEN Least(total - other, Wanted(cap, d))
                     ELSE total - other
  BY <1>7 DEF RealLimit
<1> HIDE DEF target, limit, total, other, cap
<1>9. /\ d \in DOMAIN MinResourceValues(target, limit)
      /\ MinResourceValues(target, limit)[d] =
            IF d \in DOMAIN limit /\ limit[d] < target[d] THEN limit[d] ELSE target[d]
  BY <1>6, LimitValue
<1> QED
  BY <1>1, <1>2, <1>4, <1>6, <1>7, <1>8, <1>9 DEF Least

\* The comparison, when every dimension that is asked for is in the dump.
LEMMA VerdictIsFormula ==
    ASSUME TypeOK, dump # NoDump, Own \in DOMAIN queues, Consistent,
           NEW order \in Orders, Asked \subseteq Dumped
    PROVE  LET candidate == ResourceListValues(spec[Target].min, order)
           IN QueueCapacityCheck(Snapshot(order), candidate) =
                  IF NeedFits THEN "pass" ELSE "fail"
<1> DEFINE list == spec[Target].min
           candidate == ResourceListValues(list, order)
           snapshot == Snapshot(order)
           asked == {d \in DOMAIN candidate : candidate[d] > 0}
<1>1. IsResourceList(list)
  BY SpecsAssumption, TargetAssumption DEF TypeOK
<1>2. /\ asked = Asked
      /\ \A d \in Asked : candidate[d] = Wanted(list, d) /\ Wanted(list, d) \in Int
  <2>1. ASSUME NEW d \in DOMAIN candidate
        PROVE  d \in Dims /\ candidate[d] = Wanted(list, d) /\ Wanted(list, d) \in Int
    <3>1. ValueOf(candidate, d) = candidate[d]
      BY DEF ValueOf
    <3> QED
      BY <1>1, <3>1, ListIsWanted
  <2>2. ASSUME NEW d \in Dims, Wanted(list, d) > 0
        PROVE  d \in DOMAIN candidate
    <3>1. ValueOf(candidate, d) = Wanted(list, d) /\ Wanted(list, d) \in Int
      BY <1>1, ListIsWanted
    <3> HIDE DEF candidate
    <3> QED
      BY <2>2, <3>1 DEF ValueOf
  <2> HIDE DEF candidate
  <2> QED
    BY <2>1, <2>2 DEF Asked
<1>3. ASSUME NEW d \in Asked
      PROVE  /\ d \in DOMAIN snapshot.capacity
             /\ candidate[d] > Available(snapshot, d) <=>
                   ~(Wanted(list, d) + SumFunction(CountedJobs(d)) <= RealLimit(d))
  <2> DEFINE a == ValueOf(snapshot.allocated, d)
             i == ValueOf(snapshot.inqueue, d)
             e == ValueOf(snapshot.elastic, d)
             c == SumFunction(CountedJobs(d))
             r == RealLimit(d)
             x == Wanted(list, d)
  <2>1. /\ a \in Int /\ i \in Int /\ e \in Int /\ c \in Int
        /\ a + i - e = c
    BY SnapshotCounts
  <2>2. d \in DOMAIN snapshot.capacity /\ snapshot.capacity[d] = r /\ r \in Int
    BY CapacityIsLimit
  <2>3. Available(snapshot, d) = r - a - i + e
    BY <2>2 DEF Available
  <2>4. candidate[d] = x /\ x \in Int
    BY <1>2
  <2> HIDE DEF a, i, e, c, r, x, candidate, snapshot
  <2>5. x > r - a - i + e <=> ~(x + c <= r)
    BY <2>1, <2>2, <2>4
  <2> QED
    BY <2>2, <2>3, <2>4, <2>5 DEF x, c, r
<1>4. NeedFits <=> \A d \in Asked :
                      Wanted(list, d) + SumFunction(CountedJobs(d)) <= RealLimit(d)
  BY DEF NeedFits, CountedJobs
<1>5. asked \ DOMAIN snapshot.capacity = {}
  BY <1>2, <1>3
<1>6. (\E d \in asked : candidate[d] > Available(snapshot, d)) <=> ~NeedFits
  BY <1>2, <1>3, <1>4
<1> QED
  BY <1>5, <1>6 DEF QueueCapacityCheck

\* Nothing in the snapshot depends on the order: neither what a job reserves
\* nor the capability of the queue.
LEMMA SnapshotIsDeterminate ==
    ASSUME TypeOK, dump # NoDump, Own \in DOMAIN queues,
           NEW first \in Orders, NEW second \in Orders
    PROVE  Snapshot(first) = Snapshot(second)
<1> DEFINE grouped == {j \in Jobs : spec[j].queue = Own} \cap DOMAIN groups.phase
<1>1. \A list : IsResourceList(list) =>
          ResourceListValues(list, first) = ResourceListValues(list, second)
  BY OrderDoesNotMatter DEF IsResourceList
<1>2. \A q \in DOMAIN queues :
          /\ ResourceListValues(queues[q].guarantee, first) =
                 ResourceListValues(queues[q].guarantee, second)
          /\ ResourceListValues(queues[q].capability, first) =
                 ResourceListValues(queues[q].capability, second)
  BY <1>1, QueueTypes
<1>3. RealCapability(dump.nodes, queues, Own, first) =
          RealCapability(dump.nodes, queues, Own, second)
  BY <1>2 DEF RealCapability
<1>4. ASSUME NEW j \in grouped
      PROVE  /\ Inqueue(DumpedJobs[j], ListedGroups[j], first) =
                    Inqueue(DumpedJobs[j], ListedGroups[j], second)
             /\ Elastic(DumpedJobs[j], ListedGroups[j], first) =
                    Elastic(DumpedJobs[j], ListedGroups[j], second)
  <2>1. ListedGroups[j].min = spec[j].min
    BY DEF ListedGroups
  <2>2. ResourceListValues(spec[j].min, first) = ResourceListValues(spec[j].min, second)
    BY <1>1, SpecsAssumption DEF TypeOK
  <2> QED
    BY <2>1, <2>2 DEF Inqueue, Elastic
<1>5. /\ DOMAIN ListedGroups = DOMAIN groups.phase
      /\ DOMAIN DumpedJobs = Jobs
      /\ \A j \in Jobs : DumpedJobs[j].queue = spec[j].queue
  BY DEF ListedGroups, DumpedJobs
<1>6. {j \in DOMAIN DumpedJobs : DumpedJobs[j].queue = Own} \cap DOMAIN ListedGroups = grouped
  BY <1>5
<1>7. /\ [j \in grouped |-> Inqueue(DumpedJobs[j], ListedGroups[j], first)] =
             [j \in grouped |-> Inqueue(DumpedJobs[j], ListedGroups[j], second)]
      /\ [j \in grouped |-> Elastic(DumpedJobs[j], ListedGroups[j], first)] =
             [j \in grouped |-> Elastic(DumpedJobs[j], ListedGroups[j], second)]
  BY <1>4
<1> HIDE DEF grouped
<1> QED
  BY <1>3, <1>6, <1>7 DEF Snapshot, BuildQueueSnapshot

\* The verdict on the quota is one of the evidence: the order in which Go walks the
\* maps of the resource lists decides none, however old or partial the evidence is.
THEOREM VerdictIsDeterminate ==
    ASSUME TypeOK, NEW first \in Orders, NEW second \in Orders
    PROVE  QuotaVerdict(first) = QuotaVerdict(second)
<1>1. ResourceListValues(spec[Target].min, first) = ResourceListValues(spec[Target].min, second)
  BY SpecsAssumption, TargetAssumption, OrderDoesNotMatter DEF TypeOK, IsResourceList
<1>2. CASE dump = NoDump \/ Own \notin DOMAIN queues
  BY <1>2 DEF QuotaVerdict
<1>3. CASE dump # NoDump /\ Own \in DOMAIN queues
  <2>1. Snapshot(first) = Snapshot(second)
    BY <1>3, SnapshotIsDeterminate
  <2> QED
    BY <1>1, <2>1 DEF QuotaVerdict, Snapshot
<1> QED
  BY <1>2, <1>3

-----------------------------------------------------------------------------
(***************************************************************************)
(* The verdict                                                             *)
(***************************************************************************)
\* The verdict is of the evidence that is there; a dump ends the collection; and
\* while nothing is admitted, the PodGroups stay in the phases in which they were
\* listed, so that the dump shows them in these.
QuotaInv ==
    /\ quota # "open" => pc = "done" /\ \E order \in Orders : quota = QuotaVerdict(order)
    /\ groups.complete => DOMAIN groups.phase = OfQueue
    /\ pc \notin {"check", "done"} => dump = NoDump
    /\ quiet /\ pc \in {"queues", "capture"} =>
          \A j \in DOMAIN groups.phase : groups.phase[j] = phase[j]
    /\ quiet /\ dump # NoDump =>
          \A j \in DOMAIN groups.phase : groups.phase[j] = dump.phase[j]

LEMMA QuotaInit == Init => QuotaInv
BY DEF Init, QuotaInv

\* A change of the workload between the list and the dump is remembered.
LEMMA ClusterKeepsQuota ==
    ASSUME TypeOK, QuotaInv, Cluster
    PROVE  QuotaInv'
<1>1. /\ UNCHANGED <<spec, pc, evidenceVars>>
      /\ pc \notin {"check", "done"}
  BY ClusterChanges DEF Changes
<1>2. quota = "open" /\ dump = NoDump
  BY <1>1 DEF QuotaInv
<1>3. OfQueue' = OfQueue
  BY <1>1 DEF OfQueue, Own
<1>4. UNCHANGED <<phase, quiet>> \/ (quiet' => pc \notin {"queues", "capture"})
  <2>1. ASSUME NEW l \in Leases, LeaseChanges(l)
        PROVE  UNCHANGED <<phase, quiet>>
    BY <2>1 DEF LeaseChanges, workloadVars
  <2>2. ASSUME NEW p \in Replicas, PodFailsOrRecovers(p) \/ PodIsDeleted(p) \/ PodIsRecreated(p)
        PROVE  UNCHANGED <<phase, quiet>>
    BY <2>2 DEF PodFailsOrRecovers, PodIsDeleted, PodIsRecreated, PodChanges, workloadVars,
                historyVars
  <2>3. ASSUME NEW j \in Jobs,
               GroupIsAdmitted(j) \/ \E t \in Tasks : TaskStarts(j, t) \/ TaskEnds(j, t)
        PROVE  quiet' => pc \notin {"queues", "capture"}
    <3>1. WorkloadChanges
      BY <2>3 DEF GroupIsAdmitted, TaskStarts, TaskEnds
    <3> QED
      BY <3>1 DEF WorkloadChanges
  <2> QED
    BY <2>1, <2>2, <2>3 DEF Cluster
<1> QED
  BY <1>1, <1>2, <1>3, <1>4 DEF QuotaInv, evidenceVars

LEMMA CollectKeepsQuota ==
    ASSUME TypeOK, QuotaInv, Collect
    PROVE  QuotaInv'
<1> USE DEF Goes, clusterVars
<1>1. UNCHANGED <<spec, phase>> /\ OfQueue' = OfQueue
  <2>1. UNCHANGED <<spec, phase>>
    BY DEF Collect, ReadConfiguration, ListPodGroups, ListQueues, CaptureCacheDump, CaptureFails,
           CheckEvidence
  <2> QED
    BY <2>1 DEF OfQueue, Own
<1>2. CASE ReadConfiguration
  BY <1>1, <1>2 DEF ReadConfiguration, QuotaInv, historyVars
<1>3. CASE ListPodGroups
  <2>1. PICK some \in SUBSET OfQueue :
           groups' = [complete |-> ~expired /\ some = OfQueue, phase |-> [j \in some |-> phase[j]]]
    BY <1>3 DEF ListPodGroups
  <2>2. /\ groups'.complete => DOMAIN groups'.phase = OfQueue
        /\ \A j \in DOMAIN groups'.phase : groups'.phase[j] = phase[j]
    BY <2>1
  <2> QED
    BY <1>1, <1>3, <2>2 DEF ListPodGroups, QuotaInv
<1>4. CASE ListQueues
  BY <1>1, <1>4 DEF ListQueues, QuotaInv, historyVars
<1>5. CASE CaptureCacheDump
  <2>1. dump'.phase = phase
    BY <1>5 DEF CaptureCacheDump
  <2> QED
    BY <1>1, <1>5, <2>1 DEF CaptureCacheDump, QuotaInv, historyVars
<1>6. CASE CaptureFails
  BY <1>1, <1>6 DEF CaptureFails, QuotaInv, evidenceVars, historyVars
<1>7. CASE CheckEvidence
  <2>1. UNCHANGED <<spec, policy, groups, queues, dump, quiet>> /\ pc' = "done"
    BY <1>7 DEF CheckEvidence, historyVars
  <2>2. \A order \in Orders : QuotaVerdict(order)' = QuotaVerdict(order)
    BY <2>1 DEF QuotaVerdict, Snapshot, DumpedJobs, ListedGroups, Own
  <2>3. \E order \in Orders : quota' = QuotaVerdict(order)'
    BY <1>7, <2>2 DEF CheckEvidence
  <2> QED
    BY <1>1, <2>1, <2>3 DEF QuotaInv
<1> QED
  BY <1>2, <1>3, <1>4, <1>5, <1>6, <1>7 DEF Collect

LEMMA QuotaStep == TypeOK /\ QuotaInv /\ [Next]_vars => QuotaInv'
<1> SUFFICES ASSUME TypeOK, QuotaInv, [Next]_vars
             PROVE  QuotaInv'
  OBVIOUS
<1>1. CASE UNCHANGED <<spec, phase, pc, evidenceVars, quiet>>
  <2>1. OfQueue' = OfQueue
    BY <1>1 DEF OfQueue, Own
  <2>2. \A order \in Orders : QuotaVerdict(order)' = QuotaVerdict(order)
    BY <1>1 DEF QuotaVerdict, Snapshot, DumpedJobs, ListedGroups, Own, evidenceVars
  <2> QED
    BY <1>1, <2>1, <2>2 DEF QuotaInv, evidenceVars
<1>2. CASE GetVolcanoScheduler
  <2>1. /\ UNCHANGED <<spec, phase, evidenceVars, quiet>>
        /\ pc \in {"list", "leases"}
        /\ pc' \notin {"queues", "capture"}
    BY <1>2 DEF GetVolcanoScheduler, ListSchedulers, ReadLease, ChooseLeader, LookupFails, Goes,
                clusterVars, historyVars
  <2>2. OfQueue' = OfQueue
    BY <2>1 DEF OfQueue, Own
  <2> QED
    BY <2>1, <2>2 DEF QuotaInv, evidenceVars
<1>3. CASE ContextExpires \/ UNCHANGED vars
  BY <1>1, <1>3 DEF ContextExpires, vars, clusterVars, historyVars
<1> QED
  BY <1>2, <1>3, ClusterKeepsQuota, CollectKeepsQuota DEF Next

\* A verdict on the capacity is that of SKILL.md's formula, if the evidence is of
\* one moment: for any jobs, queues and nodes, and any order of the Go maps.
THEOREM QuotaIsFormulaHolds == Spec => []QuotaIsFormula
<1>1. TypeOK /\ QuotaInv => QuotaIsFormula
  <2> SUFFICES ASSUME TypeOK, QuotaInv, quota \in {"pass", "fail"}
               PROVE  /\ dump # NoDump
                      /\ OneMoment /\ Asked \subseteq Dumped => (quota = "pass" <=> NeedFits)
    BY DEF QuotaIsFormula
  <2>1. PICK order \in Orders : quota = QuotaVerdict(order)
    BY DEF QuotaInv
  <2>2. /\ dump # NoDump
        /\ Own \in DOMAIN queues
        /\ quota = QueueCapacityCheck(Snapshot(order), ResourceListValues(spec[Target].min, order))
    BY <2>1 DEF QuotaVerdict, Snapshot
  <2>3. ASSUME OneMoment, Asked \subseteq Dumped
        PROVE  quota = "pass" <=> NeedFits
    <3>1. Consistent
      BY <2>2, <2>3 DEF OneMoment, QuotaInv, Consistent
    <3>2. quota = IF NeedFits THEN "pass" ELSE "fail"
      BY <2>2, <2>3, <3>1, VerdictIsFormula
    <3> QED
      BY <3>2
  <2> QED
    BY <2>2, <2>3
<1>2. Inv => TypeOK
  BY DEF Inv
<1> QED
  BY <1>1, <1>2, InvHolds, QuotaInit, QuotaStep, PTL DEF Spec

-----------------------------------------------------------------------------
(***************************************************************************)
(* The evidence as the rules of AnalysisPipeline take it                   *)
(***************************************************************************)
\* A policy is of the scheduler that was looked up or of none, and Queues are
\* listed only with one; both come after the lookup.
PipelineInv ==
    /\ policy.of \in {scheduler, NoScheduler}
    /\ policy.of = NoScheduler => policy.plugin = "unknown"
    /\ pc \in {"list", "leases", "policy"} => policy.of = NoScheduler
    /\ pc \in {"list", "leases", "policy", "groups", "queues"} => queues = NoQueues
    /\ queues # NoQueues => scheduler # NoScheduler
    /\ pc = "done" =>
          /\ identity = IdentityVerdict
          /\ \E order \in Orders : quota = QuotaVerdict(order)

LEMMA PipelineInit == Init => PipelineInv
BY DEF Init, PipelineInv

LEMMA VerdictsKept ==
    ASSUME UNCHANGED <<spec, policy, groups, queues, dump>>
    PROVE  /\ IdentityVerdict' = IdentityVerdict
           /\ \A order \in Orders : QuotaVerdict(order)' = QuotaVerdict(order)
BY DEF IdentityVerdict, QuotaVerdict, Snapshot, DumpedJobs, ListedGroups, Own

LEMMA PipelineStep == TypeOK /\ PipelineInv /\ [Next]_vars => PipelineInv'
<1> SUFFICES ASSUME TypeOK, PipelineInv, [Next]_vars
             PROVE  PipelineInv'
  OBVIOUS
<1>1. CASE UNCHANGED <<spec, pc, scheduler, evidenceVars>>
  BY <1>1, VerdictsKept DEF PipelineInv, evidenceVars
<1>2. CASE GetVolcanoScheduler
  <2>1. /\ UNCHANGED evidenceVars
        /\ pc \in {"list", "leases"}
        /\ pc' \in {"list", "leases", "policy"}
    BY <1>2 DEF GetVolcanoScheduler, ListSchedulers, ReadLease, ChooseLeader, LookupFails, Goes
  <2> QED
    BY <2>1 DEF PipelineInv, evidenceVars
<1>3. CASE ReadConfiguration
  <2>1. policy' = IF scheduler = NoScheduler \/ expired
                  THEN [of |-> NoScheduler, plugin |-> "unknown"]
                  ELSE [of |-> scheduler, plugin |-> policy'.plugin]
    BY <1>3 DEF ReadConfiguration
  <2>2. /\ UNCHANGED <<scheduler, queues>>
        /\ pc = "policy" /\ pc' = "groups"
    BY <1>3 DEF ReadConfiguration, Goes, lookupVars
  <2> QED
    BY <2>1, <2>2 DEF PipelineInv
<1>4. CASE ListPodGroups
  <2>1. /\ UNCHANGED <<scheduler, policy, queues>>
        /\ pc = "groups" /\ pc' = "queues"
    BY <1>4 DEF ListPodGroups, Goes, lookupVars
  <2> QED
    BY <2>1 DEF PipelineInv
<1>5. CASE ListQueues
  <2>1. /\ UNCHANGED <<scheduler, policy>>
        /\ pc' = "capture"
        /\ queues' # NoQueues => scheduler # NoScheduler
    BY <1>5 DEF ListQueues, Goes, lookupVars
  <2> QED
    BY <2>1 DEF PipelineInv
<1>6. CASE CaptureCacheDump \/ CaptureFails
  <2>1. /\ UNCHANGED <<scheduler, policy, queues>>
        /\ pc' = "check"
    BY <1>6 DEF CaptureCacheDump, CaptureFails, Goes, lookupVars, evidenceVars
  <2> QED
    BY <2>1 DEF PipelineInv
<1>7. CASE CheckEvidence
  <2>1. /\ UNCHANGED <<spec, scheduler, policy, groups, queues, dump>>
        /\ pc' = "done"
        /\ identity' = IdentityVerdict
        /\ \E order \in Orders : quota' = QuotaVerdict(order)
    BY <1>7 DEF CheckEvidence, Goes, lookupVars, clusterVars
  <2> QED
    BY <2>1, VerdictsKept DEF PipelineInv
<1>8. CASE ContextExpires \/ Cluster \/ UNCHANGED vars
  <2>1. Cluster => Changes
    BY DEF Cluster, LeaseChanges, PodFailsOrRecovers, PodIsDeleted, PodIsRecreated, PodChanges,
           GroupIsAdmitted, TaskStarts, TaskEnds, WorkloadChanges
  <2>2. UNCHANGED <<spec, pc, scheduler, evidenceVars>>
    BY <1>8, <2>1 DEF ContextExpires, Changes, vars, clusterVars, lookupVars
  <2> QED
    BY <1>1, <2>2
<1> QED
  BY <1>2, <1>3, <1>4, <1>5, <1>6, <1>7, <1>8 DEF Next, Collect

LEMMA EvidenceIsAsPipeline == TypeOK /\ PipelineInv => EvidenceAsPipeline
<1> SUFFICES ASSUME TypeOK, PipelineInv
             PROVE  EvidenceAsPipeline
  OBVIOUS
<1>1. PipelinePolicy \in Pipeline!PoliciesOf(scheduler)
  <2>1. policy \in Policies
    BY DEF TypeOK
  <2>2. PipelinePolicy \in Pipeline!Policies
    BY <2>1 DEF PipelinePolicy, Policies, Pipeline!Policies
  <2> QED
    BY <2>2 DEF PipelinePolicy, PipelineInv, Pipeline!PoliciesOf
<1>2. ASSUME pc = "done"
      PROVE  quota \in Pipeline!QuotaVerdicts(/\ scheduler # NoScheduler
                                              /\ Own \in DOMAIN queues
                                              /\ dump # NoDump)
  <2>1. PICK order \in Orders : quota = QuotaVerdict(order)
    BY <1>2 DEF PipelineInv
  <2>2. Own \in DOMAIN queues => scheduler # NoScheduler
    BY DEF PipelineInv, NoQueues
  <2>3. policy.plugin \in {"quota", "none", "unknown"}
    BY DEF TypeOK, Policies, Plugins
  <2>4. \A snapshot, candidate : QueueCapacityCheck(snapshot, candidate) \in Pipeline!Verdicts
    BY DEF QueueCapacityCheck, Pipeline!Verdicts
  <2> QED
    BY <2>1, <2>2, <2>3, <2>4 DEF QuotaVerdict, PipelinePolicy, Pipeline!QuotaVerdicts
<1>3. pc = "done" => identity = Pipeline!IdentityVerdict(PipelinePolicy, [scheduler |-> dump.of])
  BY DEF PipelineInv, IdentityVerdict, PipelinePolicy, Pipeline!IdentityVerdict
<1> QED
  BY <1>1, <1>2, <1>3 DEF EvidenceAsPipeline

\* What AnalysisPipeline leaves open about the policy, the quota and the identity of
\* the scheduler covers everything that the reads of the cluster, one after another
\* and amid its changes, may yield.
THEOREM EvidenceAsPipelineHolds == Spec => []EvidenceAsPipeline
<1>1. Inv => TypeOK
  BY DEF Inv
<1> QED
  BY <1>1, InvHolds, PipelineInit, PipelineStep, EvidenceIsAsPipeline, PTL DEF Spec
=============================================================================
