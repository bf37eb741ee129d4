----------------------------- MODULE QueueSnapshot -----------------------------
(***************************************************************************)
(* The quota of a queue, as Volens reconstructs it: BuildQueueSnapshot     *)
(* adds up one cache dump, the PodGroups and the Queues; queueCapacityCheck *)
(* compares what is available with what the target PodGroup asks for.      *)
(*                                                                         *)
(* An amount is a function from some dimensions, those a Go map has, to    *)
(* numbers.  A resource list is an amount whose keys are names: a dimension *)
(* may be named plainly (cpu) or as a request (requests.cpu), or both.     *)
(* Quantities are whole units.  Deserved and Request, which are only shown, *)
(* are left out.                                                           *)
(***************************************************************************)
EXTENDS Integers, Sequences, FiniteSets, FiniteSetsExt

Nothing == [d \in {} |-> 0]

\* A key that a Go map lacks reads as zero.
ValueOf(amount, d) == IF d \in DOMAIN amount THEN amount[d] ELSE 0

AddResourceValues(target, source) ==
    [d \in DOMAIN target \cup DOMAIN source |-> ValueOf(target, d) + ValueOf(source, d)]

\* Dimensions the target lacks are subtracted all the same.
SubResourceValues(target, source) ==
    [d \in DOMAIN target \cup DOMAIN source |-> ValueOf(target, d) - ValueOf(source, d)]

\* A limit on a dimension the target lacks becomes its value.
MinResourceValues(target, limit) ==
    [d \in DOMAIN target \cup DOMAIN limit |->
        IF d \in DOMAIN limit /\ (d \in DOMAIN target => limit[d] < target[d])
        THEN limit[d] ELSE target[d]]

PositiveResourceDiff(left, right) ==
    [d \in {e \in DOMAIN left \cup DOMAIN right : ValueOf(left, e) > ValueOf(right, e)} |->
        ValueOf(left, d) - ValueOf(right, d)]

\* The sum of the amounts, each under a key of its own.
InDimension(amounts, d) == [x \in DOMAIN amounts |-> ValueOf(amounts[x], d)]

Total(amounts) ==
    [d \in UNION {DOMAIN amounts[x] : x \in DOMAIN amounts} |->
        SumFunction(InDimension(amounts, d))]

-----------------------------------------------------------------------------
(***************************************************************************)
(* Resource lists                                                          *)
(***************************************************************************)
\* The later name wins (a fault the runs must see).
LaterOverwrites(alias, before) == TRUE

\* A request is not overwritten by the plain name of its dimension.
Overwrites(alias, before) == alias = "requests" \/ "requests" \notin before

\* The names are merged in the order in which the Go map, or the line of the
\* dump, has them; order gives that of the two names a dimension may have.
ResourceListValues(list, order) ==
    [d \in {name[2] : name \in DOMAIN list} |->
        LET found   == {i \in DOMAIN order : <<order[i], d>> \in DOMAIN list}
            Before(i) == {order[j] : j \in {k \in found : k < i}}
            written == {i \in found : Overwrites(order[i], Before(i))}
        IN list[<<order[Max(written)], d>>]]

Orders == {<<"plain", "requests">>, <<"requests", "plain">>}

-----------------------------------------------------------------------------
(***************************************************************************)
(* Jobs: tasks, each with a status, that all request the same amount.      *)
(***************************************************************************)
allocatedTaskStatuses == {"Bound", "Binding", "Running", "Allocated"}

AllocatedTasks(job) == {t \in DOMAIN job.tasks : job.tasks[t] \in allocatedTaskStatuses}

\* jobTaskResources
Allocated(job) ==
    Total([t \in AllocatedTasks(job) |-> job.resreq])

\* What admitted PodGroups reserve beyond what their tasks have.  A running one
\* counts as soon as it has its members (a fault the runs must see: whole).
InqueueCountedWhole(job, group, order) ==
    IF \/ group.phase = "Inqueue"
       \/ group.phase = "Running" /\ Cardinality(AllocatedTasks(job)) >= group.minMember
    THEN ResourceListValues(group.min, order) ELSE Nothing

Inqueue(job, group, order) ==
    LET min == ResourceListValues(group.min, order)
    IN IF group.phase = "Inqueue" THEN min
       ELSE IF group.phase = "Running" /\ Cardinality(AllocatedTasks(job)) >= group.minMember
       THEN PositiveResourceDiff(min, Allocated(job))
       ELSE Nothing

Elastic(job, group, order) ==
    PositiveResourceDiff(Allocated(job), ResourceListValues(group.min, order))

-----------------------------------------------------------------------------
(***************************************************************************)
(* The queue                                                               *)
(***************************************************************************)
RealCapability(nodes, queues, own, order) ==
    LET total     == Total(nodes)
        guarantee == Total([q \in DOMAIN queues |->
                               ResourceListValues(queues[q].guarantee, order)])
        kept      == ResourceListValues(queues[own].guarantee, order)
    IN MinResourceValues(AddResourceValues(SubResourceValues(total, guarantee), kept),
                         ResourceListValues(queues[own].capability, order))

\* A job whose PodGroup was not listed counts with its tasks alone.
BuildQueueSnapshot(dump, queues, groups, own, order) ==
    LET jobs    == {j \in DOMAIN dump.jobs : dump.jobs[j].queue = own}
        grouped == jobs \cap DOMAIN groups
    IN [capacity  |-> RealCapability(dump.nodes, queues, own, order),
        allocated |-> Total([j \in jobs |-> Allocated(dump.jobs[j])]),
        inqueue   |-> Total([j \in grouped |-> Inqueue(dump.jobs[j], groups[j], order)]),
        elastic   |-> Total([j \in grouped |-> Elastic(dump.jobs[j], groups[j], order)])]

\* queueResourceValues: a dimension without a capacity has no available amount.
Available(snapshot, d) ==
    snapshot.capacity[d] - ValueOf(snapshot.allocated, d) - ValueOf(snapshot.inqueue, d)
        + ValueOf(snapshot.elastic, d)

\* A dimension that is missing leaves the verdict open, whatever the others say.
QueueCapacityCheck(snapshot, candidate) ==
    LET asked == {d \in DOMAIN candidate : candidate[d] > 0}
    IN IF asked \ DOMAIN snapshot.capacity # {} THEN "unknown"
       ELSE IF \E d \in asked : candidate[d] > Available(snapshot, d) THEN "fail"
       ELSE "pass"
=============================================================================
