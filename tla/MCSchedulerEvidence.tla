-------------------------- MODULE MCSchedulerEvidence --------------------------
(***************************************************************************)
(* The evidence of an analysis with two schedulers and three jobs.         *)
(***************************************************************************)
EXTENDS SchedulerEvidence, TLC

CONSTANTS p1, p2, l1, l2

MCReplicas == {p1, p2}
MCLeases == {l1, l2}

\* One Lease for both, a Lease each, no election, flags that disagree.
MCFlags == {p1 :> l1 @@ p2 :> l1, p1 :> l1 @@ p2 :> l2, p1 :> "off" @@ p2 :> "off",
            p1 :> l1 @@ p2 :> "off"}

\* One configuration; one each, that change with the Pod.
MCConfigurations ==
    {[s \in MCReplicas \X {1, 2} |-> "quota"],
     <<p1, 1>> :> "quota" @@ <<p1, 2>> :> "none" @@ <<p2, 1>> :> "none" @@ <<p2, 2>> :> "unknown"}

MCJobs == {"target", "other", "foreign"}

List(alias, amount) == <<alias, "cpu">> :> amount
Empty == [name \in {} |-> 0]

Job(queue, min, minMember) ==
    [queue |-> queue, min |-> min, minMember |-> minMember, resreq |-> "cpu" :> 1]

\* The other job has a minimum of one task or of two.  The target asks for cpu,
\* by two names, or also for a dimension that nobody knows.
MCSpecs ==
    {[j \in MCJobs |->
        IF j = "target" THEN Job("own", case[1], 1)
        ELSE IF j = "other" THEN Job("own", List("plain", case[2]), case[2])
        ELSE Job("else", List("plain", 1), 1)] :
     case \in {<<List("plain", 1) @@ List("requests", 2), 1>>,
               <<List("plain", 1) @@ List("requests", 2), 2>>,
               <<List("plain", 1) @@ <<"plain", "gpu">> :> 1, 1>>}}

MCStarts ==
    {[phase |-> [j \in MCJobs |-> IF j = "other" THEN start[1] ELSE
                                  IF j = "target" THEN "Pending" ELSE "Running"],
      tasks |-> [j \in MCJobs |-> [t \in {1, 2} |->
                    IF j = "foreign" \/ (j = "other" /\ t <= start[2]) THEN "Running" ELSE "Pending"]]] :
     start \in {<<"Inqueue", 0>>, <<"Running", 2>>}}

Queue(capability, guarantee) == [capability |-> capability, guarantee |-> guarantee]

MCQueueLists ==
    {"own" :> Queue(Empty, List("plain", 1)) @@ "else" :> Queue(Empty, List("requests", 1)),
     "own" :> Queue(List("plain", 2) @@ List("requests", 4), Empty) @@ "else" :> Queue(Empty, Empty),
     "else" :> Queue(Empty, Empty)}

MCNodeLists == {1 :> ("cpu" :> 3), 1 :> ("cpu" :> 3) @@ 2 :> ("cpu" :> 2)}
=============================================================================
