---------------------------- MODULE CacheCapture ----------------------------
(***************************************************************************)
(* Client.CaptureCacheDump: under a lock, find the leading scheduler, open *)
(* its log, scan it in a goroutine, look at the leader again, signal it,   *)
(* and wait for the dump or for the end of the context.                    *)
(*                                                                         *)
(* A log line is the start of a dump, a node of it, the start of its jobs  *)
(* or its end; other lines, and the jobs, change nothing that is told      *)
(* apart here.  Schedulers, who else signals them, and the Kubernetes API  *)
(* are the environment: they may do nothing, fail, or break off.           *)
(***************************************************************************)
EXTENDS Naturals, Sequences

CONSTANTS
    Captures,   \* calls of CaptureCacheDump
    Pods,       \* scheduler Pods
    Nodes,      \* nodes that may be in the cache of a scheduler
    MaxDumps,   \* bound on the dumps that are written
    MaxLeaders, \* bound on the changes of the leader
    None        \* no capture, no leader, no dump

ASSUME NoneAssumption == None \notin Captures \cup Pods
ASSUME BoundsAssumption == MaxDumps \in Nat /\ MaxLeaders \in Nat

VARIABLES
    lock,     \* Client.cacheMu: the capture that holds it
    pc,       \* the step of CaptureCacheDump each capture is at
    expired,  \* its context is done
    pod,      \* the scheduler it found
    stream,   \* its log stream: "none", "open", "broken" or "closed"
    unread,   \* the lines of the stream the scanner has not read
    scanner,  \* its scanner goroutine
    channel,  \* resultChannel, which holds one result
    out,      \* what it returned
    leader,   \* the Pod that GetVolcanoScheduler finds
    leaders,  \* changes of the leader so far
    writer,   \* the dump each Pod is writing
    pending,  \* Pods with a signal they have not handled
    dumps,    \* number of dumps begun
    nodesOf,  \* nodes in the cache at each dump
    complete, \* dumps written to their end
    since,    \* dumps begun before a capture had the lock
    led       \* Pods that led after its scanner had begun to read, until its signal

captureVars == <<lock, pc, pod, out, since>>
scanVars    == <<scanner, channel>>
logVars     == <<writer, pending, dumps, nodesOf, complete>>
leaderVars  == <<leader, leaders>>
vars == <<lock, pc, expired, pod, stream, unread, scanner, channel, out,
          leader, leaders, writer, pending, dumps, nodesOf, complete, since, led>>

Dumps == 1 .. MaxDumps

\* A node of a result is the number of the dump it was read from, or 0; the
\* dump of a result, which the code does not know, is that of its start line.
Found    == [Nodes -> 0 .. MaxDumps]
NoNodes  == [n \in Nodes |-> 0]
Lines    == [kind : {"start", "node", "badNode", "jobs", "end"},
             dump : Dumps, node : Nodes \cup {None}]
Results  == [dump : 0 .. MaxDumps, nodes : Found, err : BOOLEAN]
Scanners == [state : {"none", "starting", "scanning", "sending", "ended"},
             section : {"none", "nodes", "jobs"},
             dump : 0 .. MaxDumps, nodes : Found,
             schema : BOOLEAN, err : BOOLEAN]
Steps    == {"idle", "leader", "open", "start", "recheck", "signal", "await",
             "close", "done"}
Locked   == Steps \ {"idle", "done"}

NoScanner == [state |-> "none", section |-> "none", dump |-> 0,
              nodes |-> NoNodes, schema |-> FALSE, err |-> FALSE]
NoResult  == [dump |-> 0, nodes |-> NoNodes, err |-> FALSE]
NoWriter  == [dump |-> None, part |-> "none", left |-> {}]

Init ==
    /\ lock = None
    /\ pc = [c \in Captures |-> "idle"]
    /\ expired = [c \in Captures |-> FALSE]
    /\ pod = [c \in Captures |-> None]
    /\ stream = [c \in Captures |-> "none"]
    /\ unread = [c \in Captures |-> <<>>]
    /\ scanner = [c \in Captures |-> NoScanner]
    /\ channel = [c \in Captures |-> {}]
    /\ out = [c \in Captures |-> NoResult]
    /\ leader \in Pods
    /\ leaders = 0
    /\ writer = [p \in Pods |-> NoWriter]
    /\ pending = {}
    /\ dumps = 0
    /\ nodesOf = [d \in Dumps |-> {}]
    /\ complete = {}
    /\ since = [c \in Captures |-> 0]
    /\ led = [c \in Captures |-> {}]

-----------------------------------------------------------------------------
(***************************************************************************)
(* The environment                                                         *)
(***************************************************************************)
\* Another Pod leads, or none does.
LeaderChanges ==
    /\ leaders < MaxLeaders
    /\ leaders' = leaders + 1
    /\ leader' \in (Pods \cup {None}) \ {leader}
    /\ led' = [c \in Captures |->
                 IF pc[c] \in {"recheck", "signal"}
                 THEN led[c] \cup ({leader'} \ {None}) ELSE led[c]]
    /\ UNCHANGED <<captureVars, expired, stream, unread, scanVars, logVars>>

\* The analysis timeout, cacheDumpTimeout, or a client that went away.
Expire(c) ==
    /\ pc[c] # "done"
    /\ ~expired[c]
    /\ expired' = [expired EXCEPT ![c] = TRUE]
    /\ UNCHANGED <<captureVars, stream, unread, scanVars, leaderVars, logVars,
                   led>>

\* Somebody else has the scheduler dump its cache.
ForeignSignal(p) ==
    /\ dumps < MaxDumps
    /\ p \notin pending
    /\ pending' = pending \cup {p}
    /\ UNCHANGED <<captureVars, expired, stream, unread, scanVars, leaderVars,
                   writer, dumps, nodesOf, complete, led>>

\* A line of p's log reaches the scanners that follow it.
Written(p, line) ==
    unread' = [c \in Captures |->
                 IF /\ pod[c] = p
                    /\ stream[c] = "open"
                    /\ scanner[c].state \in {"starting", "scanning"}
                 THEN Append(unread[c], line) ELSE unread[c]]

\* A scheduler that was signalled begins a dump; one it was writing broke off.
BeginDump(p) ==
    /\ p \in pending
    /\ dumps < MaxDumps
    /\ dumps' = dumps + 1
    /\ pending' = pending \ {p}
    /\ \E present \in SUBSET Nodes :
          /\ nodesOf' = [nodesOf EXCEPT ![dumps + 1] = present]
          /\ writer' = [writer EXCEPT ![p] = [dump |-> dumps + 1,
                                             part |-> "nodes",
                                             left |-> present]]
    /\ Written(p, [kind |-> "start", dump |-> dumps + 1, node |-> None])
    /\ UNCHANGED <<captureVars, expired, stream, scanVars, leaderVars, complete,
                   led>>

WriteNode(p) ==
    /\ writer[p].part = "nodes"
    /\ \E n \in writer[p].left, kind \in {"node", "badNode"} :
          /\ writer' = [writer EXCEPT ![p].left = @ \ {n}]
          /\ Written(p, [kind |-> kind, dump |-> writer[p].dump, node |-> n])
    /\ UNCHANGED <<captureVars, expired, stream, scanVars, leaderVars, pending,
                   dumps, nodesOf, complete, led>>

WriteJobs(p) ==
    /\ writer[p].part = "nodes"
    /\ writer[p].left = {}
    /\ writer' = [writer EXCEPT ![p].part = "jobs"]
    /\ Written(p, [kind |-> "jobs", dump |-> writer[p].dump, node |-> None])
    /\ UNCHANGED <<captureVars, expired, stream, scanVars, leaderVars, pending,
                   dumps, nodesOf, complete, led>>

WriteEnd(p) ==
    /\ writer[p].part = "jobs"
    /\ writer' = [writer EXCEPT ![p] = NoWriter]
    /\ complete' = complete \cup {writer[p].dump}
    /\ Written(p, [kind |-> "end", dump |-> writer[p].dump, node |-> None])
    /\ UNCHANGED <<captureVars, expired, stream, scanVars, leaderVars, pending,
                   dumps, nodesOf, led>>

\* The container ends, or the connection to its log does.
StreamBreaks(c) ==
    /\ stream[c] = "open"
    /\ stream' = [stream EXCEPT ![c] = "broken"]
    /\ UNCHANGED <<captureVars, expired, unread, scanVars, leaderVars, logVars,
                   led>>

-----------------------------------------------------------------------------
(***************************************************************************)
(* scanCacheDump, in the goroutine of captureCacheDumpFromStream           *)
(***************************************************************************)
\* The first Read of the scanner closes readStarted.
ScanStarts(c) ==
    /\ scanner[c].state = "starting"
    /\ scanner' = [scanner EXCEPT ![c].state = "scanning"]
    /\ UNCHANGED <<captureVars, expired, stream, unread, channel, leaderVars,
                   logVars, led>>

\* A start line that keeps what was read before (a fault the runs must see).
ScannedStartKept(s, line) ==
    [s EXCEPT !.section = "nodes", !.dump = line.dump]

\* A dump begins: what an earlier one left behind is dropped.
ScannedStart(s, line) ==
    [s EXCEPT !.section = "nodes", !.dump = line.dump, !.nodes = NoNodes,
              !.schema = FALSE]

\* One line of the log, by the section of the dump the scanner is in.
Scanned(s, line) ==
    CASE line.kind = "start" -> ScannedStart(s, line)
      [] line.kind = "jobs" /\ s.section = "nodes" ->
            [s EXCEPT !.section = "jobs"]
      [] line.kind = "end" /\ s.section = "jobs" ->
            [s EXCEPT !.state = "sending"]
      [] line.kind = "node" /\ s.section = "nodes" ->
            [s EXCEPT !.nodes[line.node] = line.dump]
      [] line.kind = "badNode" /\ s.section = "nodes" ->
            [s EXCEPT !.schema = TRUE]
      [] OTHER -> s

\* Lines may still be read from the buffer of a stream that was closed.
ScanLine(c) ==
    /\ scanner[c].state = "scanning"
    /\ unread[c] # <<>>
    /\ scanner' = [scanner EXCEPT ![c] = Scanned(@, Head(unread[c]))]
    /\ unread' = [unread EXCEPT ![c] = Tail(@)]
    /\ UNCHANGED <<captureVars, expired, stream, channel, leaderVars, logVars,
                   led>>

\* The stream ends: by itself, closed by the capture, or with its context.
ScanBreaksOff(c) ==
    /\ scanner[c].state = "scanning"
    /\ \/ stream[c] = "broken" /\ unread[c] = <<>>
       \/ stream[c] = "closed"
       \/ expired[c]
    /\ scanner' = [scanner EXCEPT ![c].state = "sending", ![c].err = TRUE]
    /\ UNCHANGED <<captureVars, expired, stream, unread, channel, leaderVars,
                   logVars, led>>

\* A channel without a buffer needs a receiver (a fault the runs must see).
ReceiverWaits(c) == pc[c] \in {"await", "close"}

\* resultChannel has a buffer of one.
CanSend(c) == channel[c] = {}

ScanSends(c) ==
    /\ scanner[c].state = "sending"
    /\ CanSend(c)
    /\ channel' = [channel EXCEPT
                     ![c] = {[dump |-> scanner[c].dump,
                              nodes |-> scanner[c].nodes,
                              err |-> scanner[c].err \/ scanner[c].schema]}]
    /\ scanner' = [scanner EXCEPT ![c] = [NoScanner EXCEPT !.state = "ended"]]
    /\ unread' = [unread EXCEPT ![c] = <<>>]
    /\ UNCHANGED <<captureVars, expired, stream, leaderVars, logVars, led>>

-----------------------------------------------------------------------------
(***************************************************************************)
(* CaptureCacheDump and captureCacheDumpFromStream                         *)
(***************************************************************************)
\* The capture does not wait for the lock (a fault the runs must see).
LockIgnored == TRUE

LockFree == lock = None

Lock(c) ==
    /\ pc[c] = "idle"
    /\ LockFree
    /\ lock' = c
    /\ pc' = [pc EXCEPT ![c] = "leader"]
    /\ since' = [since EXCEPT ![c] = dumps]
    /\ UNCHANGED <<expired, pod, stream, unread, scanVars, out, leaderVars,
                   logVars, led>>

\* The lock is kept on return (a fault the runs must see).
LockKept == lock

\* The deferred Unlock.
Unlocked == None

\* Every return after the stream was opened closes it.
ReturnFrom(c, result) ==
    /\ pc' = [pc EXCEPT ![c] = "done"]
    /\ out' = [out EXCEPT ![c] = result]
    /\ lock' = Unlocked
    /\ stream' = [stream EXCEPT
                    ![c] = IF @ = "none" THEN "none" ELSE "closed"]
    /\ UNCHANGED <<expired, pod, unread, leaderVars, since, led>>

Return(c, result) ==
    /\ ReturnFrom(c, result)
    /\ UNCHANGED logVars

Failed == [NoResult EXCEPT !.err = TRUE]

\* GetVolcanoScheduler needs a live context and a leader that can be read.
FindLeader(c) ==
    /\ pc[c] = "leader"
    /\ ~expired[c]
    /\ leader # None
    /\ pod' = [pod EXCEPT ![c] = leader]
    /\ pc' = [pc EXCEPT ![c] = "open"]
    /\ UNCHANGED <<lock, expired, stream, unread, scanVars, out, leaderVars,
                   logVars, since, led>>

FindLeaderFails(c) ==
    /\ pc[c] = "leader"
    /\ Return(c, Failed)
    /\ UNCHANGED scanVars

\* The log is followed from its present end, and the scanner goroutine starts.
OpenStream(c) ==
    /\ pc[c] = "open"
    /\ ~expired[c]
    /\ stream' = [stream EXCEPT ![c] = "open"]
    /\ scanner' = [scanner EXCEPT ![c].state = "starting"]
    /\ pc' = [pc EXCEPT ![c] = "start"]
    /\ UNCHANGED <<lock, expired, pod, unread, channel, out, leaderVars, logVars,
                   since, led>>

OpenStreamFails(c) ==
    /\ pc[c] = "open"
    /\ Return(c, Failed)
    /\ UNCHANGED scanVars

\* The scanner reads.  A dump that is already there was not asked for.
ScannerReads(c) ==
    /\ pc[c] = "start"
    /\ scanner[c].state # "starting"
    /\ IF channel[c] # {}
       THEN /\ \E result \in channel[c] :
                  Return(c, [result EXCEPT !.err = TRUE])
            /\ channel' = [channel EXCEPT ![c] = {}]
       ELSE /\ pc' = [pc EXCEPT ![c] = "recheck"]
            /\ led' = [led EXCEPT ![c] = {leader} \ {None}]
            /\ UNCHANGED <<lock, expired, pod, stream, unread, channel, out,
                           leaderVars, logVars, since>>
    /\ UNCHANGED scanner

ScannerDoesNotStart(c) ==
    /\ pc[c] = "start"
    /\ expired[c]
    /\ Return(c, Failed)
    /\ UNCHANGED scanVars

\* Any leader will do (a fault the runs must see).
SameSchedulerAlways(left, right) == TRUE

\* sameScheduler; the UID of a Pod that was read is never empty.
SameScheduler(left, right) == left = right

\* The leader is looked at a second time ...
RecheckLeader(c) ==
    /\ pc[c] = "recheck"
    /\ ~expired[c]
    /\ leader # None
    /\ SameScheduler(pod[c], leader)
    /\ pc' = [pc EXCEPT ![c] = "signal"]
    /\ UNCHANGED <<lock, expired, pod, stream, unread, scanVars, out, leaderVars,
                   logVars, since, led>>

\* ... and another one, or none, ends the capture.
RecheckLeaderFails(c) ==
    /\ pc[c] = "recheck"
    /\ Return(c, Failed)
    /\ UNCHANGED scanVars

\* The scheduler gets SIGUSR2; one that it has not handled yet is enough.
SignalScheduler(c) ==
    /\ pc[c] = "signal"
    /\ ~expired[c]
    /\ pending' = pending \cup {pod[c]}
    /\ pc' = [pc EXCEPT ![c] = "await"]
    /\ UNCHANGED <<lock, expired, pod, stream, unread, scanVars, out, leaderVars,
                   writer, dumps, nodesOf, complete, since, led>>

\* The exec fails, before or after the signal was delivered.
SignalFails(c) ==
    /\ pc[c] = "signal"
    /\ pending' \in {pending, pending \cup {pod[c]}}
    /\ ReturnFrom(c, Failed)
    /\ UNCHANGED <<scanVars, writer, dumps, nodesOf, complete>>

\* A result after the signal: a dump that was read to its end, or an error.
AwaitResult(c) ==
    /\ pc[c] \in {"await", "close"}
    /\ \E result \in channel[c] :
          Return(c, [result EXCEPT !.err = @ \/ pc[c] = "close"])
    /\ channel' = [channel EXCEPT ![c] = {}]
    /\ UNCHANGED scanner

\* The context ends first: the stream is closed, and what the scanner found
\* is waited for a little longer.
AwaitExpires(c) ==
    /\ pc[c] = "await"
    /\ expired[c]
    /\ stream' = [stream EXCEPT ![c] = "closed"]
    /\ pc' = [pc EXCEPT ![c] = "close"]
    /\ UNCHANGED <<lock, expired, pod, unread, scanVars, out, leaderVars, logVars,
                   since, led>>

\* cacheStreamCloseWait passes.
CloseWaitPasses(c) ==
    /\ pc[c] = "close"
    /\ Return(c, Failed)
    /\ UNCHANGED scanVars

-----------------------------------------------------------------------------
Capture(c) ==
    \/ Lock(c)
    \/ FindLeader(c)
    \/ FindLeaderFails(c)
    \/ OpenStream(c)
    \/ OpenStreamFails(c)
    \/ ScannerReads(c)
    \/ ScannerDoesNotStart(c)
    \/ RecheckLeader(c)
    \/ RecheckLeaderFails(c)
    \/ SignalScheduler(c)
    \/ SignalFails(c)
    \/ AwaitResult(c)
    \/ AwaitExpires(c)
    \/ CloseWaitPasses(c)

Scan(c) ==
    \/ ScanStarts(c)
    \/ ScanLine(c)
    \/ ScanBreaksOff(c)
    \/ ScanSends(c)

Environment ==
    \/ LeaderChanges
    \/ \E c \in Captures : Expire(c) \/ StreamBreaks(c)
    \/ \E p \in Pods : \/ ForeignSignal(p)
                       \/ BeginDump(p)
                       \/ WriteNode(p)
                       \/ WriteJobs(p)
                       \/ WriteEnd(p)

Next ==
    \/ \E c \in Captures : Capture(c) \/ Scan(c)
    \/ Environment

\* Goroutines run, Go grants a mutex to each waiter, and the timeout of a
\* capture that opened its stream fires.  Schedulers need not do anything.
Fairness ==
    \A c \in Captures :
        /\ SF_vars(Lock(c))
        /\ WF_vars(Capture(c))
        /\ WF_vars(Scan(c))
        /\ WF_vars(pc[c] \in Locked /\ Expire(c))

Spec == Init /\ [][Next]_vars /\ Fairness

-----------------------------------------------------------------------------
\* Every variable keeps to its set, and the capture that holds cacheMu is the
\* one that is under way.
TypeOK ==
    /\ lock \in Captures \cup {None}
    /\ pc \in [Captures -> Steps]
    /\ \A c \in Captures : pc[c] \in Locked <=> lock = c
    /\ expired \in [Captures -> BOOLEAN]
    /\ pod \in [Captures -> Pods \cup {None}]
    /\ stream \in [Captures -> {"none", "open", "broken", "closed"}]
    /\ unread \in [Captures -> Seq(Lines)]
    /\ scanner \in [Captures -> Scanners]
    /\ channel \in [Captures -> SUBSET Results]
    /\ out \in [Captures -> Results]
    /\ leader \in Pods \cup {None}
    /\ leaders \in 0 .. MaxLeaders
    /\ writer \in [Pods -> [dump : Dumps \cup {None},
                            part : {"none", "nodes", "jobs"},
                            left : SUBSET Nodes]]
    /\ pending \in SUBSET Pods
    /\ dumps \in 0 .. MaxDumps
    /\ nodesOf \in [Dumps -> SUBSET Nodes]
    /\ complete \in SUBSET Dumps
    /\ since \in [Captures -> 0 .. MaxDumps]
    /\ led \in [Captures -> SUBSET Pods]

Accepted(c) == pc[c] = "done" /\ ~out[c].err

\* A dump is only accepted from a scheduler that led at some moment between the
\* start of the scan and the signal: one that lost the lead while its log was
\* opened is not signalled (sameScheduler).  One that loses it after the second
\* look is, and its dump is accepted: nothing looks at the leader again.
LeaderConfirmed == \A c \in Captures : Accepted(c) => pod[c] \in led[c]

\* Every call of CaptureCacheDump returns, also one that waits for the lock
\* behind a capture whose scheduler never answers.
EveryCaptureReturns == \A c \in Captures : <>(pc[c] = "done")

\* A capture leaves no scanner goroutine behind, however it returned.
NoScannerLeaks ==
    \A c \in Captures :
        pc[c] = "done" ~> scanner[c].state \in {"none", "ended"}

\* What a capture returns that read dump d, and no other, to its end.
Whole(d) == [n \in Nodes |-> IF n \in nodesOf[d] THEN d ELSE 0]

\* The dumps begun after capture c had the lock.
Fresh(c) == since[c] + 1 .. dumps

\* The dump a capture returned, if it is all of one.
DumpOf(c) ==
    IF out[c].dump # 0 /\ out[c].nodes = Whole(out[c].dump) THEN out[c].dump ELSE 0

\* What the callers may rely on (see CapturePromise): one capture at a time,
\* and a capture that returned no error returned one dump, whole, that was
\* begun after the capture had the lock.
Promise == INSTANCE CapturePromise WITH
    turn     <- lock,
    fresh    <- IF lock = None THEN {} ELSE Fresh(lock),
    status   <- [c \in Captures |-> IF pc[c] # "done" THEN "waiting"
                                   ELSE IF out[c].err THEN "failed" ELSE "served"],
    answer   <- [c \in Captures |-> IF Accepted(c) THEN DumpOf(c) ELSE None]

PromiseKept == Promise!Spec
=============================================================================
