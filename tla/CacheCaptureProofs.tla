-------------------------- MODULE CacheCaptureProofs --------------------------
(***************************************************************************)
(* Safety of the cache capture, for any captures, Pods, nodes and bounds.  *)
(***************************************************************************)
EXTENDS CacheCapture, SequenceTheorems, TLAPS

\* What each group of variables keeps to: TypeOK in parts, so that an action is
\* shown to preserve the part it changes.
CaptureTypes ==
    /\ lock \in Captures \cup {None}
    /\ pc \in [Captures -> Steps]
    /\ \A c \in Captures : pc[c] \in Locked <=> lock = c
    /\ pod \in [Captures -> Pods \cup {None}]
    /\ \A c \in Captures : pc[c] \in Locked \ {"leader"} => pod[c] \in Pods
    /\ out \in [Captures -> Results]
    /\ since \in [Captures -> 0 .. MaxDumps]

StreamTypes ==
    /\ expired \in [Captures -> BOOLEAN]
    /\ stream \in [Captures -> {"none", "open", "broken", "closed"}]
    /\ unread \in [Captures -> Seq(Lines)]

ScanTypes ==
    /\ scanner \in [Captures -> Scanners]
    /\ channel \in [Captures -> SUBSET Results]

LeaderTypes ==
    /\ leader \in Pods \cup {None}
    /\ leaders \in 0 .. MaxLeaders
    /\ led \in [Captures -> SUBSET Pods]

LogTypes ==
    /\ writer \in [Pods -> [dump : Dumps \cup {None},
                            part : {"none", "nodes", "jobs"},
                            left : SUBSET Nodes]]
    /\ pending \in SUBSET Pods
    /\ dumps \in 0 .. MaxDumps
    /\ nodesOf \in [Dumps -> SUBSET Nodes]
    /\ complete \in SUBSET Dumps

\* A Pod that writes a dump writes one that there is: the dump of its lines.
WriterInv == \A p \in Pods : writer[p].part # "none" => writer[p].dump \in Dumps

TypeInv == /\ CaptureTypes
           /\ StreamTypes
           /\ ScanTypes
           /\ LeaderTypes
           /\ LogTypes
           /\ WriterInv

LEMMA TypeInvImplies == TypeInv => TypeOK
BY DEF TypeInv, CaptureTypes, StreamTypes, ScanTypes, LeaderTypes, LogTypes, TypeOK

LEMMA RecordTypes ==
    /\ NoNodes \in Found
    /\ NoScanner \in Scanners
    /\ NoResult \in Results
    /\ Failed \in Results
    /\ \A r \in Results, b \in BOOLEAN : [r EXCEPT !.err = b] \in Results
<1>1. 0 \in 0 .. MaxDumps
  BY BoundsAssumption
<1>2. NoNodes \in Found
  BY <1>1 DEF NoNodes, Found
<1> QED
  BY <1>1, <1>2 DEF NoScanner, Scanners, NoResult, Failed, Results

LEMMA InitTypes == Init => TypeInv
<1> SUFFICES ASSUME Init PROVE TypeInv
  OBVIOUS
<1> USE DEF Init
<1>1. CaptureTypes
  BY RecordTypes, NoneAssumption, BoundsAssumption
     DEF CaptureTypes, Steps, Locked
<1>2. StreamTypes
  <2>1. <<>> \in Seq(Lines)
    OBVIOUS
  <2> QED
    BY <2>1 DEF StreamTypes
<1>3. ScanTypes
  BY RecordTypes DEF ScanTypes
<1>4. LeaderTypes
  BY BoundsAssumption DEF LeaderTypes
<1>5. LogTypes /\ WriterInv
  BY BoundsAssumption DEF LogTypes, WriterInv, NoWriter, Dumps
<1> QED
  BY <1>1, <1>2, <1>3, <1>4, <1>5 DEF TypeInv

-----------------------------------------------------------------------------
(***************************************************************************)
(* Type correctness, by group of variables                                 *)
(***************************************************************************)
\* A line of a log that is in Lines leaves the streams well-typed.
LEMMA WrittenTypes ==
    ASSUME StreamTypes, NEW p \in Pods, NEW line \in Lines, Written(p, line),
           UNCHANGED <<expired, stream>>
    PROVE  StreamTypes'
<1>1. \A c \in Captures : Append(unread[c], line) \in Seq(Lines)
  BY AppendProperties DEF StreamTypes
<1> QED
  BY <1>1 DEF StreamTypes, Written

LEMMA EnvironmentTypes == TypeInv /\ Environment => TypeInv'
<1> SUFFICES ASSUME TypeInv, Environment PROVE TypeInv'
  OBVIOUS
<1> USE DEF TypeInv
<1>1. CASE LeaderChanges
  <2>1. leaders' \in 0 .. MaxLeaders
    BY <1>1, BoundsAssumption DEF LeaderChanges, LeaderTypes
  <2>2. leader' \in Pods \cup {None} /\ led' \in [Captures -> SUBSET Pods]
    BY <1>1 DEF LeaderChanges, LeaderTypes
  <2> QED
    BY <1>1, <2>1, <2>2 DEF LeaderChanges, captureVars, scanVars, logVars,
       CaptureTypes, StreamTypes, ScanTypes, LeaderTypes, LogTypes, WriterInv
<1>2. ASSUME NEW c \in Captures, Expire(c) \/ StreamBreaks(c)
      PROVE  TypeInv'
  <2>1. StreamTypes'
    BY <1>2 DEF Expire, StreamBreaks, StreamTypes
  <2> QED
    BY <1>2, <2>1 DEF Expire, StreamBreaks, captureVars, scanVars, logVars,
       leaderVars, CaptureTypes, ScanTypes, LeaderTypes, LogTypes, WriterInv
<1>3. ASSUME NEW p \in Pods, ForeignSignal(p)
      PROVE  TypeInv'
  BY <1>3 DEF ForeignSignal, captureVars, scanVars, leaderVars, CaptureTypes,
     StreamTypes, ScanTypes, LeaderTypes, LogTypes, WriterInv
<1>4. ASSUME NEW p \in Pods, BeginDump(p)
      PROVE  TypeInv'
  <2>1. dumps + 1 \in Dumps /\ dumps' \in 0 .. MaxDumps
    BY <1>4, BoundsAssumption DEF BeginDump, LogTypes, Dumps
  <2>2. [kind |-> "start", dump |-> dumps + 1, node |-> None] \in Lines
    BY <2>1 DEF Lines
  <2>3. StreamTypes'
    BY <1>4, <2>2, WrittenTypes DEF BeginDump
  <2>4. LogTypes' /\ WriterInv'
    BY <1>4, <2>1 DEF BeginDump, LogTypes, WriterInv
  <2> QED
    BY <1>4, <2>3, <2>4 DEF BeginDump, captureVars, scanVars, leaderVars,
       CaptureTypes, ScanTypes, LeaderTypes
<1>5. ASSUME NEW p \in Pods, WriteNode(p)
      PROVE  TypeInv'
  <2>1. PICK n \in writer[p].left, kind \in {"node", "badNode"} :
           /\ writer' = [writer EXCEPT ![p].left = @ \ {n}]
           /\ Written(p, [kind |-> kind, dump |-> writer[p].dump, node |-> n])
    BY <1>5 DEF WriteNode
  <2>2. [kind |-> kind, dump |-> writer[p].dump, node |-> n] \in Lines
    BY <1>5 DEF WriteNode, WriterInv, LogTypes, Lines
  <2>3. StreamTypes'
    BY <1>5, <2>1, <2>2, WrittenTypes DEF WriteNode
  <2>4. LogTypes' /\ WriterInv'
    BY <1>5, <2>1 DEF WriteNode, LogTypes, WriterInv
  <2> QED
    BY <1>5, <2>3, <2>4 DEF WriteNode, captureVars, scanVars, leaderVars,
       CaptureTypes, ScanTypes, LeaderTypes
<1>6. ASSUME NEW p \in Pods, WriteJobs(p)
      PROVE  TypeInv'
  <2>1. [kind |-> "jobs", dump |-> writer[p].dump, node |-> None] \in Lines
    BY <1>6 DEF WriteJobs, WriterInv, LogTypes, Lines
  <2>2. StreamTypes'
    BY <1>6, <2>1, WrittenTypes DEF WriteJobs
  <2>3. LogTypes' /\ WriterInv'
    BY <1>6 DEF WriteJobs, LogTypes, WriterInv
  <2> QED
    BY <1>6, <2>2, <2>3 DEF WriteJobs, captureVars, scanVars, leaderVars,
       CaptureTypes, ScanTypes, LeaderTypes
<1>7. ASSUME NEW p \in Pods, WriteEnd(p)
      PROVE  TypeInv'
  <2>1. writer[p].dump \in Dumps
    BY <1>7 DEF WriteEnd, WriterInv
  <2>2. [kind |-> "end", dump |-> writer[p].dump, node |-> None] \in Lines
    BY <2>1 DEF Lines
  <2>3. StreamTypes'
    BY <1>7, <2>2, WrittenTypes DEF WriteEnd
  <2>4. LogTypes' /\ WriterInv'
    BY <1>7, <2>1 DEF WriteEnd, LogTypes, WriterInv, NoWriter
  <2> QED
    BY <1>7, <2>3, <2>4 DEF WriteEnd, captureVars, scanVars, leaderVars,
       CaptureTypes, ScanTypes, LeaderTypes
<1> QED
  BY <1>1, <1>2, <1>3, <1>4, <1>5, <1>6, <1>7 DEF Environment

\* The scanner stays one, whatever line it reads.
LEMMA ScannedType ==
    ASSUME NEW s \in Scanners, NEW line \in Lines
    PROVE  Scanned(s, line) \in Scanners
<1>1. line.dump \in 0 .. MaxDumps
  BY BoundsAssumption DEF Lines, Dumps
<1>2. ScannedStart(s, line) \in Scanners
  BY <1>1, RecordTypes DEF ScannedStart, Scanners
<1>3. [s EXCEPT !.section = "jobs"] \in Scanners
  BY DEF Scanners
<1>4. [s EXCEPT !.state = "sending"] \in Scanners
  BY DEF Scanners
<1>5. [s EXCEPT !.nodes[line.node] = line.dump] \in Scanners
  BY <1>1 DEF Scanners, Found
<1>6. [s EXCEPT !.schema = TRUE] \in Scanners
  BY DEF Scanners
<1> QED
  BY <1>2, <1>3, <1>4, <1>5, <1>6 DEF Scanned

LEMMA ScanTypesKept ==
    ASSUME TypeInv, NEW c \in Captures, Scan(c)
    PROVE  TypeInv'
<1> USE DEF TypeInv
<1>1. scanner[c] \in Scanners /\ unread[c] \in Seq(Lines)
  BY DEF ScanTypes, StreamTypes
<1>2. ScanTypes'
  <2>1. CASE ScanStarts(c)
    <3>1. [scanner[c] EXCEPT !.state = "scanning"] \in Scanners
      BY <1>1 DEF Scanners
    <3> QED
      BY <2>1, <3>1 DEF ScanStarts, ScanTypes
  <2>2. CASE ScanLine(c)
    <3>1. Head(unread[c]) \in Lines
      BY <1>1, <2>2, HeadTailProperties DEF ScanLine
    <3>2. Scanned(scanner[c], Head(unread[c])) \in Scanners
      BY <1>1, <3>1, ScannedType
    <3>3. scanner' = [scanner EXCEPT ![c] = Scanned(scanner[c], Head(unread[c]))]
      BY <2>2 DEF ScanLine
    <3> QED
      BY <2>2, <3>2, <3>3 DEF ScanLine, ScanTypes
  <2>3. CASE ScanBreaksOff(c)
    <3>1. [scanner[c] EXCEPT !.state = "sending", !.err = TRUE] \in Scanners
      BY <1>1 DEF Scanners
    <3> QED
      BY <2>3, <3>1 DEF ScanBreaksOff, ScanTypes
  <2>4. CASE ScanSends(c)
    <3>1. [NoScanner EXCEPT !.state = "ended"] \in Scanners
      BY RecordTypes DEF Scanners
    <3>2. [dump |-> scanner[c].dump, nodes |-> scanner[c].nodes,
           err |-> scanner[c].err \/ scanner[c].schema] \in Results
      BY <1>1 DEF Scanners, Results
    <3> QED
      BY <2>4, <3>1, <3>2 DEF ScanSends, ScanTypes
  <2> QED
    BY <2>1, <2>2, <2>3, <2>4 DEF Scan
<1>3. StreamTypes'
  <2>1. unread' \in [Captures -> Seq(Lines)]
    <3>1. CASE ScanLine(c)
      <4>1. Tail(unread[c]) \in Seq(Lines)
        BY <1>1, <3>1, HeadTailProperties DEF ScanLine
      <4> QED
        BY <3>1, <4>1 DEF ScanLine, StreamTypes
    <3>2. CASE ScanSends(c)
      <4>1. <<>> \in Seq(Lines)
        OBVIOUS
      <4> QED
        BY <3>2, <4>1 DEF ScanSends, StreamTypes
    <3>3. CASE ScanStarts(c) \/ ScanBreaksOff(c)
      BY <3>3 DEF ScanStarts, ScanBreaksOff, StreamTypes
    <3> QED
      BY <3>1, <3>2, <3>3 DEF Scan
  <2> QED
    BY <2>1 DEF Scan, ScanStarts, ScanLine, ScanBreaksOff, ScanSends, StreamTypes
<1>4. UNCHANGED <<captureVars, leaderVars, logVars, led>>
  BY DEF Scan, ScanStarts, ScanLine, ScanBreaksOff, ScanSends
<1> QED
  BY <1>2, <1>3, <1>4 DEF captureVars, leaderVars, logVars, CaptureTypes,
     LeaderTypes, LogTypes, WriterInv

-----------------------------------------------------------------------------
(***************************************************************************)
(* The steps of CaptureCacheDump                                           *)
(***************************************************************************)
\* A step that goes on to another one under the lock.
LEMMA LockedStep ==
    ASSUME CaptureTypes, NEW c \in Captures, NEW step \in Locked,
           pc[c] \in Locked, pc' = [pc EXCEPT ![c] = step],
           UNCHANGED <<lock, out, since>>,
           \/ pod' = pod /\ pc[c] # "leader"
           \/ \E p \in Pods : pod' = [pod EXCEPT ![c] = p]
    PROVE  CaptureTypes'
<1>1. pc' \in [Captures -> Steps]
  BY DEF CaptureTypes, Locked
<1>2. \A d \in Captures : pc'[d] \in Locked <=> lock' = d
  BY DEF CaptureTypes
<1>3. pod' \in [Captures -> Pods \cup {None}]
  BY DEF CaptureTypes
<1>4. \A d \in Captures : pc'[d] \in Locked \ {"leader"} => pod'[d] \in Pods
  BY DEF CaptureTypes
<1> QED
  BY <1>1, <1>2, <1>3, <1>4 DEF CaptureTypes

\* A step that returns, with the streams it leaves.
LEMMA ReturnTypes ==
    ASSUME TypeInv, NEW c \in Captures, NEW result \in Results,
           pc[c] \in Locked, ReturnFrom(c, result)
    PROVE  CaptureTypes' /\ StreamTypes' /\ LeaderTypes'
<1> USE DEF TypeInv
<1>1. lock = c
  BY DEF CaptureTypes
<1>2. pc' \in [Captures -> Steps]
  BY DEF ReturnFrom, CaptureTypes, Steps
<1>3. \A d \in Captures : pc'[d] \in Locked <=> lock' = d
  BY <1>1, NoneAssumption DEF ReturnFrom, CaptureTypes, Locked, Unlocked
<1>4. \A d \in Captures : pc'[d] \in Locked \ {"leader"} => pod'[d] \in Pods
  BY DEF ReturnFrom, CaptureTypes, Locked
<1>5. CaptureTypes'
  BY <1>2, <1>3, <1>4 DEF ReturnFrom, CaptureTypes, Unlocked
<1>6. StreamTypes'
  BY DEF ReturnFrom, StreamTypes
<1> QED
  BY <1>5, <1>6 DEF ReturnFrom, leaderVars, LeaderTypes

LEMMA SuccessfulSteps ==
    ASSUME TypeInv, NEW c \in Captures,
           \/ Lock(c)
           \/ FindLeader(c)
           \/ OpenStream(c)
           \/ ScannerReads(c) /\ channel[c] = {}
           \/ RecheckLeader(c)
           \/ SignalScheduler(c)
           \/ AwaitExpires(c)
    PROVE  TypeInv'
<1> USE DEF TypeInv
<1>1. CASE Lock(c)
  <2>1. pc' \in [Captures -> Steps] /\ since' \in [Captures -> 0 .. MaxDumps]
    BY <1>1 DEF Lock, CaptureTypes, LogTypes, Steps
  <2>2. \A d \in Captures : pc'[d] \in Locked <=> lock' = d
    BY <1>1, NoneAssumption DEF Lock, LockFree, CaptureTypes, Locked, Steps
  <2>3. \A d \in Captures : pc'[d] \in Locked \ {"leader"} => pod'[d] \in Pods
    BY <1>1 DEF Lock, CaptureTypes
  <2>4. CaptureTypes'
    BY <1>1, <2>1, <2>2, <2>3 DEF Lock, CaptureTypes
  <2> QED
    BY <1>1, <2>4 DEF Lock, scanVars, leaderVars, logVars, StreamTypes,
       ScanTypes, LeaderTypes, LogTypes, WriterInv
<1>2. CASE FindLeader(c)
  <2>1. leader \in Pods
    BY <1>2 DEF FindLeader, LeaderTypes
  <2>2. CaptureTypes'
    BY <1>2, <2>1, LockedStep DEF FindLeader, Locked, Steps
  <2> QED
    BY <1>2, <2>2 DEF FindLeader, scanVars, leaderVars, logVars, StreamTypes,
       ScanTypes, LeaderTypes, LogTypes, WriterInv
<1>3. CASE OpenStream(c)
  <2>1. CaptureTypes'
    BY <1>3, LockedStep DEF OpenStream, Locked, Steps, CaptureTypes
  <2>2. StreamTypes'
    BY <1>3 DEF OpenStream, StreamTypes
  <2>3. ScanTypes'
    <3>1. [scanner[c] EXCEPT !.state = "starting"] \in Scanners
      BY DEF ScanTypes, Scanners
    <3> QED
      BY <1>3, <3>1 DEF OpenStream, ScanTypes
  <2>4. LeaderTypes'
    BY <1>3 DEF OpenStream, LeaderTypes, leaderVars
  <2> QED
    BY <1>3, <2>1, <2>2, <2>3, <2>4 DEF OpenStream, logVars, LogTypes, WriterInv
<1>4. CASE ScannerReads(c) /\ channel[c] = {}
  <2>1. CaptureTypes'
    BY <1>4, LockedStep DEF ScannerReads, Locked, Steps, CaptureTypes
  <2> QED
    BY <1>4, <2>1 DEF ScannerReads, leaderVars, logVars, StreamTypes, ScanTypes,
       LeaderTypes, LogTypes, WriterInv
<1>5. CASE RecheckLeader(c)
  <2>1. CaptureTypes'
    BY <1>5, LockedStep DEF RecheckLeader, Locked, Steps, CaptureTypes
  <2> QED
    BY <1>5, <2>1 DEF RecheckLeader, scanVars, leaderVars, logVars, StreamTypes,
       ScanTypes, LeaderTypes, LogTypes, WriterInv
<1>6. CASE SignalScheduler(c)
  <2>1. CaptureTypes'
    BY <1>6, LockedStep DEF SignalScheduler, Locked, Steps, CaptureTypes
  <2>2. pending' \in SUBSET Pods
    BY <1>6 DEF SignalScheduler, CaptureTypes, LogTypes, Locked, Steps
  <2> QED
    BY <1>6, <2>1, <2>2 DEF SignalScheduler, scanVars, leaderVars, StreamTypes,
       ScanTypes, LeaderTypes, LogTypes, WriterInv
<1>7. CASE AwaitExpires(c)
  <2>1. CaptureTypes'
    BY <1>7, LockedStep DEF AwaitExpires, Locked, Steps, CaptureTypes
  <2>2. StreamTypes'
    BY <1>7 DEF AwaitExpires, StreamTypes
  <2> QED
    BY <1>7, <2>1, <2>2 DEF AwaitExpires, scanVars, leaderVars, logVars,
       ScanTypes, LeaderTypes, LogTypes, WriterInv
<1> QED
  BY <1>1, <1>2, <1>3, <1>4, <1>5, <1>6, <1>7

\* What a capture may return: an error, or, after the signal, what the scanner sent.
LEMMA ReturningSteps ==
    ASSUME TypeInv, NEW c \in Captures,
           \/ FindLeaderFails(c)
           \/ OpenStreamFails(c)
           \/ ScannerReads(c) /\ channel[c] # {}
           \/ ScannerDoesNotStart(c)
           \/ RecheckLeaderFails(c)
           \/ SignalFails(c)
           \/ AwaitResult(c)
           \/ CloseWaitPasses(c)
    PROVE  \E result \in Results :
              /\ pc[c] \in Locked
              /\ ReturnFrom(c, result)
              /\ ~result.err => /\ pc[c] = "await"
                                /\ \E sent \in channel[c] :
                                      /\ ~sent.err
                                      /\ sent.dump = result.dump
                                      /\ sent.nodes = result.nodes
<1> USE DEF TypeInv
<1>1. Failed \in Results /\ Failed.err
  BY RecordTypes DEF Failed, NoResult
<1>2. CASE ScannerReads(c) /\ channel[c] # {}
  <2>1. PICK result \in channel[c] : Return(c, [result EXCEPT !.err = TRUE])
    BY <1>2 DEF ScannerReads
  <2>2. result \in Results
    BY DEF ScanTypes
  <2>3. [result EXCEPT !.err = TRUE] \in Results /\ [result EXCEPT !.err = TRUE].err
    BY <2>2 DEF Results
  <2> QED
    BY <1>2, <2>1, <2>3 DEF ScannerReads, Return, Locked, Steps
<1>3. CASE AwaitResult(c)
  <2>1. PICK result \in channel[c] :
           Return(c, [result EXCEPT !.err = @ \/ pc[c] = "close"])
    BY <1>3 DEF AwaitResult
  <2> DEFINE returned == [result EXCEPT !.err = @ \/ pc[c] = "close"]
  <2>2. result \in Results
    BY DEF ScanTypes
  <2>3. /\ returned \in Results
        /\ pc[c] = "close" => returned.err
        /\ result.err => returned.err
        /\ returned.dump = result.dump
        /\ returned.nodes = result.nodes
    BY <2>2 DEF Results
  <2>4. pc[c] \in {"await", "close"}
    BY <1>3 DEF AwaitResult
  <2> QED
    BY <2>1, <2>3, <2>4 DEF Return, Locked, Steps
<1>4. CASE \/ FindLeaderFails(c) \/ OpenStreamFails(c) \/ ScannerDoesNotStart(c)
         \/ RecheckLeaderFails(c) \/ SignalFails(c) \/ CloseWaitPasses(c)
  BY <1>1, <1>4 DEF FindLeaderFails, OpenStreamFails, ScannerDoesNotStart,
     RecheckLeaderFails, SignalFails, CloseWaitPasses, Return, Locked, Steps
<1> QED
  BY <1>2, <1>3, <1>4

LEMMA ReturningStepsKeepTypes ==
    ASSUME TypeInv, NEW c \in Captures,
           \/ FindLeaderFails(c)
           \/ OpenStreamFails(c)
           \/ ScannerReads(c) /\ channel[c] # {}
           \/ ScannerDoesNotStart(c)
           \/ RecheckLeaderFails(c)
           \/ SignalFails(c)
           \/ AwaitResult(c)
           \/ CloseWaitPasses(c)
    PROVE  TypeInv'
<1> USE DEF TypeInv
<1>1. PICK result \in Results : pc[c] \in Locked /\ ReturnFrom(c, result)
  BY ReturningSteps
<1>2. CaptureTypes' /\ StreamTypes' /\ LeaderTypes'
  BY <1>1, ReturnTypes
<1>3. scanner' = scanner /\ channel' \in [Captures -> SUBSET Results]
  BY DEF FindLeaderFails, OpenStreamFails, ScannerReads, ScannerDoesNotStart,
     RecheckLeaderFails, SignalFails, AwaitResult, CloseWaitPasses, scanVars,
     ScanTypes
<1>4. LogTypes' /\ WriterInv'
  <2>1. CASE SignalFails(c)
    <3>1. pending' \in SUBSET Pods
      BY <2>1 DEF SignalFails, CaptureTypes, LogTypes, Locked, Steps
    <3> QED
      BY <2>1, <3>1 DEF SignalFails, LogTypes, WriterInv
  <2>2. CASE ~SignalFails(c)
    <3>1. UNCHANGED logVars
      BY <2>2 DEF FindLeaderFails, OpenStreamFails, ScannerReads,
         ScannerDoesNotStart, RecheckLeaderFails, AwaitResult, CloseWaitPasses,
         Return
    <3> QED
      BY <3>1 DEF logVars, LogTypes, WriterInv
  <2> QED
    BY <2>1, <2>2
<1> QED
  BY <1>2, <1>3, <1>4 DEF ScanTypes

LEMMA NextTypes == TypeInv /\ [Next]_vars => TypeInv'
<1> SUFFICES ASSUME TypeInv, [Next]_vars PROVE TypeInv'
  OBVIOUS
<1>1. ASSUME NEW c \in Captures, Capture(c)
      PROVE  TypeInv'
  BY <1>1, SuccessfulSteps, ReturningStepsKeepTypes DEF Capture
<1>2. ASSUME NEW c \in Captures, Scan(c)
      PROVE  TypeInv'
  BY <1>2, ScanTypesKept
<1>3. CASE Environment
  BY <1>3, EnvironmentTypes
<1>4. CASE UNCHANGED vars
  BY <1>4 DEF vars, TypeInv, CaptureTypes, StreamTypes, ScanTypes, LeaderTypes,
     LogTypes, WriterInv
<1> QED
  BY <1>1, <1>2, <1>3, <1>4 DEF Next

LEMMA TypeInvariance == Spec => []TypeInv
<1>1. Init => TypeInv
  BY InitTypes
<1> QED
  BY <1>1, NextTypes, PTL DEF Spec

\* Every variable keeps to its set, and at most one capture is between its Lock
\* and its return: the one that holds cacheMu (CaptureCacheDump).
THEOREM TypeCorrect == Spec => []TypeOK
BY TypeInvariance, TypeInvImplies, PTL

-----------------------------------------------------------------------------
(***************************************************************************)
(* The leader                                                              *)
(***************************************************************************)
\* From the start of its scan to its signal, every Pod that leads is recorded;
\* once the leader was looked at again, the Pod of the capture is one of them.
LedInvOf(c) ==
    /\ pc[c] \in {"recheck", "signal"} =>
          leader \in led[c] \cup {None}
    /\ pc[c] \in {"signal", "await", "close"} => pod[c] \in led[c]
    /\ Accepted(c) => pod[c] \in led[c]

LedInv == \A c \in Captures : LedInvOf(c)

LEMMA LedNext == TypeInv /\ LedInv /\ [Next]_vars => LedInv'
<1> SUFFICES ASSUME TypeInv, LedInv, [Next]_vars, NEW d \in Captures
             PROVE  LedInvOf(d)'
  BY DEF LedInv
<1> USE DEF LedInvOf, Accepted
<1>1. LedInvOf(d)
  BY DEF LedInv
<1>2. CASE LeaderChanges
  BY <1>1, <1>2 DEF LeaderChanges, captureVars, Locked, Steps, TypeInv,
     LeaderTypes
<1>3. ASSUME UNCHANGED <<pc, pod, out, leader, led>>
      PROVE  LedInvOf(d)'
  BY <1>1, <1>3
<1>4. ASSUME NEW c \in Captures, Capture(c)
      PROVE  LedInvOf(d)'
  <2>1. CASE Lock(c)
    BY <1>1, <2>1 DEF Lock, leaderVars, TypeInv, CaptureTypes
  <2>2. CASE FindLeader(c)
    BY <1>1, <2>2 DEF FindLeader, leaderVars, TypeInv, CaptureTypes
  <2>3. CASE OpenStream(c)
    BY <1>1, <2>3 DEF OpenStream, leaderVars, TypeInv, CaptureTypes, LeaderTypes
  <2>4. CASE ScannerReads(c) /\ channel[c] = {}
    BY <1>1, <2>4 DEF ScannerReads, leaderVars, TypeInv, CaptureTypes, LeaderTypes
  <2>5. CASE RecheckLeader(c)
    BY <1>1, <2>5 DEF RecheckLeader, SameScheduler, leaderVars, TypeInv,
       CaptureTypes
  <2>6. CASE SignalScheduler(c)
    BY <1>1, <2>6 DEF SignalScheduler, leaderVars, TypeInv, CaptureTypes
  <2>7. CASE AwaitExpires(c)
    BY <1>1, <2>7 DEF AwaitExpires, leaderVars, TypeInv, CaptureTypes
  <2>8. ASSUME NEW result \in Results, pc[c] \in Locked, ReturnFrom(c, result),
               ~result.err => pc[c] = "await"
        PROVE  LedInvOf(d)'
    BY <1>1, <2>8 DEF ReturnFrom, leaderVars, TypeInv, CaptureTypes
  <2> QED
    BY <1>4, <2>1, <2>2, <2>3, <2>4, <2>5, <2>6, <2>7, <2>8, ReturningSteps
       DEF Capture
<1>5. ASSUME NEW c \in Captures, Scan(c)
      PROVE  LedInvOf(d)'
  BY <1>3, <1>5 DEF Scan, ScanStarts, ScanLine, ScanBreaksOff, ScanSends,
     captureVars, leaderVars
<1>6. CASE Environment
  BY <1>2, <1>3, <1>6 DEF Environment, Expire, StreamBreaks, ForeignSignal,
     BeginDump, WriteNode, WriteJobs, WriteEnd, captureVars, leaderVars
<1>7. CASE UNCHANGED vars
  BY <1>3, <1>7 DEF vars
<1> QED
  BY <1>4, <1>5, <1>6, <1>7 DEF Next

\* What CaptureCacheDump returns without an error is of a Pod that led after its
\* scan had begun and before it was signalled, not of one that had lost the lead
\* while its log was opened, however often the leader changes.
THEOREM LeaderConfirmedHolds == Spec => []LeaderConfirmed
<1>1. Init => LedInv
  BY DEF Init, LedInv, LedInvOf, Accepted
<1>2. LedInv => LeaderConfirmed
  BY DEF LedInv, LedInvOf, LeaderConfirmed
<1> QED
  BY <1>1, <1>2, LedNext, TypeInvariance, PTL DEF Spec
=============================================================================
