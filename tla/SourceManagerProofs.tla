------------------------- MODULE SourceManagerProofs -------------------------
(***************************************************************************)
(* Safety of the source manager, for any number of calls and commits.      *)
(***************************************************************************)
EXTENDS SourceManager, TLAPS

LEMMA AnalysesHaveRefs ==
    ASSUME TypeOK, NEW c \in Calls
    PROVE  kind[c] # "list" <=> c \in Analyses
BY DEF TypeOK, Kinds

LEMMA TreeNameType ==
    ASSUME TypeOK, NEW c \in Analyses, ref[c] \in Refs, NEW k \in Commits
    PROVE  TreeName(c, k) \in TreeNames
BY AnalysesAssumption DEF TreeName, TreeNames, TypeOK

\* branchWorktreeName: two calls share a worktree only at one commit.
LEMMA TreeNameHasCommit ==
    ASSUME NEW c, NEW d, NEW k, NEW l, TreeName(c, k) = TreeName(d, l)
    PROVE  k = l
BY DEF TreeName

-----------------------------------------------------------------------------
(***************************************************************************)
(* Type correctness and mutual exclusion                                   *)
(***************************************************************************)
\* What the call of an analysis has resolved when it looks for its worktree, and
\* later; ListBranches never gets there.
ResolvedInv ==
    \A c \in Calls :
        /\ pc[c] \in {"resolve", "parse", "tree"} => c \in Analyses
        /\ pc[c] = "parse" => ref[c] \in Refs
        /\ pc[c] = "tree" \/ (c \in Analyses /\ pc[c] = "served") =>
              ref[c] \in Refs /\ commit[c] \in Commits

TypeInv == TypeOK /\ ResolvedInv

LEMMA TypeInit == Init => TypeInv
<1> SUFFICES ASSUME Init
             PROVE  TypeInv
  OBVIOUS
<1>1. PICK k \in Commits : remote \in [Refs -> {k, None}]
  BY DEF Init
<1>2. remote \in [Refs -> Commits \cup {None}]
  BY <1>1
<1>3. [t \in TreeNames |-> NoTree] \in [TreeNames -> Trees]
  BY DEF NoTree, Trees
<1>4. \A c \in Calls : pc[c] \in Commands <=> mu = c
  BY NoneAssumption DEF Init, Commands
<1> QED
  BY <1>2, <1>3, <1>4, MaxMovesAssumption, AnalysesAssumption
  DEF Init, TypeInv, TypeOK, ResolvedInv, Steps

\* A command that goes on keeps the mutex; a call that returns gives it back.
LEMMA GoesKeepsMutex ==
    ASSUME TypeOK, NEW c \in Calls, pc[c] \in Commands,
           NEW command \in Commands, Goes(c, command)
    PROVE  /\ pc' \in [Calls -> Steps]
           /\ mu' \in Calls \cup {None}
           /\ \A d \in Calls : pc'[d] \in Commands <=> mu' = d
BY DEF TypeOK, Goes, Steps

LEMMA ReturnFreesMutex ==
    ASSUME TypeOK, NEW c \in Calls, pc[c] \in Commands,
           NEW ending \in {"served", "failed"}, Return(c, ending)
    PROVE  /\ pc' \in [Calls -> Steps]
           /\ mu' \in Calls \cup {None}
           /\ \A d \in Calls : pc'[d] \in Commands <=> mu' = d
<1>1. mu = c
  BY DEF TypeOK
<1>2. \A d \in Calls : d # c => pc[d] \notin Commands
  BY <1>1 DEF TypeOK
<1> QED
  BY <1>2, NoneAssumption DEF TypeOK, Return, Unlocked, Steps, Commands

LEMMA TypeStep == TypeInv /\ [Next]_vars => TypeInv'
<1> SUFFICES ASSUME TypeInv, [Next]_vars
             PROVE  TypeInv'
  OBVIOUS
<1> USE AnalysesAssumption DEF TypeInv
<1>1. CASE RemoteMoves
  <2>1. remote' \in [Refs -> Commits \cup {None}]
    BY <1>1 DEF RemoteMoves, TypeOK
  <2>2. moves' \in 0 .. MaxMoves
    BY <1>1, MaxMovesAssumption DEF RemoteMoves, TypeOK
  <2>3. seen' \in [Calls -> [Refs -> SUBSET (Commits \cup {None})]]
    BY <1>1 DEF RemoteMoves, TypeOK
  <2> QED
    BY <1>1, <2>1, <2>2, <2>3 DEF RemoteMoves, TypeOK, ResolvedInv, callVars, diskVars
<1>2. ASSUME NEW c \in Calls, Expire(c)
      PROVE  TypeInv'
  BY <1>2 DEF Expire, TypeOK, ResolvedInv, callVars, remoteVars, diskVars
<1>3. ASSUME NEW c \in Calls, Begin(c)
      PROVE  TypeInv'
  <2>1. seen' \in [Calls -> [Refs -> SUBSET (Commits \cup {None})]]
    BY <1>3 DEF Begin, TypeOK
  <2> QED
    BY <1>3, <2>1 DEF Begin, TypeOK, ResolvedInv, remoteVars, diskVars, Steps, Commands
<1>4. ASSUME NEW c \in Calls, Lock(c)
      PROVE  TypeInv'
  <2>1. \A d \in Calls : pc[d] \notin Commands
    BY <1>4, NoneAssumption DEF Lock, MutexFree, TypeOK
  <2>2. \A d \in Calls : pc'[d] \in Commands <=> mu' = d
    BY <1>4, <2>1 DEF Lock, TypeOK, Commands
  <2> QED
    BY <1>4, <2>2 DEF Lock, TypeOK, ResolvedInv, remoteVars, diskVars, Steps, Commands
<1>5. ASSUME NEW c \in Calls, ValidateBranch(c)
      PROVE  TypeInv'
  <2>1. pc[c] \in Commands /\ Goes(c, "config")
    BY <1>5 DEF ValidateBranch, Runs, Commands
  <2> QED
    BY <1>5, <2>1, GoesKeepsMutex
    DEF ValidateBranch, Goes, TypeOK, ResolvedInv, remoteVars, diskVars, Commands
<1>6. ASSUME NEW c \in Calls, ConfigureOrigin(c)
      PROVE  TypeInv'
  <2>1. pc[c] \in Commands /\ (Prepared(c) = "resolve" <=> c \in Analyses)
    BY <1>6, AnalysesHaveRefs DEF ConfigureOrigin, Runs, Commands, Prepared
  <2>2. CASE \/ Goes(c, "fetch")
             \/ Prepared(c) = "resolve" /\ Goes(c, "resolve")
    BY <1>6, <2>1, <2>2, GoesKeepsMutex
    DEF ConfigureOrigin, Goes, TypeOK, ResolvedInv, remoteVars, diskVars, Commands
  <2>3. CASE Prepared(c) = "served" /\ Return(c, "served")
    BY <1>6, <2>1, <2>3, ReturnFreesMutex
    DEF ConfigureOrigin, Return, TypeOK, ResolvedInv, remoteVars, diskVars
  <2> QED
    BY <1>6, <2>2, <2>3 DEF ConfigureOrigin
<1>7. ASSUME NEW c \in Calls, Fetch(c)
      PROVE  TypeInv'
  <2>1. pc[c] \in Commands /\ (Prepared(c) = "resolve" <=> c \in Analyses)
    BY <1>7, AnalysesHaveRefs DEF Fetch, Runs, Commands, Prepared
  <2>2. refs' \in [Refs -> Commits \cup {None}]
    BY <1>7 DEF Fetch
  <2>3. CASE Prepared(c) = "resolve" /\ Goes(c, "resolve")
    BY <1>7, <2>1, <2>2, <2>3, GoesKeepsMutex
    DEF Fetch, Goes, TypeOK, ResolvedInv, remoteVars, Commands
  <2>4. CASE Prepared(c) = "served" /\ Return(c, "served")
    BY <1>7, <2>1, <2>2, <2>4, ReturnFreesMutex
    DEF Fetch, Return, TypeOK, ResolvedInv, remoteVars
  <2> QED
    BY <1>7, <2>3, <2>4 DEF Fetch
<1>8. ASSUME NEW c \in Calls, ResolveBranch(c) \/ ResolveTag(c)
      PROVE  TypeInv'
  <2>1. pc[c] \in Commands /\ c \in Analyses /\ Goes(c, "parse")
    BY <1>8 DEF ResolveBranch, ResolveTag, Runs, Commands, ResolvedInv
  <2>2. /\ ref' \in [Calls -> Refs \cup {None}]
        /\ ref'[c] \in Refs
        /\ \A d \in Calls : d # c => ref'[d] = ref[d]
    BY <1>8 DEF ResolveBranch, ResolveTag, Resolved, TypeOK, Refs
  <2>3. missed' \in [Calls -> BOOLEAN]
    BY <1>8 DEF ResolveBranch, ResolveTag, TypeOK
  <2>4. UNCHANGED <<commit, refs, locks, trees>>
    BY <1>8 DEF ResolveBranch, ResolveTag, diskVars
  <2>5. TypeOK'
    BY <2>1, <2>2, <2>3, <2>4, GoesKeepsMutex
    DEF Goes, TypeOK, remoteVars, Commands
  <2>6. ResolvedInv'
    BY <2>1, <2>2, <2>4 DEF Goes, TypeOK, ResolvedInv
  <2> QED
    BY <2>5, <2>6
<1>9. ASSUME NEW c \in Calls, ParseCommit(c)
      PROVE  TypeInv'
  <2>1. pc[c] \in Commands /\ Goes(c, "tree")
    BY <1>9 DEF ParseCommit, Runs, Commands
  <2>2. c \in Analyses /\ refs[ref[c]] \in Commits
    BY <1>9 DEF ParseCommit, Runs, ResolvedInv, TypeOK
  <2> QED
    BY <1>9, <2>1, <2>2, GoesKeepsMutex
    DEF ParseCommit, Runs, Goes, TypeOK, ResolvedInv, remoteVars, diskVars, Commands
<1>10. ASSUME NEW c \in Calls, AddWorktree(c) \/ CheckOutWorktree(c)
       PROVE  TypeInv'
  <2>1. pc[c] = "tree" /\ Return(c, "served")
    BY <1>10 DEF AddWorktree, CheckOutWorktree, Runs
  <2>2. c \in Analyses /\ ref[c] \in Refs /\ commit[c] \in Commits
    BY <2>1 DEF ResolvedInv
  <2>3. Whole(commit[c]) \in Trees
    BY <2>2 DEF Whole, Trees
  <2>4. trees' \in [TreeNames -> Trees]
    BY <1>10, <2>3 DEF AddWorktree, CheckOutWorktree, TypeOK
  <2>5. UNCHANGED <<ref, commit, missed, refs, locks>>
    BY <1>10 DEF AddWorktree, CheckOutWorktree
  <2>6. TypeOK'
    BY <2>1, <2>4, <2>5, ReturnFreesMutex DEF Return, TypeOK, remoteVars, Commands
  <2>7. ResolvedInv'
    BY <2>1, <2>2, <2>5 DEF Return, TypeOK, ResolvedInv
  <2> QED
    BY <2>6, <2>7
<1>11. ASSUME NEW c \in Calls, CommandFails(c)
       PROVE  TypeInv'
  BY <1>11, ReturnFreesMutex
  DEF CommandFails, Return, TypeOK, ResolvedInv, remoteVars, diskVars
<1>12. ASSUME NEW c \in Calls, ConfigureOriginKilled(c) \/ FetchBreaksOff(c)
       PROVE  TypeInv'
  <2>1. pc[c] \in Commands /\ Return(c, "failed")
    BY <1>12 DEF ConfigureOriginKilled, FetchBreaksOff, Commands
  <2>2. locks' \in SUBSET ({ConfigLock, RefsLock} \cup TreeNames)
    BY <1>12 DEF ConfigureOriginKilled, FetchBreaksOff, Left, TypeOK
  <2>3. refs' \in [Refs -> Commits \cup {None}]
    BY <1>12 DEF ConfigureOriginKilled, FetchBreaksOff, TypeOK
  <2> QED
    BY <1>12, <2>1, <2>2, <2>3, ReturnFreesMutex
    DEF ConfigureOriginKilled, FetchBreaksOff, Return, TypeOK, ResolvedInv,
        remoteVars
<1>13. ASSUME NEW c \in Calls, AddWorktreeBreaksOff(c) \/ CheckOutWorktreeBreaksOff(c)
       PROVE  TypeInv'
  <2> DEFINE t == TreeName(c, commit[c])
  <2>1. pc[c] = "tree" /\ Return(c, "failed")
    BY <1>13 DEF AddWorktreeBreaksOff, CheckOutWorktreeBreaksOff
  <2>2. t \in TreeNames
    <3>1. c \in Analyses /\ ref[c] \in Refs /\ commit[c] \in Commits
      BY <2>1 DEF ResolvedInv
    <3> QED
      BY <3>1, TreeNameType
  <2>3. locks' \in SUBSET ({ConfigLock, RefsLock} \cup TreeNames)
    BY <1>13, <2>2
    DEF AddWorktreeBreaksOff, CheckOutWorktreeBreaksOff, Left, TypeOK
  <2>4. CASE AddWorktreeBreaksOff(c)
    <3>1. Halves \subseteq Trees
      BY DEF Halves, Trees, NoTree
    <3>2. trees' \in [TreeNames -> Trees]
      BY <2>4, <3>1 DEF AddWorktreeBreaksOff, TypeOK
    <3> QED
      BY <2>4, <2>1, <2>3, <3>2, ReturnFreesMutex
      DEF AddWorktreeBreaksOff, Return, TypeOK, ResolvedInv, remoteVars, Commands
  <2>5. CASE CheckOutWorktreeBreaksOff(c)
    <3>1. trees' \in [TreeNames -> Trees]
      BY <2>5, <2>2 DEF CheckOutWorktreeBreaksOff, TypeOK, Trees
    <3> QED
      BY <2>5, <2>1, <2>3, <3>1, ReturnFreesMutex
      DEF CheckOutWorktreeBreaksOff, Return, TypeOK, ResolvedInv, remoteVars,
          Commands
  <2> QED
    BY <1>13, <2>4, <2>5
<1>14. ASSUME NEW c \in Calls, Drop(c)
       PROVE  TypeInv'
  BY <1>14 DEF Drop, TypeOK, ResolvedInv, remoteVars, diskVars, Steps, Commands
<1>15. CASE UNCHANGED vars
  BY <1>15 DEF vars, callVars, TypeOK, ResolvedInv
<1> QED
  BY <1>1, <1>2, <1>3, <1>4, <1>5, <1>6, <1>7, <1>8, <1>9, <1>10, <1>11, <1>12,
     <1>13, <1>14, <1>15
  DEF Next, Call, LocalCommand, RemoteCommand

LEMMA TypeInvHolds == Spec => []TypeInv
BY TypeInit, TypeStep, PTL DEF Spec

\* Every variable keeps to its set, and at most one call, the one that holds the
\* mutex, runs Git commands (Manager.mu).
THEOREM TypeCorrect == Spec => []TypeOK
BY TypeInvHolds, PTL DEF TypeInv

-----------------------------------------------------------------------------
(***************************************************************************)
(* Which commit a call hands out                                           *)
(***************************************************************************)
Running(c) == pc[c] \in {"lock"} \cup Commands

\* What the remote holds now, a running call has seen it hold; so with the
\* clone, once the call has fetched, for no other call can fetch; and so with
\* the commit, once it is read from the clone.
FreshInv ==
    Updates =>
        \A c \in Calls :
            /\ Running(c) => \A r \in Refs : remote[r] \in seen[c][r]
            /\ pc[c] \in {"resolve", "parse", "tree"} =>
                  \A r \in Refs : refs[r] \in seen[c][r]
            /\ pc[c] = "tree" \/ Reads(c) => commit[c] \in seen[c][ref[c]]

Missing(c) == None \in seen[c]["tag"] \cap seen[c]["branch"]

\* A call that was timed out among its lookups gets no further than rev-parse.
FallbackInv ==
    Updates =>
        \A c \in Calls :
            kind[c] = "tag" /\ ref[c] = "master" =>
                /\ pc[c] = "parse" => expired[c] \/ missed[c] \/ Missing(c)
                /\ pc[c] \in {"tree", "served"} => missed[c] \/ Missing(c)

CommitInv == TypeInv /\ FreshInv /\ FallbackInv

LEMMA CommitInit == Init => CommitInv
BY TypeInit DEF Init, CommitInv, FreshInv, FallbackInv, Running, Reads, Commands

\* The steps between two commands that read or write the clone.
LEMMA CommitKept ==
    ASSUME CommitInv, NEW c \in Calls,
           \A d \in Calls : d # c => pc'[d] = pc[d],
           pc'[c] \in {"dropped", "failed"}
             \/ (c \notin Analyses /\ pc'[c] = "served")
             \/ (Running(c) /\ pc'[c] \in {"validate", "config", "fetch"})
             \/ pc'[c] = pc[c],
           UNCHANGED <<kind, ref, commit, missed, seen, remote, refs>>,
           \A d \in Calls : expired[d] => expired'[d]
    PROVE  FreshInv' /\ FallbackInv'
<1>1. \A d \in Calls : pc'[d] = "served" => pc[d] = "served" \/ d \notin Analyses
  OBVIOUS
<1>2. \A d \in Calls : kind[d] # "list" => d \in Analyses
  BY AnalysesHaveRefs DEF CommitInv, TypeInv
<1>3. FreshInv'
  BY <1>1, <1>2 DEF CommitInv, FreshInv, Running, Reads, Commands
<1>4. FallbackInv'
  BY <1>1, <1>2 DEF CommitInv, FallbackInv, Missing
<1> QED
  BY <1>3, <1>4

LEMMA CommitStep == CommitInv /\ [Next]_vars => CommitInv'
<1> SUFFICES ASSUME CommitInv, [Next]_vars
             PROVE  FreshInv' /\ FallbackInv'
  BY TypeStep DEF CommitInv
<1>0. TypeInv /\ TypeOK /\ TypeInv'
  BY TypeStep DEF CommitInv, TypeInv
<1>1. CASE RemoteMoves
  <2>1. \A d \in Calls, r \in Refs :
           seen'[d][r] = seen[d][r] \/ seen'[d][r] = seen[d][r] \cup {remote'[r]}
    BY <1>0, <1>1 DEF RemoteMoves, TypeOK
  <2>2. \A d \in Calls : Running(d) =>
           \A r \in Refs : remote'[r] = remote[r] \/ remote'[r] \in seen'[d][r]
    BY <1>0, <1>1 DEF RemoteMoves, TypeOK, Running, Commands, Ended
  <2>3. UNCHANGED <<pc, kind, ref, commit, missed, expired, refs>>
    BY <1>1 DEF RemoteMoves, callVars, diskVars
  <2>4. \A d \in Calls, r \in Refs : seen[d][r] \subseteq seen'[d][r]
    BY <2>1
  <2>5. \A d \in Calls : pc[d] = "tree" \/ Reads(d) => ref[d] \in Refs
    BY <1>0, AnalysesHaveRefs DEF TypeInv, ResolvedInv, Reads
  <2>6. FreshInv'
    BY <2>2, <2>3, <2>4, <2>5 DEF CommitInv, FreshInv, Running, Reads
  <2>7. FallbackInv'
    BY <2>3, <2>4 DEF CommitInv, FallbackInv, Missing, Refs
  <2> QED
    BY <2>6, <2>7
<1>2. ASSUME NEW c \in Calls, Expire(c)
      PROVE  FreshInv' /\ FallbackInv'
  <2>1. \A d \in Calls : expired[d] => expired'[d]
    BY <1>0, <1>2 DEF Expire, TypeOK
  <2> QED
    BY <1>2, <2>1, CommitKept DEF Expire, callVars, remoteVars, diskVars
<1>3. ASSUME NEW c \in Calls, Begin(c)
      PROVE  FreshInv' /\ FallbackInv'
  <2>1. \A d \in Calls : d # c => pc'[d] = pc[d] /\ seen'[d] = seen[d]
    BY <1>0, <1>3 DEF Begin, TypeOK
  <2>2. pc'[c] = "lock" /\ \A r \in Refs : remote[r] \in seen'[c][r]
    BY <1>0, <1>3 DEF Begin, TypeOK
  <2>3. UNCHANGED <<kind, ref, commit, missed, expired, remote, refs>>
    BY <1>3 DEF Begin, remoteVars, diskVars
  <2>4. FreshInv'
    BY <2>1, <2>2, <2>3 DEF CommitInv, FreshInv, Running, Reads
  <2>5. FallbackInv'
    BY <2>1, <2>2, <2>3 DEF CommitInv, FallbackInv, Missing
  <2> QED
    BY <2>4, <2>5
<1>4. ASSUME NEW c \in Calls,
             Lock(c) \/ ValidateBranch(c) \/ CommandFails(c) \/ Drop(c)
      PROVE  FreshInv' /\ FallbackInv'
  <2>1. UNCHANGED <<kind, ref, commit, missed, seen, remote, refs, expired>>
    BY <1>4 DEF Lock, ValidateBranch, Goes, CommandFails, Return, Drop, remoteVars,
                diskVars
  <2>2. \A d \in Calls : d # c => pc'[d] = pc[d]
    BY <1>0, <1>4
    DEF Lock, ValidateBranch, Goes, CommandFails, Return, Drop, TypeOK
  <2>3. pc'[c] \in {"dropped", "failed"}
          \/ (Running(c) /\ pc'[c] \in {"validate", "config", "fetch"})
    BY <1>0, <1>4
    DEF Lock, ValidateBranch, Goes, CommandFails, Return, Drop, Runs, TypeOK,
        Running, Commands
  <2> QED
    BY <2>1, <2>2, <2>3, CommitKept
<1>5. ASSUME NEW c \in Calls, ConfigureOrigin(c)
      PROVE  FreshInv' /\ FallbackInv'
  <2>1. CASE Updates
    <3>1. UNCHANGED <<kind, ref, commit, missed, seen, remote, refs, expired>>
      BY <1>5, <2>1 DEF ConfigureOrigin, Goes, remoteVars, diskVars
    <3>2. Running(c) /\ pc' = [pc EXCEPT ![c] = "fetch"]
      BY <1>5, <2>1 DEF ConfigureOrigin, Runs, Goes, Running, Commands
    <3> QED
      BY <1>0, <3>1, <3>2, CommitKept DEF TypeOK
  <2>2. CASE ~Updates
    BY <2>2 DEF FreshInv, FallbackInv
  <2> QED
    BY <2>1, <2>2
<1>6. ASSUME NEW c \in Calls, Fetch(c)
      PROVE  FreshInv' /\ FallbackInv'
  <2>1. UNCHANGED <<kind, ref, commit, missed, seen, remote, expired>>
    BY <1>6 DEF Fetch, Goes, Return, remoteVars
  <2>2. refs' = remote
    BY <1>0, <1>6 DEF Fetch, Fetched, TypeOK
  <2>3. \A d \in Calls : d # c => pc'[d] = pc[d] /\ pc[d] \notin Commands
    BY <1>0, <1>6 DEF Fetch, Runs, Goes, Return, TypeOK, Commands
  <2>4. Running(c) /\ (pc'[c] = "resolve" \/ (pc'[c] = "served" /\ kind[c] = "list"))
    BY <1>0, <1>6
    DEF Fetch, Runs, Goes, Return, Prepared, TypeOK, Running, Commands
  <2>5. FreshInv'
    BY <2>1, <2>2, <2>3, <2>4 DEF CommitInv, FreshInv, Running, Reads, Commands
  <2>6. FallbackInv'
    BY <2>1, <2>3, <2>4 DEF CommitInv, FallbackInv, Missing
  <2> QED
    BY <2>5, <2>6
<1>7. ASSUME NEW c \in Calls, ResolveBranch(c) \/ ResolveTag(c)
      PROVE  FreshInv' /\ FallbackInv'
  <2>1. UNCHANGED <<kind, commit, seen, remote, refs, expired>>
    BY <1>7 DEF ResolveBranch, ResolveTag, Goes, remoteVars, diskVars
  <2>2. \A d \in Calls : d # c =>
           pc'[d] = pc[d] /\ ref'[d] = ref[d] /\ missed'[d] = missed[d]
    BY <1>0, <1>7 DEF ResolveBranch, ResolveTag, Goes, TypeOK
  <2>3. pc[c] = "resolve" /\ pc'[c] = "parse"
    BY <1>0, <1>7 DEF ResolveBranch, ResolveTag, Runs, Goes, TypeOK
  <2>4. FreshInv'
    BY <2>1, <2>2, <2>3 DEF CommitInv, FreshInv, Running, Reads, Commands
  <2>5. ASSUME Updates, kind[c] = "tag", ref'[c] = "master"
        PROVE  expired[c] \/ missed'[c] \/ Missing(c)
    <3> DEFINE existing == {r \in {"tag", "branch"} : refs[r] # None}
    <3>1. PICK found \in SUBSET existing :
             /\ ref' = [ref EXCEPT ![c] = Resolved(found)]
             /\ missed' = [missed EXCEPT ![c] = found # existing /\ ~expired[c]]
      BY <1>7, <2>5 DEF ResolveBranch, ResolveTag
    <3>2. "tag" \notin found /\ "branch" \notin found
      BY <1>0, <2>5, <3>1 DEF Resolved, TypeOK
    <3>3. CASE found # existing
      BY <1>0, <3>1, <3>3 DEF TypeOK
    <3>4. CASE found = existing
      <4>1. refs["tag"] = None /\ refs["branch"] = None
        BY <3>2, <3>4
      <4>2. refs["tag"] \in seen[c]["tag"] /\ refs["branch"] \in seen[c]["branch"]
        BY <2>3, <2>5 DEF CommitInv, FreshInv, Refs
      <4> QED
        BY <4>1, <4>2 DEF Missing
    <3> QED
      BY <3>3, <3>4
  <2>6. FallbackInv'
    BY <2>1, <2>2, <2>3, <2>5 DEF CommitInv, FallbackInv, Missing
  <2> QED
    BY <2>4, <2>6
<1>8. ASSUME NEW c \in Calls, ParseCommit(c)
      PROVE  FreshInv' /\ FallbackInv'
  <2>1. UNCHANGED <<kind, ref, missed, seen, remote, refs, expired>>
    BY <1>8 DEF ParseCommit, Goes, remoteVars, diskVars
  <2>2. /\ pc[c] = "parse" /\ pc'[c] = "tree" /\ ~expired[c]
        /\ commit'[c] = refs[ref[c]] /\ ref[c] \in Refs
    BY <1>0, <1>8 DEF ParseCommit, Runs, Goes, TypeOK, TypeInv, ResolvedInv
  <2>3. \A d \in Calls : d # c => pc'[d] = pc[d] /\ commit'[d] = commit[d]
    BY <1>0, <1>8 DEF ParseCommit, Goes, TypeOK
  <2>4. FreshInv'
    BY <2>1, <2>2, <2>3 DEF CommitInv, FreshInv, Running, Reads, Commands
  <2>5. FallbackInv'
    BY <2>1, <2>2, <2>3 DEF CommitInv, FallbackInv, Missing
  <2> QED
    BY <2>4, <2>5
<1>9. ASSUME NEW c \in Calls, AddWorktree(c) \/ CheckOutWorktree(c)
      PROVE  FreshInv' /\ FallbackInv'
  <2>1. UNCHANGED <<kind, ref, commit, missed, seen, remote, refs, expired>>
    BY <1>9 DEF AddWorktree, CheckOutWorktree, Return, remoteVars
  <2>2. pc[c] = "tree" /\ pc' = [pc EXCEPT ![c] = "served"]
    BY <1>9 DEF AddWorktree, CheckOutWorktree, Runs, Return
  <2>3. FreshInv'
    BY <1>0, <2>1, <2>2 DEF CommitInv, FreshInv, Running, Reads, Commands, TypeOK
  <2>4. FallbackInv'
    BY <1>0, <2>1, <2>2 DEF CommitInv, FallbackInv, Missing, TypeOK
  <2> QED
    BY <2>3, <2>4
<1>10. ASSUME NEW c \in Calls,
              ConfigureOriginKilled(c) \/ AddWorktreeBreaksOff(c)
                \/ CheckOutWorktreeBreaksOff(c)
       PROVE  FreshInv' /\ FallbackInv'
  <2>1. UNCHANGED <<kind, ref, commit, missed, seen, remote, refs, expired>>
    BY <1>10 DEF ConfigureOriginKilled, AddWorktreeBreaksOff,
                 CheckOutWorktreeBreaksOff, Return, remoteVars
  <2>2. pc' = [pc EXCEPT ![c] = "failed"]
    BY <1>10 DEF ConfigureOriginKilled, AddWorktreeBreaksOff,
                 CheckOutWorktreeBreaksOff, Return
  <2> QED
    BY <1>0, <2>1, <2>2, CommitKept DEF TypeOK
<1>11. ASSUME NEW c \in Calls, FetchBreaksOff(c)
       PROVE  FreshInv' /\ FallbackInv'
  <2>1. UNCHANGED <<kind, ref, commit, missed, seen, remote, expired>>
    BY <1>11 DEF FetchBreaksOff, Return, remoteVars
  <2>2. \A d \in Calls : d # c => pc'[d] = pc[d] /\ pc[d] \notin Commands
    BY <1>0, <1>11 DEF FetchBreaksOff, Return, TypeOK, Commands
  <2>3. pc'[c] = "failed"
    BY <1>0, <1>11 DEF FetchBreaksOff, Return, TypeOK
  <2>4. FreshInv'
    BY <2>1, <2>2, <2>3 DEF CommitInv, FreshInv, Running, Reads, Commands
  <2>5. FallbackInv'
    BY <2>1, <2>2, <2>3 DEF CommitInv, FallbackInv, Missing, Commands
  <2> QED
    BY <2>4, <2>5
<1>12. CASE UNCHANGED vars
  BY <1>12 DEF vars, callVars, CommitInv, FreshInv, FallbackInv, Running, Reads,
               Missing
<1> QED
  BY <1>1, <1>2, <1>3, <1>4, <1>5, <1>6, <1>7, <1>8, <1>9, <1>10, <1>11, <1>12
  DEF Next, Call, LocalCommand, RemoteCommand

LEMMA CommitInvHolds == Spec => []CommitInv
BY CommitInit, CommitStep, PTL DEF Spec

\* A worktree is handed out at a commit that its ref had in the remote while the
\* call ran (prepareRepository, PrepareBranch).
THEOREM CommitIsFreshHolds == Spec => []CommitIsFresh
<1>1. CommitInv => CommitIsFresh
  BY DEF CommitInv, FreshInv, CommitIsFresh
<1> QED
  BY CommitInvHolds, <1>1, PTL

\* A timeout among the lookups of resolveRef never selects master.
THEOREM FallbackIsJustifiedHolds == Spec => []FallbackIsJustified
<1>1. CommitInv => FallbackIsJustified
  BY DEF CommitInv, FallbackInv, FallbackIsJustified, Missing, Reads
<1> QED
  BY CommitInvHolds, <1>1, PTL

-----------------------------------------------------------------------------
(***************************************************************************)
(* What is in the worktree of a call                                       *)
(***************************************************************************)
TreeInv == TypeInv /\ TreeOfItsCommit

\* A step that leaves every whole tree whole, unless it is checked out at
\* another commit, leaves the readers' trees alone: their names have the commit.
LEMMA ReadersKeepTrees ==
    ASSUME TreeInv, UNCHANGED <<kind, ref, commit>>,
           NEW c \in Calls, commit[c] \in Commits,
           \A d \in Calls : d # c => pc'[d] = pc[d],
           \A t \in TreeNames :
              t # TreeName(c, commit[c]) => trees'[t] = trees[t],
           trees[TreeName(c, commit[c])] = Whole(commit[c])
             => trees'[TreeName(c, commit[c])] = Whole(commit[c]),
           pc'[c] = "served"
             => trees'[TreeName(c, commit[c])] = Whole(commit[c])
    PROVE  TreeOfItsCommit'
<1> SUFFICES ASSUME NEW d \in Calls, Reads(d)'
             PROVE  trees'[TreeName(d, commit[d])] = Whole(commit[d])
  BY DEF TreeOfItsCommit, TreeName
<1>1. CASE d = c
  BY <1>1 DEF Reads
<1>2. CASE d # c
  <2>1. Reads(d) /\ trees[TreeName(d, commit[d])] = Whole(commit[d])
    BY <1>2 DEF Reads, TreeInv, TreeOfItsCommit
  <2>2. d \in Analyses /\ ref[d] \in Refs /\ commit[d] \in Commits
    BY <2>1, AnalysesHaveRefs DEF TreeInv, TypeInv, ResolvedInv, Reads
  <2>3. TreeName(d, commit[d]) \in TreeNames
    BY <2>2, TreeNameType DEF TreeInv, TypeInv
  <2>4. CASE TreeName(d, commit[d]) = TreeName(c, commit[c])
    BY <2>1, <2>4, TreeNameHasCommit
  <2>5. CASE TreeName(d, commit[d]) # TreeName(c, commit[c])
    BY <2>1, <2>3, <2>5
  <2> QED
    BY <2>4, <2>5
<1> QED
  BY <1>1, <1>2

LEMMA TreeStep == TreeInv /\ [Next]_vars => TreeInv'
<1> SUFFICES ASSUME TreeInv, [Next]_vars
             PROVE  TreeOfItsCommit'
  BY TypeStep DEF TreeInv
<1>0. TypeInv /\ TypeOK
  BY DEF TreeInv, TypeInv
<1>1. CASE /\ UNCHANGED <<kind, ref, commit, trees>>
           /\ \A d \in Calls : Reads(d)' => Reads(d)
  BY <1>1 DEF TreeInv, TreeOfItsCommit, TreeName
<1>2. CASE RemoteMoves \/ UNCHANGED vars
  BY <1>1, <1>2 DEF RemoteMoves, callVars, diskVars, vars, Reads
<1>3. ASSUME NEW c \in Calls,
             Expire(c) \/ Begin(c) \/ Lock(c) \/ Drop(c) \/ CommandFails(c)
      PROVE  TreeOfItsCommit'
  <2>1. UNCHANGED <<kind, ref, commit, trees>>
    BY <1>3 DEF Expire, Begin, Lock, Drop, CommandFails, Return, callVars, diskVars
  <2>2. \A d \in Calls : Reads(d)' => Reads(d)
    BY <1>0, <1>3
    DEF Expire, Begin, Lock, Drop, CommandFails, Return, callVars, Reads, TypeOK
  <2> QED
    BY <1>1, <2>1, <2>2
<1>4. ASSUME NEW c \in Calls,
             ValidateBranch(c) \/ ConfigureOrigin(c) \/ Fetch(c)
               \/ ConfigureOriginKilled(c) \/ FetchBreaksOff(c)
      PROVE  TreeOfItsCommit'
  <2>1. UNCHANGED <<kind, ref, commit, trees>>
    BY <1>4 DEF ValidateBranch, ConfigureOrigin, Fetch, ConfigureOriginKilled,
                FetchBreaksOff, Goes, Return, diskVars
  <2>2. \A d \in Calls : Reads(d)' => Reads(d)
    BY <1>0, <1>4
    DEF ValidateBranch, ConfigureOrigin, Fetch, ConfigureOriginKilled,
        FetchBreaksOff, Goes, Return, Prepared, Reads, TypeOK
  <2> QED
    BY <1>1, <2>1, <2>2
<1>5. ASSUME NEW c \in Calls,
             ResolveBranch(c) \/ ResolveTag(c) \/ ParseCommit(c)
      PROVE  TreeOfItsCommit'
  <2>1. UNCHANGED <<kind, trees>>
    BY <1>5 DEF ResolveBranch, ResolveTag, ParseCommit, Goes, diskVars
  <2>2. pc[c] # "served" /\ pc'[c] # "served"
    BY <1>0, <1>5 DEF ResolveBranch, ResolveTag, ParseCommit, Runs, Goes, TypeOK
  <2>3. \A d \in Calls : d # c =>
           pc'[d] = pc[d] /\ ref'[d] = ref[d] /\ commit'[d] = commit[d]
    BY <1>0, <1>5 DEF ResolveBranch, ResolveTag, ParseCommit, Goes, TypeOK
  <2> QED
    BY <2>1, <2>2, <2>3 DEF TreeInv, TreeOfItsCommit, TreeName, Reads
<1>6. ASSUME NEW c \in Calls,
             AddWorktree(c) \/ CheckOutWorktree(c) \/ AddWorktreeBreaksOff(c)
               \/ CheckOutWorktreeBreaksOff(c)
      PROVE  TreeOfItsCommit'
  <2> DEFINE t == TreeName(c, commit[c])
  <2>1. UNCHANGED <<kind, ref, commit>>
    BY <1>6 DEF AddWorktree, CheckOutWorktree, AddWorktreeBreaksOff,
                CheckOutWorktreeBreaksOff, Return
  <2>2. pc[c] = "tree"
    BY <1>6 DEF AddWorktree, CheckOutWorktree, AddWorktreeBreaksOff,
                CheckOutWorktreeBreaksOff, Runs
  <2>3. c \in Analyses /\ ref[c] \in Refs /\ commit[c] \in Commits
    BY <1>0, <2>2 DEF TypeInv, ResolvedInv
  <2>4. t \in TreeNames
    BY <1>0, <2>3, TreeNameType
  <2>5. \A d \in Calls : d # c => pc'[d] = pc[d]
    BY <1>0, <1>6 DEF AddWorktree, CheckOutWorktree, AddWorktreeBreaksOff,
                      CheckOutWorktreeBreaksOff, Return, TypeOK
  <2>6. \A u \in TreeNames : u # t => trees'[u] = trees[u]
    BY <1>0, <1>6 DEF AddWorktree, CheckOutWorktree, AddWorktreeBreaksOff,
                      CheckOutWorktreeBreaksOff, TypeOK
  <2>7. CASE AddWorktree(c) \/ CheckOutWorktree(c)
    <3>1. trees'[t] = Whole(commit[c])
      BY <1>0, <2>4, <2>7 DEF AddWorktree, CheckOutWorktree, TypeOK
    <3> QED
      BY <2>1, <2>3, <2>5, <2>6, <3>1, ReadersKeepTrees
  <2>8. CASE AddWorktreeBreaksOff(c)
    <3>1. trees[t] # Whole(commit[c])
      BY <2>8 DEF AddWorktreeBreaksOff, Whole
    <3>2. pc'[c] = "failed"
      BY <1>0, <2>8 DEF AddWorktreeBreaksOff, Return, TypeOK
    <3> QED
      BY <2>1, <2>3, <2>5, <2>6, <3>1, <3>2, ReadersKeepTrees
  <2>9. CASE CheckOutWorktreeBreaksOff(c)
    <3>1. trees[t] = Whole(commit[c]) => trees'[t] = Whole(commit[c])
      BY <2>9 DEF CheckOutWorktreeBreaksOff
    <3>2. pc'[c] = "failed"
      BY <1>0, <2>9 DEF CheckOutWorktreeBreaksOff, Return, TypeOK
    <3> QED
      BY <2>1, <2>3, <2>5, <2>6, <3>1, <3>2, ReadersKeepTrees
  <2> QED
    BY <1>6, <2>7, <2>8, <2>9
<1> QED
  BY <1>2, <1>3, <1>4, <1>5, <1>6 DEF Next, Call, LocalCommand, RemoteCommand

\* While its analysis reads it, a worktree has the files of its commit, whatever
\* other calls check out and wherever they are killed (prepareWorktree).
THEOREM TreeOfItsCommitHolds == Spec => []TreeOfItsCommit
<1>1. Init => TreeInv
  BY TypeInit DEF Init, TreeInv, TreeOfItsCommit, Reads
<1> QED
  BY <1>1, TreeStep, PTL DEF Spec, TreeInv
=============================================================================
