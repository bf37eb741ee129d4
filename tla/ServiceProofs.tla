----------------------------- MODULE ServiceProofs -----------------------------
(***************************************************************************)
(* Safety of the process with its source manager, for any number of         *)
(* requests and restarts.                                                  *)
(***************************************************************************)
EXTENDS Service, SourceManagerProofs

\* The slot is with the analysis whose handler runs, and only that handler is in
\* the manager or has a worktree: with any other, the call has not begun or ended.
HandlerInv ==
    \A c \in Analyses :
        /\ Active(c) <=> slot = c
        /\ handler[c] \in {"new", "rules", "refused"} => pc[c] = "idle"
        /\ handler[c] \in {"reply", "answered", "lost"} => pc[c] \in {"idle", "dropped", "failed"}

Inv == TreeInv /\ ServiceTypeOK /\ HandlerInv

LEMMA ServiceInitInv == ServiceInit => Inv
<1> SUFFICES ASSUME ServiceInit
             PROVE  Inv
  OBVIOUS
<1>1. TreeInv
  BY TypeInit DEF ServiceInit, Init, TreeInv, TreeOfItsCommit, Reads
<1>2. ServiceTypeOK
  BY MaxRestartsAssumption DEF ServiceInit, ServiceTypeOK, Handlers
<1>3. HandlerInv
  BY NoneAssumption, AnalysesAssumption DEF ServiceInit, Init, HandlerInv, Active
<1> QED
  BY <1>1, <1>2, <1>3 DEF Inv

-----------------------------------------------------------------------------
(***************************************************************************)
(* The manager under the process                                           *)
(***************************************************************************)
\* What a process that dies does to the manager is not a step of the manager:
\* contexts end together, and calls that were not in Git end with it.
LEMMA DeathKeepsTrees ==
    ASSUME TreeInv, Dies \/ Exits
    PROVE  TreeInv'
<1> USE DEF TreeInv, TypeInv
<1>1. CASE Dies
  <2>1. /\ UNCHANGED <<mu, pc, kind, ref, commit, missed, seen, remote, moves, refs, locks, trees>>
        /\ expired' \in [Calls -> BOOLEAN]
    BY <1>1 DEF Dies, callVars, remoteVars, diskVars, TypeOK, Active
  <2>2. TypeOK'
    BY <2>1 DEF TypeOK, Kinds
  <2>3. ResolvedInv' /\ TreeOfItsCommit'
    BY <2>1 DEF ResolvedInv, TreeOfItsCommit, Reads, TreeName
  <2> QED
    BY <2>2, <2>3
<1>2. CASE Exits
  <2>1. /\ UNCHANGED <<mu, kind, ref, commit, missed, expired, seen, remote, moves, refs, locks, trees>>
        /\ pc' = [c \in Calls |-> IF pc[c] \in {"lock", "served"} THEN "dropped" ELSE pc[c]]
    BY <1>2 DEF Exits, remoteVars, diskVars
  <2>2. /\ pc' \in [Calls -> Steps]
        /\ \A c \in Calls : pc'[c] \in Commands <=> pc[c] \in Commands
        /\ \A c \in Calls : pc'[c] = pc[c] \/ pc'[c] = "dropped"
    BY <2>1 DEF TypeOK, Steps, Commands
  <2>3. TypeOK'
    BY <2>1, <2>2 DEF TypeOK, Kinds
  <2>4. ResolvedInv' /\ TreeOfItsCommit'
    BY <2>1, <2>2 DEF ResolvedInv, TreeOfItsCommit, Reads, TreeName
  <2> QED
    BY <2>3, <2>4
<1> QED
  BY <1>1, <1>2

LEMMA CommandsOfOneCall ==
    ASSUME TypeOK, NEW c \in Calls, Lock(c) \/ LocalCommand(c) \/ RemoteCommand(c)
    PROVE  /\ pc[c] \in {"lock"} \cup Commands
           /\ \A d \in Calls : d # c => pc'[d] = pc[d]
<1>1. CASE Lock(c)
  BY <1>1 DEF Lock, TypeOK
<1>2. CASE LocalCommand(c) \/ RemoteCommand(c)
  <2>1. pc[c] \in Commands
    BY <1>2 DEF LocalCommand, RemoteCommand, ValidateBranch, ConfigureOrigin, ResolveBranch,
                ResolveTag, ParseCommit, AddWorktree, CheckOutWorktree, ConfigureOriginKilled,
                AddWorktreeBreaksOff, CheckOutWorktreeBreaksOff, CommandFails, Fetch,
                FetchBreaksOff, Runs, Commands
  <2>2. \E step : Goes(c, step) \/ Return(c, step)
    BY <1>2 DEF LocalCommand, RemoteCommand, ValidateBranch, ConfigureOrigin, ResolveBranch,
                ResolveTag, ParseCommit, AddWorktree, CheckOutWorktree, ConfigureOriginKilled,
                AddWorktreeBreaksOff, CheckOutWorktreeBreaksOff, CommandFails, Fetch,
                FetchBreaksOff
  <2> QED
    BY <2>1, <2>2 DEF Goes, Return, TypeOK
<1> QED
  BY <1>1, <1>2

LEMMA ManagerStep ==
    ASSUME ServiceNext
    PROVE  [Next]_vars \/ Dies \/ Exits
<1>1. ASSUME NEW c \in Calls, Handler(c)
      PROVE  UNCHANGED vars \/ Call(c) \/ Expire(c)
  <2>1. BadRequest(c) \/ TakeSlot(c) \/ SlotTaken(c) \/ RulesSuffice(c) \/ BranchesListed(c) \/ Reply(c)
           => UNCHANGED vars
    BY DEF BadRequest, TakeSlot, SlotTaken, RulesSuffice, BranchesListed, Reply
  <2>2. PrepareSource(c) \/ ListBranches(c) => Call(c)
    BY DEF PrepareSource, ListBranches, Call
  <2>3. ManagerLocks(c) \/ ManagerWorks(c) \/ ManagerFetches(c) => Call(c)
    BY DEF ManagerLocks, ManagerWorks, ManagerFetches, Call
  <2>4. SourceRead(c) \/ Panics(c) => UNCHANGED vars \/ Call(c)
    BY DEF SourceRead, Panics, Call
  <2>5. ContextEnds(c) => Expire(c)
    BY DEF ContextEnds
  <2>6. GitIsKilled(c) => Call(c)
    BY DEF GitIsKilled, Call, LocalCommand, RemoteCommand
  <2> QED
    BY <1>1, <2>1, <2>2, <2>3, <2>4, <2>5, <2>6 DEF Handler
<1>2. Process => UNCHANGED vars \/ Dies \/ Exits
  BY DEF Process, Signalled, Drained, ShutdownExpires, Crashes, Starts
<1> QED
  BY <1>1, <1>2 DEF ServiceNext, Next

LEMMA TreesUnderService == Inv /\ [ServiceNext]_allVars => TreeInv'
<1> SUFFICES ASSUME Inv, [ServiceNext]_allVars
             PROVE  TreeInv'
  OBVIOUS
<1>1. [Next]_vars \/ Dies \/ Exits
  BY ManagerStep DEF allVars
<1> QED
  BY <1>1, TreeStep, DeathKeepsTrees DEF Inv

-----------------------------------------------------------------------------
(***************************************************************************)
(* The handlers                                                            *)
(***************************************************************************)
\* A handler that goes on disturbs no other, if it leaves their calls and what
\* they know of the slot alone.
LEMMA HandlerGoesAlone ==
    ASSUME ServiceTypeOK, HandlerInv, NEW c \in Calls, NEW h \in Handlers, HandlerGoes(c, h),
           slot' \in Analyses \cup {None},
           \A d \in Calls \ {c} : pc'[d] = pc[d] /\ (slot' = d <=> slot = d),
           c \in Analyses =>
               /\ h \in {"rules", "source", "reply"} <=> slot' = c
               /\ h \in {"new", "rules", "refused"} => pc'[c] = "idle"
               /\ h \in {"reply", "answered", "lost"} => pc'[c] \in {"idle", "dropped", "failed"}
    PROVE  ServiceTypeOK' /\ HandlerInv'
<1>1. handler' = [handler EXCEPT ![c] = h] /\ UNCHANGED <<up, starts>>
  BY DEF HandlerGoes
<1>2. handler \in [Calls -> Handlers]
  BY DEF ServiceTypeOK
<1>3. handler'[c] = h /\ \A d \in Calls \ {c} : handler'[d] = handler[d]
  BY <1>1, <1>2
<1>4. ServiceTypeOK'
  BY <1>1, <1>2 DEF ServiceTypeOK
<1>5. ASSUME NEW d \in Analyses
      PROVE  /\ Active(d)' <=> slot' = d
             /\ handler'[d] \in {"new", "rules", "refused"} => pc'[d] = "idle"
             /\ handler'[d] \in {"reply", "answered", "lost"} => pc'[d] \in {"idle", "dropped", "failed"}
  <2>0. d \in Calls
    BY AnalysesAssumption
  <2>1. CASE d = c
    BY <1>3, <2>1 DEF Active
  <2>2. CASE d # c
    BY <1>3, <2>0, <2>2 DEF Active, HandlerInv
  <2> QED
    BY <2>1, <2>2
<1>6. HandlerInv'
  BY <1>5 DEF HandlerInv
<1> QED
  BY <1>4, <1>6

\* The manager works for a handler that stays where it is.
LEMMA HandlerWaits ==
    ASSUME TypeOK, ServiceTypeOK, HandlerInv, NEW c \in Calls,
           Lock(c) \/ LocalCommand(c) \/ RemoteCommand(c), UNCHANGED <<slot, handler, starts>>,
           up' = up
    PROVE  ServiceTypeOK' /\ HandlerInv'
<1>1. /\ pc[c] \in {"lock"} \cup Commands
      /\ \A d \in Calls : d # c => pc'[d] = pc[d]
  BY CommandsOfOneCall
<1>2. ServiceTypeOK'
  BY DEF ServiceTypeOK
<1>3. c \in Analyses => handler[c] \notin {"new", "rules", "refused", "reply", "answered", "lost"}
  BY <1>1 DEF HandlerInv, Commands
<1>4. HandlerInv'
  BY <1>1, <1>3, AnalysesAssumption DEF HandlerInv, Active
<1> QED
  BY <1>2, <1>4

\* What begins a call, and what drops a worktree, are steps of one call.
LEMMA OnlyTheCallMoves ==
    ASSUME TypeOK, NEW c \in Calls
    PROVE  /\ Begin(c) => pc'[c] = "lock" /\ \A d \in Calls \ {c} : pc'[d] = pc[d]
           /\ Drop(c) => pc'[c] = "dropped" /\ \A d \in Calls \ {c} : pc'[d] = pc[d]
BY DEF Begin, Drop, TypeOK

LEMMA HandlerStep ==
    ASSUME Inv, NEW c \in Calls, Handler(c)
    PROVE  ServiceTypeOK' /\ HandlerInv'
<1> USE AnalysesAssumption, NoneAssumption
<1>0. TypeOK /\ ServiceTypeOK /\ HandlerInv
  BY DEF Inv, TreeInv, TypeInv
<1>1. slot \in Analyses \cup {None} /\ None \notin Calls
  BY <1>0 DEF ServiceTypeOK
<1>2. c \in Analyses => /\ Active(c) <=> slot = c
                        /\ handler[c] \in {"new", "rules", "refused"} => pc[c] = "idle"
                        /\ handler[c] \in {"reply", "answered", "lost"} => pc[c] \in {"idle", "dropped", "failed"}
  BY <1>0 DEF HandlerInv
<1>3. CASE BadRequest(c)
  <2>1. HandlerGoes(c, "answered") /\ pc' = pc /\ slot' = slot /\ handler[c] = "new"
    BY <1>3 DEF BadRequest, Arrives, vars
  <2> QED
    BY <1>0, <1>1, <1>2, <2>1, HandlerGoesAlone DEF Handlers, Active
<1>4. CASE TakeSlot(c)
  <2>1. HandlerGoes(c, "rules") /\ pc' = pc /\ slot' = c /\ slot = None /\ c \in Analyses /\ handler[c] = "new"
    BY <1>4 DEF TakeSlot, Arrives, SlotFree, Analyzes, vars
  <2>2. \A d \in Calls \ {c} : pc'[d] = pc[d] /\ (slot' = d <=> slot = d)
    BY <1>1, <2>1
  <2> QED
    BY <1>0, <1>1, <1>2, <2>1, <2>2, HandlerGoesAlone DEF Handlers
<1>5. CASE SlotTaken(c)
  <2>1. HandlerGoes(c, "refused") /\ pc' = pc /\ slot' = slot /\ handler[c] = "new"
    BY <1>5 DEF SlotTaken, Arrives, vars
  <2> QED
    BY <1>0, <1>1, <1>2, <2>1, HandlerGoesAlone DEF Handlers, Active
<1>6. CASE ListBranches(c)
  <2>1. HandlerGoes(c, "source") /\ slot' = slot /\ c \notin Analyses /\ Begin(c)
    BY <1>6 DEF ListBranches
  <2> QED
    BY <1>0, <1>1, <2>1, OnlyTheCallMoves, HandlerGoesAlone DEF Handlers
<1>7. CASE BranchesListed(c)
  <2>1. HandlerGoes(c, "answered") /\ slot' = slot /\ c \notin Analyses /\ pc' = pc
    BY <1>7 DEF BranchesListed, vars
  <2> QED
    BY <1>0, <1>1, <2>1, HandlerGoesAlone DEF Handlers
<1>8. CASE RulesSuffice(c)
  <2>1. HandlerGoes(c, "reply") /\ slot' = slot /\ handler[c] = "rules" /\ pc' = pc
    BY <1>8 DEF RulesSuffice, vars
  <2> QED
    BY <1>0, <1>1, <1>2, <2>1, HandlerGoesAlone DEF Handlers, Active
<1>9. CASE Reply(c)
  <2>1. HandlerGoes(c, "answered") /\ slot' = None /\ handler[c] = "reply" /\ pc' = pc /\ c \in Analyses
    BY <1>9 DEF Reply, Analyzes, vars
  <2>2. slot \in {None, c}
    BY <1>0, <1>1, <1>2, <2>1 DEF Active
  <2>3. \A d \in Calls \ {c} : pc'[d] = pc[d] /\ (slot' = d <=> slot = d)
    BY <1>1, <2>1, <2>2
  <2> QED
    BY <1>0, <1>1, <1>2, <2>1, <2>3, HandlerGoesAlone DEF Handlers
<1>10. CASE PrepareSource(c)
  <2>1. HandlerGoes(c, "source") /\ slot' = slot /\ handler[c] = "rules" /\ Begin(c)
    BY <1>10 DEF PrepareSource
  <2> QED
    BY <1>0, <1>1, <1>2, <2>1, OnlyTheCallMoves, HandlerGoesAlone DEF Handlers, Active
<1>11. CASE ManagerLocks(c) \/ ManagerWorks(c) \/ ManagerFetches(c) \/ GitIsKilled(c)
  <2>1. (Lock(c) \/ LocalCommand(c) \/ RemoteCommand(c)) /\ UNCHANGED serviceVars
    BY <1>11 DEF ManagerLocks, ManagerWorks, ManagerFetches, GitIsKilled, LocalCommand, RemoteCommand
  <2> QED
    BY <1>0, <2>1, HandlerWaits DEF serviceVars
<1>12. CASE SourceRead(c)
  <2>1. HandlerGoes(c, "reply") /\ slot' = slot /\ handler[c] = "source" /\ c \in Analyses
    BY <1>12 DEF SourceRead
  <2>2. pc'[c] \in {"dropped", "failed"} /\ \A d \in Calls \ {c} : pc'[d] = pc[d]
    BY <1>0, <1>12, OnlyTheCallMoves DEF SourceRead, vars
  <2> QED
    BY <1>0, <1>1, <1>2, <2>1, <2>2, HandlerGoesAlone DEF Handlers, Active
<1>13. CASE Panics(c)
  <2>1. /\ HandlerGoes(c, "answered") /\ slot' = SlotAfterPanic(c) /\ c \in Analyses
        /\ handler[c] \in {"rules", "source"}
    BY <1>13 DEF Panics
  <2>2. pc'[c] \in {"idle", "dropped"} /\ \A d \in Calls \ {c} : pc'[d] = pc[d]
    BY <1>0, <1>2, <1>13, OnlyTheCallMoves DEF Panics, vars
  <2>3. slot = c /\ slot' = None
    BY <1>2, <2>1 DEF Active, SlotAfterPanic
  <2>4. \A d \in Calls \ {c} : slot' = d <=> slot = d
    BY <1>1, <2>3
  <2> QED
    BY <1>0, <1>1, <2>1, <2>2, <2>3, <2>4, HandlerGoesAlone DEF Handlers
<1>14. CASE ContextEnds(c)
  <2>1. UNCHANGED <<pc, serviceVars>>
    BY <1>14 DEF ContextEnds, Expire, callVars
  <2> QED
    BY <1>0, <2>1 DEF serviceVars, ServiceTypeOK, HandlerInv, Active
<1> QED
  BY <1>3, <1>4, <1>5, <1>6, <1>7, <1>8, <1>9, <1>10, <1>11, <1>12, <1>13, <1>14, <1>1, Zenon
     DEF Handler

-----------------------------------------------------------------------------
(***************************************************************************)
(* The process                                                             *)
(***************************************************************************)
LEMMA ProcessStep ==
    ASSUME Inv, Process
    PROVE  ServiceTypeOK' /\ HandlerInv'
<1> USE MaxRestartsAssumption, NoneAssumption, AnalysesAssumption
<1>0. TypeOK /\ ServiceTypeOK /\ HandlerInv
  BY DEF Inv, TreeInv, TypeInv
<1>1. CASE Signalled \/ Drained \/ Starts
  <2>1. UNCHANGED <<pc, slot, handler>>
    BY <1>1 DEF Signalled, Drained, Starts, vars
  <2>2. ServiceTypeOK'
    BY <1>0, <1>1 DEF Signalled, Drained, Starts, ServiceTypeOK
  <2> QED
    BY <1>0, <2>1, <2>2 DEF HandlerInv, Active
<1>2. CASE Dies
  <2>1. UNCHANGED <<pc, slot, handler, starts>> /\ up' = "dying"
    BY <1>2 DEF Dies, callVars
  <2> QED
    BY <1>0, <2>1 DEF ServiceTypeOK, HandlerInv, Active
<1>3. CASE Exits
  <2>1. /\ up' = "gone" /\ slot' = None /\ starts' = starts
        /\ handler' = [c \in Calls |-> IF Active(c) THEN "lost" ELSE handler[c]]
        /\ pc' = [c \in Calls |-> IF pc[c] \in {"lock", "served"} THEN "dropped" ELSE pc[c]]
        /\ \A c \in Calls : pc[c] \notin Commands
    BY <1>3 DEF Exits
  <2>2. ServiceTypeOK'
    BY <1>0, <2>1 DEF ServiceTypeOK, Handlers
  <2>3. ASSUME NEW c \in Analyses
        PROVE  /\ handler'[c] \notin {"rules", "source", "reply"}
               /\ handler'[c] \in {"new", "rules", "refused"} => pc'[c] = "idle"
               /\ handler'[c] \in {"reply", "answered", "lost"} => pc'[c] \in {"idle", "dropped", "failed"}
    <3>1. /\ c \in Calls
          /\ handler'[c] = IF Active(c) THEN "lost" ELSE handler[c]
          /\ pc'[c] = IF pc[c] \in {"lock", "served"} THEN "dropped" ELSE pc[c]
          /\ pc[c] \in Steps \ Commands
      BY <1>0, <2>1 DEF TypeOK
    <3> QED
      BY <1>0, <3>1 DEF HandlerInv, Active, Steps
  <2>4. HandlerInv'
    BY <2>1, <2>3 DEF HandlerInv, Active
  <2> QED
    BY <2>2, <2>4
<1> QED
  BY <1>1, <1>2, <1>3 DEF Process, ShutdownExpires, Crashes

LEMMA InvStep == Inv /\ [ServiceNext]_allVars => Inv'
<1> SUFFICES ASSUME Inv, [ServiceNext]_allVars
             PROVE  ServiceTypeOK' /\ HandlerInv'
  BY TreesUnderService DEF Inv
<1>1. CASE \E c \in Calls : Handler(c)
  BY <1>1, HandlerStep
<1>2. CASE Process
  BY <1>2, ProcessStep
<1>3. CASE (RemoteMoves /\ UNCHANGED serviceVars) \/ UNCHANGED allVars
  <2>1. UNCHANGED <<pc, serviceVars>>
    BY <1>3 DEF RemoteMoves, callVars, allVars, vars
  <2> QED
    BY <2>1 DEF Inv, serviceVars, ServiceTypeOK, HandlerInv, Active
<1> QED
  BY <1>1, <1>2, <1>3 DEF ServiceNext

LEMMA InvHolds == ServiceSpec => []Inv
<1>1. ServiceInit => Inv
  BY ServiceInitInv
<1>2. Inv /\ [ServiceNext]_allVars => Inv'
  BY InvStep
<1> QED
  BY <1>1, <1>2, PTL DEF ServiceSpec

-----------------------------------------------------------------------------
\* Every variable of the process keeps to its set: analyzeSlots never holds but an
\* analysis, and no handler leaves its states.
THEOREM ServiceTypeCorrect == ServiceSpec => []ServiceTypeOK
<1>1. Inv => ServiceTypeOK
  BY DEF Inv
<1> QED
  BY <1>1, InvHolds, PTL

\* analyzeSlots belongs to the one analysis that runs, whatever panics, leaves or
\* dies, and in each run of the process anew.
THEOREM OneAnalysisHolds == ServiceSpec => []OneAnalysis
<1>1. Inv => OneAnalysis
  <2> SUFFICES ASSUME Inv, NEW c \in Analyses
               PROVE  /\ Active(c) <=> slot = c
                      /\ pc[c] \notin {"idle", "dropped", "failed"} => slot = c
    BY DEF OneAnalysis
  <2>1. handler[c] \in Handlers
    BY AnalysesAssumption DEF Inv, ServiceTypeOK
  <2> QED
    BY <2>1 DEF Inv, HandlerInv, Active, Handlers
<1> QED
  BY <1>1, InvHolds, PTL

\* The answer 429 of the select is given to a request only while another analysis
\* runs: a slot that was lost would refuse them for ever.
THEOREM RefusedOnlyWhileBusyHolds == ServiceSpec => RefusedOnlyWhileBusy
<1> DEFINE A == \A c \in Analyses : handler'[c] = "refused" /\ handler[c] # "refused" =>
                    \E d \in Analyses \ {c} : Active(d)
<1>1. Inv /\ [ServiceNext]_allVars => [A]_allVars
  <2> SUFFICES ASSUME Inv, ServiceNext, NEW c \in Analyses,
                      handler'[c] = "refused", handler[c] # "refused"
               PROVE  \E d \in Analyses \ {c} : Active(d)
    BY DEF allVars, serviceVars
  <2>0. handler \in [Calls -> Handlers] /\ c \in Calls
    BY AnalysesAssumption DEF Inv, ServiceTypeOK
  <2>1. SlotTaken(c)
    <3>1. ~Process
      BY <2>0 DEF Process, Signalled, Drained, ShutdownExpires, Crashes, Dies, Exits, Starts
    <3>2. PICK d \in Calls : Handler(d)
      BY <3>1 DEF ServiceNext, serviceVars
    <3>3. \/ SlotTaken(d)
          \/ \E h \in Handlers \ {"refused"} : handler' = [handler EXCEPT ![d] = h]
          \/ handler' = handler
      BY <3>2 DEF Handler, BadRequest, TakeSlot, ListBranches, RulesSuffice, PrepareSource,
                  ManagerLocks, ManagerWorks, ManagerFetches, SourceRead, BranchesListed, Reply,
                  Panics, ContextEnds, GitIsKilled, HandlerGoes, serviceVars, Handlers
    <3>4. SlotTaken(d)
      BY <2>0, <3>3
    <3>5. d = c
      BY <2>0, <3>4 DEF SlotTaken, HandlerGoes
    <3> QED
      BY <3>4, <3>5
  <2>2. slot \in Analyses /\ handler[c] = "new"
    BY <2>1 DEF SlotTaken, SlotFree, Arrives, Inv, ServiceTypeOK
  <2>3. Active(slot) /\ ~Active(c)
    BY <2>2 DEF Inv, HandlerInv, Active
  <2> QED
    BY <2>2, <2>3
<1> QED
  BY <1>1, InvHolds, PTL DEF ServiceSpec, RefusedOnlyWhileBusy

\* The worktree that an analysis reads stays whole at its commit though other
\* requests are killed, the process dies in a Git command, and the next one goes on
\* with the clone it left.
THEOREM TreesSurviveDeath == ServiceSpec => []TreeOfItsCommit
<1>1. Inv => TreeOfItsCommit
  BY DEF Inv, TreeInv
<1> QED
  BY <1>1, InvHolds, PTL
-----------------------------------------------------------------------------
(***************************************************************************)
(* Which commit is handed out, under the process                           *)
(***************************************************************************)
\* Of the calls that a dying process ends, none hands out a commit any more, and
\* the next process begins none of them again.
LEMMA DeathKeepsCommits ==
    ASSUME CommitInv, Dies \/ Exits
    PROVE  FreshInv' /\ FallbackInv'
<1> USE DEF CommitInv, TypeInv
<1>1. CASE Dies
  <2>1. /\ UNCHANGED <<pc, kind, ref, commit, missed, seen, remote, refs>>
        /\ \A c \in Calls : expired[c] => expired'[c]
    BY <1>1 DEF Dies, callVars, remoteVars, diskVars, TypeOK
  <2>2. FreshInv'
    BY <2>1 DEF FreshInv, Running, Reads
  <2>3. FallbackInv'
    BY <2>1 DEF FallbackInv, Missing
  <2> QED
    BY <2>2, <2>3
<1>2. CASE Exits
  <2>1. /\ UNCHANGED <<kind, ref, commit, missed, expired, seen, remote, refs>>
        /\ \A c \in Calls : pc'[c] = pc[c] \/ pc'[c] = "dropped"
    BY <1>2 DEF Exits, remoteVars, diskVars
  <2>2. FreshInv'
    BY <2>1 DEF FreshInv, Running, Reads, Commands
  <2>3. FallbackInv'
    BY <2>1 DEF FallbackInv, Missing
  <2> QED
    BY <2>2, <2>3
<1> QED
  BY <1>1, <1>2

LEMMA CommitsUnderService == Inv /\ CommitInv /\ [ServiceNext]_allVars => CommitInv'
<1> SUFFICES ASSUME Inv, CommitInv, [ServiceNext]_allVars
             PROVE  CommitInv'
  OBVIOUS
<1>1. [Next]_vars \/ Dies \/ Exits
  BY ManagerStep DEF allVars
<1>2. TypeInv'
  BY TreesUnderService DEF TreeInv
<1> QED
  BY <1>1, <1>2, CommitStep, DeathKeepsCommits DEF CommitInv

LEMMA CommitsOfProcess == ServiceSpec => []CommitInv
<1>1. ServiceInit => CommitInv
  BY CommitInit DEF ServiceInit
<1> QED
  BY <1>1, CommitsUnderService, InvHolds, PTL DEF ServiceSpec

\* The commit of an analysis is one that its branch or tag had at the remote while
\* the request ran, though the clone it was read from is another process's that died
\* in a fetch or in the configuration of its origin.
THEOREM CommitIsFreshAcrossRestarts == ServiceSpec => []CommitIsFresh
<1>1. CommitInv => CommitIsFresh
  BY DEF CommitInv, FreshInv, CommitIsFresh
<1> QED
  BY <1>1, CommitsOfProcess, PTL

\* Prepare falls back to master for a tag and a branch that were missing or whose
\* lookup failed by itself, never because the request or the process ended amid them.
THEOREM FallbackIsJustifiedAcrossRestarts == ServiceSpec => []FallbackIsJustified
<1>1. CommitInv => FallbackIsJustified
  BY DEF CommitInv, FallbackInv, FallbackIsJustified, Missing, Reads
<1> QED
  BY <1>1, CommitsOfProcess, PTL
=============================================================================
