-------------------------------- MODULE Service --------------------------------
(***************************************************************************)
(* The process: its HTTP handlers, the slot of the analyses, and how it    *)
(* ends, composed with the source manager that the handlers share.         *)
(*                                                                         *)
(* A call of SourceManager belongs to the handler of one request: one of   *)
(* Analyses is a POST /analyze, any other a GET /branches.  The rules of an *)
(* analysis are one step (AnalysisPipeline), and so is what it does with   *)
(* its worktree.                                                           *)
(*                                                                         *)
(* The process stops for a signal, or it dies at any moment, and may start *)
(* again on the clone it left behind.                                      *)
(***************************************************************************)
EXTENDS SourceManager

CONSTANT MaxRestarts \* bound on the starts after the first

ASSUME MaxRestartsAssumption == MaxRestarts \in Nat

VARIABLES
    up,      \* whether the process serves, waits for its handlers, dies or is gone
    slot,    \* analyzeSlots: the request that has it
    handler, \* where the handler of each request is
    starts   \* starts after the first

serviceVars == <<up, slot, handler, starts>>
allVars == <<vars, serviceVars>>

\* "refused" is answered with 429, and "answered" with anything else.
Handlers == {"new", "rules", "source", "reply", "answered", "refused", "lost"}

Active(c) == handler[c] \in {"rules", "source", "reply"}
Alive == up \in {"serving", "draining"}

ServiceInit ==
    /\ Init
    /\ up = "serving"
    /\ slot = None
    /\ handler = [c \in Calls |-> "new"]
    /\ starts = 0

-----------------------------------------------------------------------------
(***************************************************************************)
(* Requests                                                                *)
(***************************************************************************)
Arrives(c) ==
    /\ up = "serving"
    /\ handler[c] = "new"

HandlerGoes(c, h) ==
    /\ Alive
    /\ handler' = [handler EXCEPT ![c] = h]
    /\ UNCHANGED <<up, starts>>

\* The slot is one of all requests (a fault the runs must see).
AnyRequest(c) == TRUE

\* POST /analyze.
Analyzes(c) == c \in Analyses

\* decodeAnalyzeRequest fails, or namespace and pod are not both given.
BadRequest(c) ==
    /\ Analyzes(c)
    /\ Arrives(c)
    /\ HandlerGoes(c, "answered")
    /\ UNCHANGED <<vars, slot>>

\* Requests do not look at the slot (a fault the runs must see).
SlotIgnored == TRUE

SlotFree == slot = None

\* The select takes the slot if it can; it never waits.
TakeSlot(c) ==
    /\ Analyzes(c)
    /\ Arrives(c)
    /\ SlotFree
    /\ slot' = c
    /\ HandlerGoes(c, "rules")
    /\ UNCHANGED vars

SlotTaken(c) ==
    /\ Analyzes(c)
    /\ Arrives(c)
    /\ ~SlotFree
    /\ HandlerGoes(c, "refused")
    /\ UNCHANGED <<vars, slot>>

\* The report needs no sources: the target is not there, or no scheduler is.
RulesSuffice(c) ==
    /\ handler[c] = "rules"
    /\ HandlerGoes(c, "reply")
    /\ UNCHANGED <<vars, slot>>

PrepareSource(c) ==
    /\ handler[c] = "rules"
    /\ Begin(c)
    /\ HandlerGoes(c, "source")
    /\ UNCHANGED slot

\* GET /branches, which needs no slot.
ListBranches(c) ==
    /\ c \notin Analyses
    /\ Arrives(c)
    /\ Begin(c)
    /\ HandlerGoes(c, "source")
    /\ UNCHANGED slot

\* The manager works for the request.
ManagerLocks(c)   == Alive /\ Lock(c) /\ UNCHANGED serviceVars
ManagerWorks(c)   == Alive /\ LocalCommand(c) /\ UNCHANGED serviceVars
ManagerFetches(c) == Alive /\ RemoteCommand(c) /\ UNCHANGED serviceVars

\* The analysis has read its worktree, or there is none.
SourceRead(c) ==
    /\ c \in Analyses
    /\ handler[c] = "source"
    /\ \/ Drop(c)
       \/ pc[c] = "failed" /\ UNCHANGED vars
    /\ HandlerGoes(c, "reply")
    /\ UNCHANGED slot

BranchesListed(c) ==
    /\ c \notin Analyses
    /\ handler[c] = "source"
    /\ pc[c] \in {"served", "failed"}
    /\ HandlerGoes(c, "answered")
    /\ UNCHANGED <<vars, slot>>

\* The slot is given back by the code after Analyze, not by a deferred function:
\* a panic passes it by (a fault the runs must see).
SlotLost(c) == slot

\* The deferred functions give the slot back.
SlotAfterPanic(c) == IF slot = c THEN None ELSE slot

\* Analyze returned a report or an error.
Reply(c) ==
    /\ Analyzes(c)
    /\ handler[c] = "reply"
    /\ HandlerGoes(c, "answered")
    /\ slot' = None
    /\ UNCHANGED vars

\* A rule, or what reads the worktree, panics, and gin recovers.
Panics(c) ==
    /\ c \in Analyses
    /\ \/ handler[c] = "rules" /\ UNCHANGED vars
       \/ handler[c] = "source" /\ Drop(c)
    /\ HandlerGoes(c, "answered")
    /\ slot' = SlotAfterPanic(c)

\* The client leaves, or the timeout of the analysis passes.
ContextEnds(c) ==
    /\ Alive
    /\ handler[c] \in {"rules", "source"}
    /\ Expire(c)
    /\ UNCHANGED serviceVars

-----------------------------------------------------------------------------
(***************************************************************************)
(* The process                                                             *)
(***************************************************************************)
\* SIGTERM: serve calls Shutdown, which accepts no request any more.
Signalled ==
    /\ up = "serving"
    /\ up' = "draining"
    /\ UNCHANGED <<vars, slot, handler, starts>>

Drained ==
    /\ up = "draining"
    /\ \A c \in Calls : ~Active(c)
    /\ up' = "gone"
    /\ UNCHANGED <<vars, slot, handler, starts>>

\* The process goes while handlers run; Git is killed wherever it is.  With no
\* handler there is nothing to lose, and Drained shows it.
Dies ==
    /\ \E c \in Calls : Active(c)
    /\ up' = "dying"
    /\ expired' = [c \in Calls |-> expired[c] \/ Active(c)]
    /\ UNCHANGED <<mu, callVars, seen, remoteVars, diskVars, slot, handler, starts>>

\* Shutdown is given no deadline (a fault the runs must see).
WaitsForHandlers == FALSE

\* The five seconds that Shutdown is given.
GracePasses == up = "draining"

\* serve closes the connections and returns, and main with it.
ShutdownExpires ==
    /\ GracePasses
    /\ Dies

\* An unrecovered panic, or the container is killed.
Crashes ==
    /\ up = "serving"
    /\ Dies

\* The Git command that was under way is killed.
GitIsKilled(c) ==
    /\ up = "dying"
    /\ \/ ConfigureOriginKilled(c)
       \/ FetchBreaksOff(c)
       \/ AddWorktreeBreaksOff(c)
       \/ CheckOutWorktreeBreaksOff(c)
       \/ CommandFails(c)
    /\ UNCHANGED serviceVars

\* All that was in memory is lost.
Exits ==
    /\ up = "dying"
    /\ \A c \in Calls : pc[c] \notin Commands
    /\ up' = "gone"
    /\ slot' = None
    /\ handler' = [c \in Calls |-> IF Active(c) THEN "lost" ELSE handler[c]]
    /\ pc' = [c \in Calls |-> IF pc[c] \in {"lock", "served"} THEN "dropped" ELSE pc[c]]
    /\ UNCHANGED <<mu, kind, ref, commit, missed, expired, seen, remoteVars, diskVars,
                   starts>>

\* A new container starts as ServiceInit does.  A process outside of one, or a
\* container that is started again, finds the clone as it was left.
Starts ==
    /\ up = "gone"
    /\ starts < MaxRestarts
    /\ starts' = starts + 1
    /\ up' = "serving"
    /\ UNCHANGED <<vars, slot, handler>>

-----------------------------------------------------------------------------
Handler(c) ==
    \/ BadRequest(c)
    \/ TakeSlot(c)
    \/ SlotTaken(c)
    \/ ListBranches(c)
    \/ RulesSuffice(c)
    \/ PrepareSource(c)
    \/ ManagerLocks(c)
    \/ ManagerWorks(c)
    \/ ManagerFetches(c)
    \/ SourceRead(c)
    \/ BranchesListed(c)
    \/ Reply(c)
    \/ Panics(c)
    \/ ContextEnds(c)
    \/ GitIsKilled(c)

Process ==
    \/ Signalled
    \/ Drained
    \/ ShutdownExpires
    \/ Crashes
    \/ Exits
    \/ Starts

ServiceNext ==
    \/ \E c \in Calls : Handler(c)
    \/ Process
    \/ RemoteMoves /\ UNCHANGED serviceVars

\* Handlers run, with the fairness of SourceManager: Go grants the mutex, local
\* commands end and the timeout of an analysis passes, but a fetch need not end.
\* The rules end (AnalysisPipeline).  The grace of Shutdown passes, and what is
\* killed with the process ends.  Nobody need send a request or leave.
ServiceFairness ==
    /\ \A c \in Calls :
          /\ SF_allVars(ManagerLocks(c))
          /\ WF_allVars(pc[c] # "fetch" /\ ManagerWorks(c))
          /\ WF_allVars(c \in Analyses /\ ContextEnds(c))
          /\ WF_allVars(RulesSuffice(c) \/ PrepareSource(c))
          /\ WF_allVars(SourceRead(c))
          /\ WF_allVars(BranchesListed(c))
          /\ WF_allVars(Reply(c))
          /\ WF_allVars(GitIsKilled(c))
    /\ WF_allVars(Drained)
    /\ WF_allVars(ShutdownExpires)
    /\ WF_allVars(Exits)

ServiceSpec == ServiceInit /\ [][ServiceNext]_allVars /\ ServiceFairness

-----------------------------------------------------------------------------
\* Every variable of the process keeps to its set.
ServiceTypeOK ==
    /\ up \in {"serving", "draining", "dying", "gone"}
    /\ slot \in Analyses \cup {None}
    /\ handler \in [Calls -> Handlers]
    /\ starts \in 0 .. MaxRestarts

\* The slot is with the one analysis that runs, and free if none does: however
\* analyses end, and when a process died with one.  So at most one of them is in
\* the manager or reads a worktree, though the manager would admit more.
OneAnalysis ==
    \A c \in Analyses :
        /\ Active(c) <=> slot = c
        /\ pc[c] \notin {"idle", "dropped", "failed"} => slot = c

\* main.go:199, "another analysis is already running": nobody is refused but while
\* one is.
RefusedOnlyWhileBusy ==
    [][\A c \in Analyses : handler'[c] = "refused" /\ handler[c] # "refused" =>
           \E d \in Analyses \ {c} : Active(d)]_allVars

FetchesEnd == \A c \in Calls : []<>(pc[c] # "fetch")

\* The slot is given back on every path: a report, an error, a panic, a client
\* that left, a signal; as long as fetches end.
SlotComesBack ==
    FetchesEnd => \A c \in Analyses : slot = c ~> slot # c

\* The process ends after a signal, even if a fetch does not.
ServiceStops == up = "draining" ~> up = "gone"
=============================================================================
