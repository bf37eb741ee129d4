---------------------------- MODULE SourceManager ----------------------------
(***************************************************************************)
(* source.Manager: the Volcano sources of the analyses, in one Git clone   *)
(* and the worktrees beside it.  Every call runs Git commands under one    *)
(* mutex.  A command whose context ends is killed, and leaves on disk what *)
(* it had done: some refs, half a worktree, its lock files.                *)
(*                                                                         *)
(* Callers are ListBranches (GET /branches), whose context ends only when  *)
(* its client leaves, and PrepareBranch and Prepare (the LLM fallback of   *)
(* an analysis), whose context has the analysis timeout.                   *)
(***************************************************************************)
EXTENDS Naturals, FiniteSets

CONSTANTS
    Calls,    \* calls of the manager
    Analyses, \* those of an analysis; the others are of ListBranches
    Commits,  \* commits a ref may point to
    Updates,  \* VOLCANO_GIT_UPDATE is not "false"
    MaxMoves, \* bound on the changes of the remote
    None      \* no commit, no call, no ref

ASSUME NoneAssumption == None \notin Calls \cup Commits
ASSUME AnalysesAssumption == Analyses \subseteq Calls
ASSUME UpdatesAssumption == Updates \in BOOLEAN
ASSUME MaxMovesAssumption == MaxMoves \in Nat

\* What one version may be called: a tag, or a branch of the remote.  The
\* spellings of a tag and of a branch that resolveRef tries count as one each.
Refs == {"tag", "branch", "master"}

\* ListBranches, PrepareBranch (a branch was selected) and Prepare.
Kinds(c) == IF c \in Analyses THEN {"branch", "tag"} ELSE {"list"}

\* The commands of a call, in their order, and how it ended.
Commands == {"validate", "config", "fetch", "resolve", "parse", "tree"}
Steps    == {"idle", "lock", "served", "dropped", "failed"} \cup Commands
Ended    == {"served", "dropped", "failed"}

VARIABLES
    mu,      \* Manager.mu: the call that holds it
    pc,      \* the step of each call
    kind,    \* which operation it is
    expired, \* its context is done
    ref,     \* the ref it resolved
    commit,  \* the commit of that ref
    missed,  \* a lookup of it failed though its context was not done
    seen,    \* what each ref of the remote was since the call began
    remote,  \* the refs of the remote
    moves,   \* changes of the remote so far
    refs,    \* the refs of the clone
    locks,   \* lock files that killed commands left behind
    trees    \* the worktrees

callVars == <<pc, kind, ref, commit, missed>>
diskVars == <<refs, locks, trees>>
remoteVars == <<remote, moves>>
vars == <<mu, pc, kind, expired, ref, commit, missed, seen, remote, moves, refs,
          locks, trees>>

\* The name without the commit (a fault the runs must see).
TreeOfRef(c, k) ==
    <<IF kind[c] = "branch" THEN "chosen" ELSE ref[c], CHOOSE any \in Commits : TRUE>>

\* branchWorktreeName: the branch, or "auto-" and the ref, and the commit.
TreeName(c, k) == <<IF kind[c] = "branch" THEN "chosen" ELSE ref[c], k>>

TreeNames == (Refs \cup {"chosen"}) \X Commits

\* The lock files of the clone; a worktree has one of its own.
ConfigLock == <<"config">>
RefsLock   == <<"refs">>

\* A worktree has the files of one commit, or not all of them; without its .git
\* file no Git command can be run in it.
Trees  == [there : BOOLEAN, git : BOOLEAN, files : Commits \cup {None}]
NoTree == [there |-> FALSE, git |-> FALSE, files |-> None]
Whole(k) == [there |-> TRUE, git |-> TRUE, files |-> k]

\* What a killed "git worktree add" may leave.
Halves == {NoTree,
           [there |-> TRUE, git |-> FALSE, files |-> None],
           [there |-> TRUE, git |-> TRUE, files |-> None]}

\* The clone starts as the image, or an earlier run, left it: some state of the
\* remote, from which it has moved on since.
Init ==
    /\ mu = None
    /\ pc = [c \in Calls |-> "idle"]
    /\ kind \in [Calls -> {"list", "branch", "tag"}]
    /\ \A c \in Calls : kind[c] \in Kinds(c)
    /\ expired = [c \in Calls |-> FALSE]
    /\ ref = [c \in Calls |-> None]
    /\ commit = [c \in Calls |-> None]
    /\ missed = [c \in Calls |-> FALSE]
    /\ seen = [c \in Calls |-> [r \in Refs |-> {}]]
    /\ \E k \in Commits : remote \in [Refs -> {k, None}]
    /\ moves = 0
    /\ refs = remote
    /\ locks = {}
    /\ trees = [t \in TreeNames |-> NoTree]

-----------------------------------------------------------------------------
(***************************************************************************)
(* The environment                                                         *)
(***************************************************************************)
\* Somebody pushes to a branch or a tag of the remote, or deletes it.
RemoteMoves ==
    /\ moves < MaxMoves
    /\ moves' = moves + 1
    /\ \E r \in Refs, k \in Commits \cup {None} :
          /\ k # remote[r]
          /\ remote' = [remote EXCEPT ![r] = k]
          /\ seen' = [c \in Calls |-> IF pc[c] \in {"idle"} \cup Ended THEN seen[c]
                                      ELSE [seen[c] EXCEPT ![r] = @ \cup {k}]]
    /\ UNCHANGED <<mu, callVars, expired, diskVars>>

\* The analysis timeout, or a client that went away, before the call or in it.
Expire(c) ==
    /\ pc[c] \notin Ended
    /\ ~expired[c]
    /\ expired' = [expired EXCEPT ![c] = TRUE]
    /\ UNCHANGED <<mu, callVars, seen, remoteVars, diskVars>>

-----------------------------------------------------------------------------
(***************************************************************************)
(* A call.  No command is started, and none succeeds, after its context is *)
(* done.                                                                   *)
(***************************************************************************)
Begin(c) ==
    /\ pc[c] = "idle"
    /\ pc' = [pc EXCEPT ![c] = "lock"]
    /\ seen' = [seen EXCEPT ![c] = [r \in Refs |-> {remote[r]}]]
    /\ UNCHANGED <<mu, kind, expired, ref, commit, missed, remoteVars, diskVars>>

\* The call does not wait for the mutex (a fault the runs must see).
MutexIgnored == TRUE

MutexFree == mu = None

\* Only PrepareBranch validates its argument.
Lock(c) ==
    /\ pc[c] = "lock"
    /\ MutexFree
    /\ mu' = c
    /\ pc' = [pc EXCEPT ![c] = IF kind[c] = "branch" THEN "validate" ELSE "config"]
    /\ UNCHANGED <<kind, expired, ref, commit, missed, seen, remoteVars, diskVars>>

\* Git is run without the context of the call (a fault the runs must see).
RunsWithoutContext(c, command) == pc[c] = command

Runs(c, command) ==
    /\ pc[c] = command
    /\ ~expired[c]

Goes(c, command) ==
    /\ pc' = [pc EXCEPT ![c] = command]
    /\ UNCHANGED <<mu, kind, expired, seen, remoteVars>>

\* A return without the Unlock (a fault the runs must see).
MutexKept == mu

\* The deferred Unlock.
Unlocked == None

Return(c, ending) ==
    /\ pc' = [pc EXCEPT ![c] = ending]
    /\ mu' = Unlocked
    /\ UNCHANGED <<kind, expired, seen, remoteVars>>

ValidateBranch(c) ==
    /\ Runs(c, "validate")
    /\ Goes(c, "config")
    /\ UNCHANGED <<ref, commit, missed, diskVars>>

\* What follows the repository: ListBranches reads its refs, the others one.
Prepared(c) == IF kind[c] = "list" THEN "served" ELSE "resolve"

\* configureOrigin writes the URL and the refspecs of the remote.
ConfigureOrigin(c) ==
    /\ Runs(c, "config")
    /\ ConfigLock \notin locks
    /\ \/ Updates /\ Goes(c, "fetch")
       \/ ~Updates /\ Prepared(c) = "resolve" /\ Goes(c, "resolve")
       \/ ~Updates /\ Prepared(c) = "served" /\ Return(c, "served")
    /\ UNCHANGED <<ref, commit, missed, diskVars>>

\* A fetch that did not come to its end is ignored (a fault the runs must see).
FetchedInPart(r) == {refs[r], remote[r]}

\* The refs of the clone become those of the remote; others are pruned.
Fetched(r) == {remote[r]}

Fetch(c) ==
    /\ Runs(c, "fetch")
    /\ RefsLock \notin locks
    /\ refs' \in {f \in [Refs -> Commits \cup {None}] : \A r \in Refs : f[r] \in Fetched(r)}
    /\ \/ Prepared(c) = "resolve" /\ Goes(c, "resolve")
       \/ Prepared(c) = "served" /\ Return(c, "served")
    /\ UNCHANGED <<ref, commit, missed, locks, trees>>

\* PrepareBranch takes its branch and no other.
ResolveBranch(c) ==
    /\ Runs(c, "resolve")
    /\ kind[c] = "branch"
    /\ refs["branch"] # None
    /\ ref' = [ref EXCEPT ![c] = "branch"]
    /\ Goes(c, "parse")
    /\ UNCHANGED <<commit, missed, diskVars>>

\* resolveRef: the tag, or the branch, or master.  A lookup that fails, killed
\* or for another reason, counts as one that found nothing.
Resolved(found) ==
    IF "tag" \in found THEN "tag"
    ELSE IF "branch" \in found THEN "branch" ELSE "master"

ResolveTag(c) ==
    /\ pc[c] = "resolve"
    /\ kind[c] = "tag"
    /\ LET existing == {r \in {"tag", "branch"} : refs[r] # None}
       IN \E found \in SUBSET existing :
             /\ ref' = [ref EXCEPT ![c] = Resolved(found)]
             /\ missed' = [missed EXCEPT ![c] = found # existing /\ ~expired[c]]
    /\ Goes(c, "parse")
    /\ UNCHANGED <<commit, diskVars>>

\* rev-parse fails if the context is done or the ref is not there.
ParseCommit(c) ==
    /\ Runs(c, "parse")
    /\ refs[ref[c]] # None
    /\ commit' = [commit EXCEPT ![c] = refs[ref[c]]]
    /\ Goes(c, "tree")
    /\ UNCHANGED <<ref, missed, diskVars>>

AddWorktree(c) ==
    LET t == TreeName(c, commit[c])
    IN /\ Runs(c, "tree")
       /\ ~trees[t].there
       /\ t \notin locks
       /\ trees' = [trees EXCEPT ![t] = Whole(commit[c])]
       /\ Return(c, "served")
       /\ UNCHANGED <<ref, commit, missed, refs, locks>>

\* A worktree that is there is taken as it is (a fault the runs must see).
CheckOutOmitted(c) ==
    /\ Runs(c, "tree")
    /\ trees[TreeName(c, commit[c])].there
    /\ Return(c, "served")
    /\ UNCHANGED <<ref, commit, missed, diskVars>>

\* A worktree that is there is checked out again, whatever it holds.
CheckOutWorktree(c) ==
    LET t == TreeName(c, commit[c])
    IN /\ Runs(c, "tree")
       /\ trees[t].there
       /\ trees[t].git
       /\ t \notin locks
       /\ trees' = [trees EXCEPT ![t] = Whole(commit[c])]
       /\ Return(c, "served")
       /\ UNCHANGED <<ref, commit, missed, refs, locks>>

-----------------------------------------------------------------------------
(***************************************************************************)
(* Commands that fail.  A killed one may leave the lock file it had taken. *)
(***************************************************************************)
Left(c, lock) == {locks} \cup IF expired[c] THEN {locks \cup {lock}} ELSE {}

\* A command that changes nothing, or fails before it does.
CommandFails(c) ==
    /\ pc[c] \in Commands
    /\ Return(c, "failed")
    /\ UNCHANGED <<ref, commit, missed, diskVars>>

ConfigureOriginKilled(c) ==
    /\ pc[c] = "config"
    /\ locks' \in Left(c, ConfigLock)
    /\ Return(c, "failed")
    /\ UNCHANGED <<ref, commit, missed, refs, trees>>

\* Some refs are already those of the remote.
FetchBreaksOff(c) ==
    /\ pc[c] = "fetch"
    /\ refs' \in {f \in [Refs -> Commits \cup {None}] :
                    \A r \in Refs : f[r] \in {refs[r], remote[r]}}
    /\ locks' \in Left(c, RefsLock)
    /\ Return(c, "failed")
    /\ UNCHANGED <<ref, commit, missed, trees>>

AddWorktreeBreaksOff(c) ==
    LET t == TreeName(c, commit[c])
    IN /\ pc[c] = "tree"
       /\ ~trees[t].there
       /\ locks' \in Left(c, t)
       /\ \E half \in Halves : trees' = [trees EXCEPT ![t] = half]
       /\ Return(c, "failed")
       /\ UNCHANGED <<ref, commit, missed, refs>>

\* A worktree that is whole is not written again; another loses what it had.
CheckOutWorktreeBreaksOff(c) ==
    LET t == TreeName(c, commit[c])
    IN /\ pc[c] = "tree"
       /\ trees[t].there
       /\ trees[t].git
       /\ locks' \in Left(c, t)
       /\ trees' = IF trees[t] = Whole(commit[c]) THEN trees
                   ELSE [trees EXCEPT ![t].files = None]
       /\ Return(c, "failed")
       /\ UNCHANGED <<ref, commit, missed, refs>>

\* The analysis ends, and with it the use of the worktree.
Drop(c) ==
    /\ pc[c] = "served"
    /\ pc' = [pc EXCEPT ![c] = "dropped"]
    /\ UNCHANGED <<mu, kind, expired, ref, commit, missed, seen, remoteVars, diskVars>>

-----------------------------------------------------------------------------
\* The local commands of a call: they end by themselves.
LocalCommand(c) ==
    \/ ValidateBranch(c)
    \/ ConfigureOrigin(c)
    \/ ResolveBranch(c)
    \/ ResolveTag(c)
    \/ ParseCommit(c)
    \/ AddWorktree(c)
    \/ CheckOutWorktree(c)
    \/ ConfigureOriginKilled(c)
    \/ AddWorktreeBreaksOff(c)
    \/ CheckOutWorktreeBreaksOff(c)
    \/ CommandFails(c)

\* The fetch, which waits for the remote.
RemoteCommand(c) ==
    \/ Fetch(c)
    \/ FetchBreaksOff(c)

Call(c) ==
    \/ Begin(c)
    \/ Lock(c)
    \/ LocalCommand(c)
    \/ RemoteCommand(c)
    \/ Drop(c)

Next ==
    \/ \E c \in Calls : Call(c) \/ Expire(c)
    \/ RemoteMoves

\* Go grants the mutex to each waiter; a local command ends, by itself or killed;
\* the timeout of an analysis passes.  A remote need not answer, the client of
\* ListBranches need not leave, and a fetch that is killed need not end either:
\* gitOutput waits until the transport that git started has closed its output.
Fairness ==
    \A c \in Calls :
        /\ SF_vars(Lock(c))
        /\ WF_vars(pc[c] # "fetch" /\ LocalCommand(c))
        /\ WF_vars(c \in Analyses /\ Expire(c))

Spec == Init /\ [][Next]_vars /\ Fairness

-----------------------------------------------------------------------------
\* Every variable keeps to its set, and the call that holds the mutex is the
\* one that runs Git commands.
TypeOK ==
    /\ mu \in Calls \cup {None}
    /\ pc \in [Calls -> Steps]
    /\ \A c \in Calls : pc[c] \in Commands <=> mu = c
    /\ kind \in [Calls -> {"list", "branch", "tag"}]
    /\ \A c \in Calls : kind[c] \in Kinds(c)
    /\ expired \in [Calls -> BOOLEAN]
    /\ ref \in [Calls -> Refs \cup {None}]
    /\ commit \in [Calls -> Commits \cup {None}]
    /\ missed \in [Calls -> BOOLEAN]
    /\ seen \in [Calls -> [Refs -> SUBSET (Commits \cup {None})]]
    /\ remote \in [Refs -> Commits \cup {None}]
    /\ moves \in 0 .. MaxMoves
    /\ refs \in [Refs -> Commits \cup {None}]
    /\ locks \in SUBSET ({ConfigLock, RefsLock} \cup TreeNames)
    /\ trees \in [TreeNames -> Trees]

\* The caller that was handed a worktree reads it.
Reads(c) == pc[c] = "served" /\ kind[c] # "list"

\* PrepareBranch and Prepare return the worktree whole, at its commit, and it
\* stays so while its analysis reads it: whatever later calls check out, and
\* wherever they are killed.
TreeOfItsCommit ==
    \A c \in Calls : Reads(c) => trees[TreeName(c, commit[c])] = Whole(commit[c])

\* The commit handed out is one the remote's ref had during the call: neither
\* one the clone had before, nor one of a fetch that broke off.
CommitIsFresh ==
    \A c \in Calls : Updates /\ Reads(c) => commit[c] \in seen[c][ref[c]]

\* Prepare falls back to master only if the tag and the branch were both missing
\* during the call, or their lookups failed for another reason than the
\* timeout: a timeout between two lookups selects no other source.
FallbackIsJustified ==
    \A c \in Calls :
        Updates /\ Reads(c) /\ kind[c] = "tag" /\ ref[c] = "master" =>
            missed[c] \/ None \in seen[c]["tag"] \cap seen[c]["branch"]

Waits(c) == pc[c] \in {"lock"} \cup Commands

\* Every call of the manager returns, if no fetch waits for ever: killed
\* commands and the files they leave behind keep no other call from returning.
EveryCallReturns ==
    (\A c \in Calls : []<>(pc[c] # "fetch")) =>
        \A c \in Calls : Waits(c) ~> ~Waits(c)

\* README.md:131, "Overall timeout for one analysis": once its timeout has
\* passed, an analysis does not go on waiting for the mutex.
AnalysisTimeoutHolds ==
    \A c \in Analyses : expired[c] /\ pc[c] = "lock" ~> pc[c] # "lock"
=============================================================================
