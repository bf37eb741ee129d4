------------------------------ MODULE MCService ------------------------------
(***************************************************************************)
(* The process with a listing and two analyses.                            *)
(***************************************************************************)
EXTENDS Service

\* The analyses are of the same branch, so that they take the same worktree, and
\* the remote has all its refs.
MCInit ==
    /\ ServiceInit
    /\ \A c \in Analyses : kind[c] = "branch"
    /\ \A r \in Refs : remote[r] # None

\* The analyses are alike: the one that comes first may be any of the two.
First == CHOOSE c \in Analyses : TRUE
InTurn == \A c \in Analyses : handler'[c] # "new" => handler'[First] # "new"

MCSpec == MCInit /\ [][ServiceNext /\ InTurn]_allVars /\ ServiceFairness
=============================================================================
