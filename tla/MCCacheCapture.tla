--------------------------- MODULE MCCacheCapture ---------------------------
(***************************************************************************)
(* Captures of the scheduler cache on small instances.                     *)
(***************************************************************************)
EXTENDS CacheCapture, TLC

\* Calls, Pods and nodes are told apart by nothing but their names.
Symmetry == Permutations(Captures) \cup Permutations(Pods) \cup Permutations(Nodes)
=============================================================================
