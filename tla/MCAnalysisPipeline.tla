------------------------ MODULE MCAnalysisPipeline ------------------------
(***************************************************************************)
(* The analysis pipeline on small sets of scheduler Pods and nodes.        *)
(***************************************************************************)
EXTENDS AnalysisPipeline, TLC

\* No operator tells two scheduler Pods, or two nodes, apart by name.
Symmetry == Permutations(Schedulers) \cup Permutations(Nodes)
=============================================================================
