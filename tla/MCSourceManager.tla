--------------------------- MODULE MCSourceManager ---------------------------
(***************************************************************************)
(* The source manager with two calls and two commits.                      *)
(***************************************************************************)
EXTENDS SourceManager
=============================================================================
