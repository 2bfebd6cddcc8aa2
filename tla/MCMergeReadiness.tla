-------------------------- MODULE MCMergeReadiness --------------------------
(* Small instances of MergeReadiness for TLC.                              *)
EXTENDS MergeReadiness

CONSTANTS page1, page2

NoFaults == {}
=============================================================================
