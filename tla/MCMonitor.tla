------------------------------ MODULE MCMonitor ------------------------------
(***************************************************************************)
(* Model-checking instance of Monitor.  One address suffices: no decision  *)
(* of the loop depends on which address is sampled.  The counts reach     *)
(* each branch of an iteration: a strip (40), a count near the baseline    *)
(* that passes judge_delay (450), an outlier (3001), and, through the      *)
(* make-up step after a mitigation, some fifty compensated window values   *)
(* between them.  Every further count multiplies the window values the     *)
(* make-up step produces.                                                  *)
(***************************************************************************)
EXTENDS Monitor

MCCounts == {40, 450, 3001}

\* Counts without an outlier, for the warm-up run.
MCCountsNoOutlier == {40, 450}
=============================================================================
