--------------------------- MODULE MCMonitorFaults ---------------------------
(***************************************************************************)
(* The monitor with a sandbox that may exit at any point: the counts of    *)
(* the liveness run, so that cycles mitigate and strip.                    *)
(***************************************************************************)
EXTENDS MonitorFaults

MCFaultCounts == {40, 450}
=============================================================================
