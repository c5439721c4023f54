----------------------------- MODULE MCListener -----------------------------
(* Model-checking instance of Listener: the counts of the liveness run of  *)
(* Monitor, and a pipe that can hold two directives.                       *)
EXTENDS Listener

MCListenerCounts == {40, 450}
=============================================================================
