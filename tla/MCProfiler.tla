----------------------------- MODULE MCProfiler -----------------------------
(***************************************************************************)
(* The profiler controller on small inputs: ps outputs with no row, an     *)
(* idle row only, and a busy row after an idle one; logs that are empty,   *)
(* hold one record, or repeat an address and end in a partial record.      *)
(***************************************************************************)
EXTENDS Profiler

MCPsTables ==
    { << >>,
      << [pid |-> "p2", cpu |-> 5, mem |-> 3, time |-> 2] >>,
      << [pid |-> "p1", cpu |-> 0, mem |-> 0, time |-> 0] >>,
      << [pid |-> "p1", cpu |-> 0, mem |-> 0, time |-> 0],
         [pid |-> "p2", cpu |-> 5, mem |-> 3, time |-> 2] >> }

MCLogs ==
    { [words |-> << >>, short |-> FALSE],
      [words |-> << >>, short |-> TRUE],
      [words |-> <<7, 0, 40>>, short |-> FALSE],
      [words |-> <<8, 0, 450>>, short |-> FALSE],
      [words |-> <<7, 0, 40, 8, 0, 450, 7>>, short |-> TRUE] }
=============================================================================
