------------------------------ MODULE Selector ------------------------------
(***************************************************************************)
(* get_pid of src/gvisor/runsc/main.go, the process selector.  The output  *)
(* of "ps -aux | grep nobody | grep exe" is a sequence of rows; the code's *)
(* string comparisons with "0.0" and "0:00" are comparisons with zero of   *)
(* the value ps printed (cpu and mem in tenths of a percent, time in       *)
(* seconds).  An empty output is the case where grep finds no row and      *)
(* cmd.Output returns an error: both give no pid.                          *)
(***************************************************************************)
EXTENDS Integers, Sequences

\* target_pid := "-1": no process chosen yet.
NoPid == "-1"

\* A row is kept unless mem, cpu and time are all zero.
Qualifies(r) == r.mem # 0 \/ r.cpu # 0 \/ r.time # 0

(***************************************************************************)
(* get_pid(): the scan of the rows in order keeping the first row of       *)
(* strictly highest cpu above max_cpu = 0.0; a pid only if one was found.  *)
(***************************************************************************)
GetPid(rows) ==
    LET sel[i \in 0..Len(rows)] ==
            IF i = 0 THEN [maxCpu |-> 0, pid |-> NoPid]
            ELSE IF Qualifies(rows[i]) /\ rows[i].cpu > sel[i - 1].maxCpu
                 THEN [maxCpu |-> rows[i].cpu, pid |-> rows[i].pid]
                 ELSE sel[i - 1]
        target == sel[Len(rows)].pid
    IN  IF target # NoPid THEN <<target>> ELSE << >>
=============================================================================
