---------------------------- MODULE TargetSampler ----------------------------
(***************************************************************************)
(* What get_target_addr promises the control loop (spec section 4.2): a    *)
(* call either fails, or traces a window and returns the first sample of  *)
(* the log written during that window; a call that is cut short returns   *)
(* nothing.  Which process is traced, the module and the files are hidden. *)
(* Profiler implements this specification under a refinement mapping     *)
(* (Profiler.tla, AS).                                                     *)
(***************************************************************************)
CONSTANTS
    Logs,         \* the logs a tracing window may write
    NoLog,        \* no log written in the current call
    Fail,         \* the failed result ("", -1, false)
    SampleOf(_)   \* the result decoded from a log

VARIABLES
    calling,   \* a call of get_target_addr is in progress
    written,   \* the log the current call's window wrote, or NoLog
    result     \* what the last finished call returned

samplerVars == <<calling, written, result>>

Init ==
    /\ calling = FALSE
    /\ written = NoLog
    /\ result = Fail

\* A call that fails before tracing anything.
Miss ==
    /\ ~calling
    /\ result' = Fail
    /\ UNCHANGED <<calling, written>>

\* A call starts a tracing window.
Begin ==
    /\ ~calling
    /\ calling' = TRUE
    /\ written' = NoLog
    /\ UNCHANGED result

\* The window writes a log.
Write ==
    /\ calling
    /\ \E l \in Logs : written' = l
    /\ UNCHANGED <<calling, result>>

\* The call returns the sample of its own log, or fails without one.
Return ==
    /\ calling
    /\ calling' = FALSE
    /\ written' = NoLog
    /\ result' = IF written = NoLog THEN Fail ELSE SampleOf(written)

\* The call is cut short (the module cannot be unloaded, or the process
\* is killed) and returns nothing.
Abort ==
    /\ calling
    /\ calling' = FALSE
    /\ written' = NoLog
    /\ result' = Fail

Next == Miss \/ Begin \/ Write \/ Return \/ Abort

Spec == Init /\ [][Next]_samplerVars
=============================================================================
