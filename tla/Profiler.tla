------------------------------ MODULE Profiler ------------------------------
(***************************************************************************)
(* The kernel profiler controller of src/gvisor/runsc/main.go:             *)
(* get_target_addr with get_pid, chk_prerequisites, exit_handler and       *)
(* read_sample_logs, run over and over by the monitor loop.                *)
(*                                                                         *)
(* The kernel keeps its state (the daptrace module, its tracing switch     *)
(* and the log file) across calls and across monitor processes; the       *)
(* monitor's own state is only where it is in a call.  A call is split at  *)
(* the points where it changes kernel state, so that the monitor process  *)
(* can be killed between two of them and a new monitor start afresh.       *)
(***************************************************************************)
EXTENDS Decoder, Selector

CONSTANTS
    PsTables,   \* the outputs of ps the selector may see (sequences of rows)
    Logs        \* the logs a tracing window may leave: [words, short]

ASSUME LogsAssumption ==
    Logs \subseteq [words : Seq(Int), short : BOOLEAN]

\* No log file at logPath (rotated away, or never written).
NoLog == [none |-> TRUE]

\* get_target_addr returning ("", -1, false).
Fail == [ok |-> FALSE]

VARIABLES
    loaded,     \* the daptrace module is inserted (DBGFS exists)
    windows,    \* tracing windows the inserted module has run (capped at 2)
    tracing,    \* tracing_on holds "on"
    tracedPid,  \* the pid written to the module's pids file (NoPid if none)
    logFile,    \* the file at logPath: NoLog or a log of Logs
    oldLog,     \* the file at logPath.old, where the previous log is kept
    ppc,        \* "idle" between calls, "tracing" / "traced" inside one
    result,     \* what the last finished call returned
    fresh       \* the log at logPath was written in the current call

vars == <<loaded, windows, tracing, tracedPid, logFile, oldLog, ppc, result, fresh>>

Init ==
    /\ loaded = FALSE
    /\ windows = 0
    /\ tracing = FALSE
    /\ tracedPid = NoPid
    /\ logFile \in Logs \cup {NoLog}
    /\ oldLog = NoLog
    /\ ppc = "idle"
    /\ result = Fail
    /\ fresh = FALSE

\* Mutant: the log at logPath is left in place.
RotateSkipped == UNCHANGED <<logFile, oldLog>> /\ fresh' = FALSE

\* chk_prerequisites' first step: a regular file at logPath is renamed to
\* logPath.old (replacing it); with no file there, nothing is renamed.
Rotate ==
    /\ logFile' = NoLog
    /\ oldLog' = IF logFile # NoLog THEN logFile ELSE oldLog
    /\ fresh' = FALSE

\* get_pid finds no process: the call returns false and changes nothing.
SelectMiss ==
    /\ ppc = "idle"
    /\ \E t \in PsTables : GetPid(t) = << >>
    /\ result' = Fail
    /\ UNCHANGED <<loaded, windows, tracing, tracedPid, logFile, oldLog, ppc, fresh>>

\* chk_prerequisites: the log is rotated and insmod of an absent module
\* fails; the call returns false.
LoadFail ==
    /\ ppc = "idle"
    /\ \E t \in PsTables : GetPid(t) # << >>
    /\ ~loaded
    /\ Rotate
    /\ result' = Fail
    /\ UNCHANGED <<loaded, windows, tracing, tracedPid, ppc>>

(***************************************************************************)
(* A pid is found and chk_prerequisites succeeds: the log is rotated, the  *)
(* module is inserted unless DBGFS already exists, its pids file is there; *)
(* the pid is written and tracing switched on.                             *)
(***************************************************************************)
StartWindow ==
    /\ ppc = "idle"
    /\ \E t \in PsTables : GetPid(t) # << >> /\ tracedPid' = GetPid(t)[1]
    /\ Rotate
    /\ loaded' = TRUE
    /\ windows' = IF loaded THEN IF windows < 2 THEN windows + 1 ELSE 2 ELSE 1
    /\ tracing' = TRUE
    /\ ppc' = "tracing"
    /\ UNCHANGED result

\* After the 100 ms window tracing is switched off; the module leaves a
\* log at logPath, or none when nothing was accessed.
TraceOff ==
    /\ ppc = "tracing"
    /\ tracing' = FALSE
    /\ \/ \E l \in Logs : logFile' = l /\ fresh' = TRUE
       \/ UNCHANGED <<logFile, fresh>>
    /\ ppc' = "traced"
    /\ UNCHANGED <<loaded, windows, tracedPid, oldLog, result>>

\* get_target_addr's result for a decoded log: the first address in order
\* and the count the map holds for it (0 if it has none).
FirstSample(dec) ==
    IF dec.order = << >> THEN Fail
    ELSE LET a == dec.order[1]
         IN  [ok |-> TRUE, addr |-> a,
              acc |-> IF a \in DOMAIN dec.access THEN dec.access[a] ELSE 0]

\* read_sample_logs(logPath) followed by the choice of the first entry.
LogSample(l) == FirstSample(ReadSampleLogs(l.words, l.short))

\* exit_handler: rmmod succeeds; the log is decoded (a missing log decodes
\* to nothing) and its first entry returned.
Unload ==
    /\ ppc = "traced"
    /\ loaded' = FALSE
    /\ windows' = 0
    /\ tracedPid' = NoPid
    /\ result' = IF logFile = NoLog THEN Fail ELSE LogSample(logFile)
    /\ ppc' = "idle"
    /\ UNCHANGED <<tracing, logFile, oldLog, fresh>>

\* exit_handler: rmmod fails; the loop breaks and the call returns false
\* with the module still inserted.
UnloadFail ==
    /\ ppc = "traced"
    /\ result' = Fail
    /\ ppc' = "idle"
    /\ UNCHANGED <<loaded, windows, tracing, tracedPid, logFile, oldLog, fresh>>

\* The monitor process is killed inside a call; a new monitor process
\* starts from its first call, and the kernel keeps its state.
Crash ==
    /\ ppc # "idle"
    /\ ppc' = "idle"
    /\ result' = Fail
    /\ UNCHANGED <<loaded, windows, tracing, tracedPid, logFile, oldLog, fresh>>

Next ==
    \/ SelectMiss \/ LoadFail \/ StartWindow
    \/ TraceOff \/ Unload \/ UnloadFail
    \/ Crash

Spec == Init /\ [][Next]_vars

-----------------------------------------------------------------------------

TypeOK ==
    /\ loaded \in BOOLEAN
    /\ windows \in 0..2
    /\ tracing \in BOOLEAN
    /\ tracedPid \in {NoPid} \cup UNION {{t[i].pid : i \in DOMAIN t} : t \in PsTables}
    /\ logFile \in Logs \cup {NoLog}
    /\ oldLog \in Logs \cup {NoLog}
    /\ ppc \in {"idle", "tracing", "traced"}
    /\ result \in {Fail} \cup [ok : {TRUE}, addr : Int, acc : Int]
    /\ fresh \in BOOLEAN

(* Between calls, a sample get_target_addr returned comes from the log of *)
(* the window it just ran, never from a log that an earlier call, or a    *)
(* killed monitor process, left at logPath: chk_prerequisites rotates the *)
(* log before every window.                                                *)
FreshSample ==
    (ppc = "idle" /\ result.ok) => fresh

(* The refinement mapping onto TargetSampler: a call is in progress while *)
(* the monitor is inside get_target_addr, and the log it wrote is the one *)
(* at logPath once this call's window has written it.                     *)
CallLog == IF ppc # "idle" /\ fresh THEN logFile ELSE NoLog

AS == INSTANCE TargetSampler
        WITH calling <- ppc # "idle", written <- CallLog, SampleOf <- LogSample

(* get_target_addr implements the sampler: every call fails, or returns   *)
(* the first sample of the log its own window wrote, or is cut short and  *)
(* returns nothing; across insmod and rmmod failures and killed monitors. *)
SamplerSpec == AS!Spec

(* Spec section 4.2: the module is reloaded every cycle so that its state *)
(* does not leak across sampling windows: every window is traced by a     *)
(* module inserted for it.                                                 *)
FreshModuleEachWindow ==
    windows <= 1
=============================================================================
