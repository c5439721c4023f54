---------------------------- MODULE ProfilerProofs ----------------------------
(***************************************************************************)
(* Proof that get_target_addr never returns a sample from a stale log, for *)
(* every set of ps outputs and every set of logs, and across any number of *)
(* killed monitor processes.                                               *)
(***************************************************************************)
EXTENDS Profiler, TLAPS

(* FreshSample is not inductive: it speaks only of the idle state, and the *)
(* log a call returns was written while the call was inside its window.    *)
(* The strengthening follows the log through the call: chk_prerequisites   *)
(* has moved any old log away before tracing starts, and a log present     *)
(* after tracing was written by this window.                               *)
FInv ==
    /\ ppc \in {"idle", "tracing", "traced"}
    /\ ppc = "tracing" => logFile = NoLog
    /\ (ppc = "traced" /\ logFile # NoLog) => fresh
    /\ FreshSample

LEMMA FInvInit == Init => FInv
BY DEF Init, FInv, FreshSample, Fail

LEMMA FInvNext == FInv /\ [Next]_vars => FInv'
<1> SUFFICES ASSUME FInv, [Next]_vars PROVE FInv'
    OBVIOUS
<1> USE DEF FInv, FreshSample
<1>1. CASE SelectMiss
    BY <1>1 DEF SelectMiss, Fail
<1>2. CASE LoadFail
    BY <1>2 DEF LoadFail, Rotate, Fail
<1>3. CASE StartWindow
    BY <1>3 DEF StartWindow, Rotate
<1>4. CASE TraceOff
    \* the module writes a log (fresh) or leaves logPath empty
    BY <1>4 DEF TraceOff
<1>5. CASE Unload
    \* a missing log decodes to nothing; a present one is this window's
    <2>1. CASE logFile = NoLog
        BY <1>5, <2>1 DEF Unload, Fail
    <2>2. CASE logFile # NoLog
        BY <1>5, <2>2 DEF Unload
    <2>3. QED
        BY <2>1, <2>2
<1>6. CASE UnloadFail
    BY <1>6 DEF UnloadFail, Fail
<1>7. CASE Crash
    BY <1>7 DEF Crash, Fail
<1>8. CASE UNCHANGED vars
    BY <1>8 DEF vars
<1>9. QED
    BY <1>1, <1>2, <1>3, <1>4, <1>5, <1>6, <1>7, <1>8 DEF Next

(* A sample get_target_addr returns between calls comes from the log its  *)
(* own tracing window wrote (the rotation in chk_prerequisites), in every *)
(* behaviour, including those where monitor processes are killed.         *)
THEOREM FreshSampleSafe == Spec => []FreshSample
<1>1. FInv => FreshSample
    BY DEF FInv
<1>2. QED
    BY FInvInit, FInvNext, <1>1, PTL DEF Spec
-----------------------------------------------------------------------------
\* Refinement of TargetSampler.

(* The refinement needs one more fact than FInv: inside a window the log  *)
(* at logPath has not been written by it yet, so a window that writes no  *)
(* log leaves the abstract call with none.                                 *)
SInv ==
    /\ FInv
    /\ fresh \in BOOLEAN
    /\ ppc = "tracing" => ~fresh

LEMMA SInvInit == Init => SInv
BY FInvInit DEF Init, SInv

LEMMA SInvNext == SInv /\ [Next]_vars => SInv'
<1> SUFFICES ASSUME SInv, [Next]_vars PROVE SInv'
    OBVIOUS
<1>1. FInv'
    BY FInvNext DEF SInv
<1>2. (fresh \in BOOLEAN /\ (ppc = "tracing" => ~fresh))'
    \* only Rotate and TraceOff write fresh; only StartWindow enters tracing
    <2> USE DEF SInv
    <2>1. CASE SelectMiss
        BY <2>1 DEF SelectMiss
    <2>2. CASE LoadFail
        BY <2>2 DEF LoadFail, Rotate
    <2>3. CASE StartWindow
        BY <2>3 DEF StartWindow, Rotate
    <2>4. CASE TraceOff
        BY <2>4 DEF TraceOff
    <2>5. CASE Unload
        BY <2>5 DEF Unload
    <2>6. CASE UnloadFail
        BY <2>6 DEF UnloadFail
    <2>7. CASE Crash
        BY <2>7 DEF Crash
    <2>8. CASE UNCHANGED vars
        BY <2>8 DEF vars
    <2>9. QED
        BY <2>1, <2>2, <2>3, <2>4, <2>5, <2>6, <2>7, <2>8 DEF Next
<1>3. QED
    BY <1>1, <1>2 DEF SInv

LEMMA SamplerInit == Init => AS!Init
BY DEF Init, AS!Init, CallLog

LEMMA SamplerStep == SInv /\ [Next]_vars => [AS!Next]_AS!samplerVars
<1> SUFFICES ASSUME SInv, [Next]_vars PROVE [AS!Next]_AS!samplerVars
    OBVIOUS
<1> USE DEF SInv, FInv
<1>1. CASE SelectMiss
    BY <1>1 DEF SelectMiss, AS!Next, AS!Miss, CallLog
<1>2. CASE LoadFail
    BY <1>2 DEF LoadFail, Rotate, AS!Next, AS!Miss, CallLog
<1>3. CASE StartWindow
    BY <1>3 DEF StartWindow, Rotate, AS!Next, AS!Begin, CallLog
<1>4. CASE TraceOff
    <2>1. CASE \E l \in Logs : logFile' = l /\ fresh' = TRUE
        <3>1. PICK l \in Logs : logFile' = l /\ fresh' = TRUE
            BY <2>1
        <3>2. CallLog' = l
            BY <1>4, <3>1 DEF TraceOff, CallLog
        <3>3. QED
            BY <1>4, <3>2 DEF TraceOff, AS!Next, AS!Write
    <2>2. CASE UNCHANGED <<logFile, fresh>>
        \* nothing was written: the abstract call still has no log
        BY <1>4, <2>2 DEF TraceOff, AS!samplerVars, CallLog
    <2>3. QED
        BY <1>4, <2>1, <2>2 DEF TraceOff
<1>5. CASE Unload
    <2>1. CallLog = IF logFile = NoLog THEN NoLog ELSE logFile
        BY <1>5 DEF Unload, CallLog
    <2>2. QED
        BY <1>5, <2>1 DEF Unload, AS!Next, AS!Return, CallLog
<1>6. CASE UnloadFail
    BY <1>6 DEF UnloadFail, AS!Next, AS!Abort, CallLog
<1>7. CASE Crash
    BY <1>7 DEF Crash, AS!Next, AS!Abort, CallLog
<1>8. CASE UNCHANGED vars
    BY <1>8 DEF vars, AS!samplerVars, CallLog
<1>9. QED
    BY <1>1, <1>2, <1>3, <1>4, <1>5, <1>6, <1>7, <1>8 DEF Next

(* get_target_addr implements the abstract sampler, for every set of ps   *)
(* outputs and logs: a finished call returns nothing, or the first sample *)
(* of the log its own window wrote.                                        *)
THEOREM SamplerRefinement == Spec => SamplerSpec
<1>1. SInv /\ [][Next]_vars => [][AS!Next]_AS!samplerVars
    BY SInvNext, SamplerStep, PTL
<1>2. QED
    BY SInvInit, SamplerInit, <1>1, PTL DEF Spec, SamplerSpec, AS!Spec
=============================================================================
