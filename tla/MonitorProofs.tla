---------------------------- MODULE MonitorProofs ----------------------------
(***************************************************************************)
(* Proofs about the Monitor specification, for every value of its          *)
(* constants: type correctness, and that the sampling interval backs off   *)
(* only after cycles that did not mitigate.                                *)
(***************************************************************************)
EXTENDS Monitor, TLAPS

(* TypeOK is not inductive by itself: SendStart appends addrAcc to the     *)
(* channel, so addrAcc must hold a directive whenever the loop is about to *)
(* send it.                                                                *)
IInv ==
    /\ TypeOK
    /\ pc = "start" => addrAcc \in Msg

\* The make-up step keeps a count a natural number.
LEMMA MakeUpNat ==
    ASSUME NEW ds \in BOOLEAN, NEW c \in Nat, NEW l \in Nat
    PROVE  MakeUp(ds, c, l) \in Nat
BY DEF MakeUp

\* delayStates keeps the interval among the three values it can take.
LEMMA DelayStatesType ==
    ASSUME NEW ld \in [Slots -> BOOLEAN], NEW i \in Slots, NEW f \in BOOLEAN,
           NEW di \in {Interval, 10 * Interval, MaxInterval}
    PROVE  /\ DelayStates(ld, i, f, di)[1] \in {Interval, 10 * Interval, MaxInterval}
           /\ DelayStates(ld, i, f, di)[2] \in BOOLEAN
<1>1. ld[(i + 2) % 3] \in BOOLEAN /\ ld[i] \in BOOLEAN
    BY DEF Slots
<1>2. CASE f
    BY <1>2 DEF DelayStates
<1>3. CASE ~f /\ ld[i]
    BY <1>1, <1>3 DEF DelayStates
<1>4. CASE ~f /\ ~ld[i]
    <2>1. (IF di * 10 > MaxInterval THEN MaxInterval ELSE di * 10)
            \in {Interval, 10 * Interval, MaxInterval}
        BY DEF Interval, MaxInterval
    <2>2. QED
        BY <1>1, <1>4, <2>1 DEF DelayStates
<1>5. QED
    BY <1>2, <1>3, <1>4

\* A start directive built from a sampled address and count is a directive.
LEMMA StartInMsg ==
    ASSUME NEW a \in Addrs, NEW c \in Counts
    PROVE  Start(a, c) \in Msg
BY DEF Msg

LEMMA InitIInv == Init => IInv
BY DEF Init, IInv, TypeOK, Slots, Interval, MaxInterval, NoMsg, Msg

LEMMA NextIInv == IInv /\ [Next]_vars => IInv'
<1> SUFFICES ASSUME IInv, [Next]_vars PROVE IInv'
    OBVIOUS
<1> USE DEF IInv, TypeOK
<1>1. ASSUME NEW a \in Addrs, NEW c \in Counts, Decide(a, c) PROVE IInv'
    <2>1. DS[1] \in {Interval, 10 * Interval, MaxInterval} /\ DS[2] \in BOOLEAN
        BY DelayStatesType DEF DS
    <2>2. AccCmp(c) \in Nat
        <3>1. c \in Nat
            BY CountsAssumption
        <3>2. lastAddrAcc[(slot + 2) % 3] \in Nat
            BY DEF Slots
        <3>3. QED
            BY <2>1, <3>1, <3>2, MakeUpNat DEF AccCmp
    <2>3. Window(c) \in [Slots -> Nat]
        BY <2>2 DEF Window
    <2>4. Start(a, c) \in Msg
        BY StartInMsg
    <2>5. slot' \in Slots /\ cycles' \in 0..4 /\ addrAcc' \in Msg
                /\ delayInterval' \in {Interval, 10 * Interval, MaxInterval}
                /\ UNCHANGED <<msgChan, note, pipe, delaying>>
        BY <1>1, <2>1, <2>4 DEF Decide, Slots
    <2>6. /\ lastAddrAcc' \in [Slots -> Nat]
          /\ lastDelay' \in [Slots -> BOOLEAN]
          /\ pc' \in {"sample", "start"}
        <3>1. CASE c > OutlierBound /\ UNCHANGED <<lastAddrAcc, lastDelay>>
                                   /\ pc' = "start"
            BY <3>1
        <3>2. CASE /\ lastAddrAcc' = (IF DS[2] THEN lastAddrAcc ELSE Window(c))
                   /\ lastDelay' = [lastDelay EXCEPT ![slot] = FALSE]
                   /\ pc' = "sample"
            BY <2>1, <2>3, <3>2 DEF Slots
        <3>3. CASE lastAddrAcc' = Window(c) /\ UNCHANGED lastDelay /\ pc' = "start"
            BY <2>3, <3>3
        <3>4. QED
            BY <1>1, <3>1, <3>2, <3>3 DEF Decide
    <2>7. QED
        BY <2>5, <2>6
<1>2. CASE SendStart
    BY <1>2 DEF SendStart, ChanCap
<1>3. CASE SendStop
    BY <1>3 DEF SendStop, ChanCap, Msg, Slots
<1>4. CASE NotifierRecv
    BY <1>4, PipeCapAssumption DEF NotifierRecv, NoMsg, Msg, ChanCap, monitorVars
<1>5. CASE NotifierWrite
    BY <1>5, PipeCapAssumption DEF NotifierWrite, ChanCap, monitorVars
<1>6. CASE Receive
    BY <1>6, PipeCapAssumption DEF Receive, ChanCap, monitorVars
<1>7. CASE UNCHANGED vars
    BY <1>7 DEF vars, monitorVars
<1>8. QED
    BY <1>1, <1>2, <1>3, <1>4, <1>5, <1>6, <1>7
       DEF Next, MonitorStep, NotifierStep

(* Type correctness of the monitor process: every variable of the loop,    *)
(* the channel, the notifier and the pipe keeps the type TypeOK gives it.  *)
THEOREM TypeCorrect == Spec => []TypeOK
<1>1. Init => IInv
    BY InitIInv
<1>2. IInv /\ [Next]_vars => IInv'
    BY NextIInv
<1>3. IInv => TypeOK
    BY DEF IInv
<1>4. QED
    BY <1>1, <1>2, <1>3, PTL DEF Spec

(* delayStates reaches the ceiling only by escalating an interval that was *)
(* already above the baseline.                                             *)
LEMMA DelayStatesCeiling ==
    ASSUME NEW ld \in [Slots -> BOOLEAN], NEW i \in Slots, NEW f \in BOOLEAN,
           NEW di \in {Interval, 10 * Interval, MaxInterval},
           DelayStates(ld, i, f, di)[1] = MaxInterval
    PROVE  di > Interval
<1>1. CASE f
    BY <1>1 DEF DelayStates, Interval, MaxInterval
<1>2. CASE ~f /\ ld[i]
    BY <1>2 DEF DelayStates, Interval, MaxInterval
<1>3. CASE ~f /\ ~ld[i]
    BY <1>3 DEF DelayStates, Interval, MaxInterval
<1>4. QED
    BY <1>1, <1>2, <1>3

LEMMA NextBackoff ==
    IInv /\ BackoffOnlyWhenQuiet /\ [Next]_vars => BackoffOnlyWhenQuiet'
<1> SUFFICES ASSUME IInv, BackoffOnlyWhenQuiet, [Next]_vars
             PROVE  BackoffOnlyWhenQuiet'
    OBVIOUS
<1> USE DEF IInv, TypeOK
<1>1. ASSUME NEW a \in Addrs, NEW c \in Counts, Decide(a, c)
      PROVE  BackoffOnlyWhenQuiet'
    <2>1. CASE pc' = "start"
        BY <2>1 DEF BackoffOnlyWhenQuiet
    <2>2. CASE pc' = "sample"
        \* only the strip / unstable branch returns to "sample"
        <3>1. lastDelay' = [lastDelay EXCEPT ![slot] = FALSE]
            BY <1>1, <2>2 DEF Decide
        <3>2. slot' = (slot + 1) % 3 /\ delayInterval' = DS[1] /\ pc = "sample"
            BY <1>1 DEF Decide
        <3>3. ~lastDelay'[(slot' + 2) % 3]
            BY <3>1, <3>2 DEF Slots
        <3>4. delayInterval' = MaxInterval => ~lastDelay'[(slot' + 1) % 3]
            <4>1. SUFFICES ASSUME delayInterval' = MaxInterval
                           PROVE  ~lastDelay'[(slot' + 1) % 3]
                OBVIOUS
            <4>2. delayInterval > Interval
                BY <3>2, <4>1, DelayStatesCeiling DEF DS
            <4>3. ~lastDelay[(slot + 2) % 3]
                BY <3>2, <4>2 DEF BackoffOnlyWhenQuiet
            <4>4. QED
                BY <3>1, <3>2, <4>3 DEF Slots
        <3>5. QED
            BY <3>3, <3>4 DEF BackoffOnlyWhenQuiet
    <2>3. QED
        BY <1>1, <2>1, <2>2 DEF Decide
<1>2. CASE SendStart
    BY <1>2 DEF SendStart, BackoffOnlyWhenQuiet
<1>3. CASE SendStop
    BY <1>3 DEF SendStop, BackoffOnlyWhenQuiet, Interval, MaxInterval
<1>4. CASE NotifierRecv
    BY <1>4 DEF NotifierRecv, monitorVars, BackoffOnlyWhenQuiet
<1>5. CASE NotifierWrite
    BY <1>5 DEF NotifierWrite, monitorVars, BackoffOnlyWhenQuiet
<1>6. CASE Receive
    BY <1>6 DEF Receive, monitorVars, BackoffOnlyWhenQuiet
<1>7. CASE UNCHANGED vars
    BY <1>7 DEF vars, monitorVars, BackoffOnlyWhenQuiet
<1>8. QED
    BY <1>1, <1>2, <1>3, <1>4, <1>5, <1>6, <1>7
       DEF Next, MonitorStep, NotifierStep

(* The sampling interval backs off only after quiet cycles: whenever the   *)
(* loop of monitor is between cycles, an interval above 500 ms means the   *)
(* last cycle did not mitigate and 30000 ms means the last two did not.    *)
THEOREM BackoffSafe == Spec => []BackoffOnlyWhenQuiet
<1>1. Init => IInv /\ BackoffOnlyWhenQuiet
    BY InitIInv DEF Init, BackoffOnlyWhenQuiet, Interval, MaxInterval
<1>2. IInv /\ BackoffOnlyWhenQuiet /\ [Next]_vars
        => IInv' /\ BackoffOnlyWhenQuiet'
    BY NextIInv, NextBackoff
<1>3. QED
    BY <1>1, <1>2, PTL DEF Spec
=============================================================================
