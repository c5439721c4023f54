--------------------------- MODULE DecisionEngine ---------------------------
(***************************************************************************)
(* The pure functions of the Cijitter decision engine, translated from     *)
(* src/gvisor/runsc/main.go: the sampling-interval policy delayStates, the *)
(* noise compensation ("make up") of monitor, and the stability test       *)
(* judge_delay.  The rolling window is a function from Slots to counts;    *)
(* the code's cycle counter index is passed as its slot (index % 3) and    *)
(* whether it is 0, the only two things the code reads of it.              *)
(*                                                                         *)
(* judge_delay computes in float64.  Every comparison is restated here as  *)
(* an exact comparison of integers (mean = sum/3, stddev = sqrt(sq/9),     *)
(* count = diff/prev); the two agree on every window the code can hold     *)
(* (values 0..3000), including the NaN and +Inf cases of a zero            *)
(* denominator, which compare false.                                       *)
(***************************************************************************)
EXTENDS Integers

\* The three positions of the rolling window, last_addr_acc and last_delay.
Slots == 0..2

\* var interval int = 500: the baseline sampling interval (ms).
Interval == 500

\* The ceiling delayStates puts on the escalated interval (ms).
MaxInterval == 30000

\* Counts above this are outlier spikes (monitor: acc_num > 3000).
OutlierBound == 3000

\* A compensated count at or below this is a strip (acc_cmp <= 80).
StripBound == 80

\* Mutant: delayStates escalating without the 30000 ms ceiling.
DelayStatesNoCap(lastDelay, index, first, delayInterval) ==
    IF first THEN <<Interval, TRUE>>
    ELSE IF lastDelay[index] THEN <<Interval, lastDelay[(index + 2) % 3]>>
    ELSE <<delayInterval * 10, lastDelay[(index + 2) % 3]>>

(***************************************************************************)
(* delayStates(last_delay, index, delay_interval): the next sampling       *)
(* interval and whether the previous cycle mitigated (its slot is          *)
(* (index - 1) % 3).  The code's loop tests the same condition three       *)
(* times; one test is equivalent.                                          *)
(***************************************************************************)
DelayStates(lastDelay, index, first, delayInterval) ==
    IF first
    THEN <<Interval, TRUE>>
    ELSE LET status == lastDelay[(index + 2) % 3]
         IN  IF lastDelay[index]
             THEN <<Interval, status>>
             ELSE <<IF delayInterval * 10 > MaxInterval
                    THEN MaxInterval ELSE delayInterval * 10, status>>

(***************************************************************************)
(* The make-up step of monitor: when the previous cycle mitigated and the  *)
(* count fell below the previous cycle's count lastAcc, two thirds of the  *)
(* drop are added back; int(float64(d) * 0.67) is d * 67 \div 100 for      *)
(* every d in 1..3000.                                                     *)
(***************************************************************************)
MakeUp(dstats, accNum, lastAcc) ==
    IF dstats /\ accNum < lastAcc
    THEN accNum + ((lastAcc - accNum) * 67) \div 100
    ELSE accNum

\* Mutant: the mean test applied to the sum (sum >= 100).
JudgeDelayMeanOff(access, index) ==
    LET sum  == access[0] + access[1] + access[2]
        sq   == 9 * (access[0] * access[0] + access[1] * access[1]
                     + access[2] * access[2]) - 3 * sum * sum
        prev == access[(index + 2) % 3]
        diff == IF access[index] > prev THEN access[index] - prev
                                        ELSE prev - access[index]
        CountLE(n, d) == prev > 0 /\ d * diff <= n * prev
        RatioLE(n, d) == sum > 0 /\ sq <= (n * n * sum * sum) \div (d * d)
    IN  /\ CountLE(1, 10) \/ RatioLE(1, 5) \/ (RatioLE(7, 20) /\ CountLE(7, 20))
        /\ sum >= 100

(***************************************************************************)
(* judge_delay(access, index): the window is stable (relative change from  *)
(* the previous slot at most 0.1, or coefficient of variation at most 0.2, *)
(* or both at most 0.35) and its mean is at least 100.  The code's         *)
(* "stddev" is sqrt of the sum of squared deviations, not divided by 3.    *)
(***************************************************************************)
JudgeDelay(access, index) ==
    LET sum  == access[0] + access[1] + access[2]
        \* 9 * (sum of squared deviations from the mean), an integer
        sq   == 9 * (access[0] * access[0] + access[1] * access[1]
                     + access[2] * access[2]) - 3 * sum * sum
        prev == access[(index + 2) % 3]
        diff == IF access[index] > prev THEN access[index] - prev
                                        ELSE prev - access[index]
        \* count = diff / prev <= n / d
        CountLE(n, d) == prev > 0 /\ d * diff <= n * prev
        \* ratio = stddev / mean <= n / d
        RatioLE(n, d) == sum > 0 /\ sq <= (n * n * sum * sum) \div (d * d)
    IN  /\ \/ CountLE(1, 10)
           \/ RatioLE(1, 5)
           \/ (RatioLE(7, 20) /\ CountLE(7, 20))
        /\ sum >= 300
=============================================================================
