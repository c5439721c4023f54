------------------------------- MODULE MCJudge -------------------------------
(***************************************************************************)
(* judge_delay against isSuspicious of spec section 4.4 on every window    *)
(* over JudgeValues and every current slot, reached from the baseline by  *)
(* storing one count per cycle, as the control loop does.                  *)
(***************************************************************************)
EXTENDS DecisionEngine

\* Around the thresholds: 0 (zero denominators), counts near the mean
\* bound 100 and within 10% and 35% of each other, and spikes.  Values up
\* to 500 keep every product below 2^31.
JudgeValues == {0, 60, 90, 100, 110, 130, 160, 200, 300, 500}

(***************************************************************************)
(* isSuspicious(window) of spec 4.4 in exact arithmetic: stddev is the     *)
(* population standard deviation sqrt(sum of squared deviations / 3), so   *)
(* coefficientOfVariation <= n/d is d^2 * sq <= 3 * n^2 * sum^2, with sq   *)
(* nine times the sum of squared deviations.                               *)
(***************************************************************************)
SpecSuspicious(w, s) ==
    LET sum  == w[0] + w[1] + w[2]
        sq   == 9 * (w[0] * w[0] + w[1] * w[1] + w[2] * w[2]) - 3 * sum * sum
        prev == w[(s + 2) % 3]
        diff == IF w[s] > prev THEN w[s] - prev ELSE prev - w[s]
        DeltaLE(n, d) == prev > 0 /\ d * diff <= n * prev
        CvLE(n, d)    == sum > 0 /\ d * d * sq <= 3 * n * n * sum * sum
    IN  /\ DeltaLE(1, 10) \/ CvLE(1, 5) \/ (CvLE(7, 20) /\ DeltaLE(7, 20))
        /\ sum >= 300

VARIABLES
    window,   \* last_addr_acc
    cur       \* inx: the slot stored last, the one judge_delay judges

\* The baseline window of monitor, at the first slot.
Init == window = [i \in Slots |-> 500] /\ cur = 2

\* The loop stores a new count in the next slot.
Store ==
    /\ cur' = (cur + 1) % 3
    /\ \E v \in JudgeValues : window' = [window EXCEPT ![cur'] = v]

Spec == Init /\ [][Store]_<<window, cur>>

(* The code flags no window the spec would not: every window judge_delay  *)
(* finds stable with a mean of at least 100 is suspicious by spec 4.4.    *)
JudgeWithinSpec ==
    JudgeDelay(window, cur) => SpecSuspicious(window, cur)

(* judge_delay is isSuspicious of spec 4.4: it flags exactly the windows  *)
(* that are stable with a mean of at least 100.                            *)
JudgeMatchesSpec ==
    JudgeDelay(window, cur) = SpecSuspicious(window, cur)
=============================================================================
