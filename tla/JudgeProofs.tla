------------------------------ MODULE JudgeProofs ------------------------------
(***************************************************************************)
(* judge_delay flags no window that spec 4.4's classifier does not, for    *)
(* every window of integer counts and every slot: the code's ratio uses    *)
(* sqrt(sum of squared deviations) where the spec uses sqrt of a third of  *)
(* it, so every ratio bound the code passes the spec passes too.          *)
(***************************************************************************)
EXTENDS MCJudge, TLAPS

\* The integer division in RatioLE never rounds above the true quotient,
\* and the spec's bound is three times the code's.
LEMMA DivBound ==
    ASSUME NEW x \in Nat, NEW q \in {25, 400}, NEW y \in Int, y <= x \div q
    PROVE  q * y <= 3 * x
<1>1. q * (x \div q) <= x
    OBVIOUS
<1>2. x <= 3 * x
    OBVIOUS
<1>3. QED
    BY <1>1, <1>2

\* The code's ratio bound implies the spec's coefficient of variation bound.
LEMMA RatioImpliesCv ==
    ASSUME NEW sum \in Int, NEW sq \in Int, NEW n \in {1, 7}, NEW d \in {5, 20},
           (n = 1 /\ d = 5) \/ (n = 7 /\ d = 20),
           sum > 0, sq <= (n * n * sum * sum) \div (d * d)
    PROVE  d * d * sq <= 3 * n * n * sum * sum
<1>1. n * n * sum * sum \in Nat
    OBVIOUS
<1>2. d * d \in {25, 400}
    OBVIOUS
<1>3. QED
    BY <1>1, <1>2, DivBound

(* Every window judge_delay calls stable with a mean of at least 100 is   *)
(* stable with that mean by spec 4.4 as well, whatever the counts.         *)
LEMMA JudgeSound ==
    ASSUME NEW w \in [Slots -> Int], NEW s \in Slots, JudgeDelay(w, s)
    PROVE  SpecSuspicious(w, s)
<1> DEFINE sum == w[0] + w[1] + w[2]
           sq  == 9 * (w[0] * w[0] + w[1] * w[1] + w[2] * w[2]) - 3 * sum * sum
<1>1. sum \in Int /\ sq \in Int
    BY DEF Slots
<1>2. sum > 0 /\ sq <= (1 * 1 * sum * sum) \div (5 * 5)
        => 5 * 5 * sq <= 3 * 1 * 1 * sum * sum
    BY <1>1, RatioImpliesCv
<1>3. sum > 0 /\ sq <= (7 * 7 * sum * sum) \div (20 * 20)
        => 20 * 20 * sq <= 3 * 7 * 7 * sum * sum
    BY <1>1, RatioImpliesCv
<1>4. QED
    BY <1>2, <1>3 DEF JudgeDelay, SpecSuspicious

JudgeTypeOK == window \in [Slots -> Int] /\ cur \in Slots

LEMMA JudgeTypeInvariant == Spec => []JudgeTypeOK
<1>1. Init => JudgeTypeOK
    BY DEF Init, JudgeTypeOK, Slots
<1>2. JudgeTypeOK /\ [Store]_<<window, cur>> => JudgeTypeOK'
    BY DEF Store, JudgeTypeOK, JudgeValues, Slots
<1>3. QED
    BY <1>1, <1>2, PTL DEF Spec

(* In every state the loop can reach, the window judge_delay judges is    *)
(* suspicious by spec 4.4 whenever the code mitigates on it.               *)
THEOREM JudgeWithinSpecSafe == Spec => []JudgeWithinSpec
<1>1. JudgeTypeOK => JudgeWithinSpec
    BY JudgeSound DEF JudgeTypeOK, JudgeWithinSpec
<1>2. QED
    BY JudgeTypeInvariant, <1>1, PTL
=============================================================================
