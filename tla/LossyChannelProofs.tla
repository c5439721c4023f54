-------------------------- MODULE LossyChannelProofs --------------------------
(***************************************************************************)
(* The lossy directive channel keeps the directives on their way           *)
(* alternating, for queues of any length: an exit loses a prefix and a     *)
(* discard the head, and neither changes the parity of what is left.       *)
(* While the sandbox runs, the steps are those of DirectiveChannel and     *)
(* ChanNext carries the alternation up to the sandbox's state.             *)
(***************************************************************************)
EXTENDS LossyChannel, DirectiveChannelProofs, SequenceTheorems

LInv == LossyTypeOK /\ InFlightAlternating /\ (open => Alternating)

\* The alternation up to the sandbox's state contains the one in flight.
LEMMA AlternatingInFlight ==
    ASSUME ChanTypeOK, Alternating
    PROVE  InFlightAlternating
<1> SUFFICES ASSUME NEW i \in 1..Len(queue)
             PROVE  queue[i] = IF (Len(queue) - i) % 2 = 0 THEN LastSent
                                                          ELSE Other(LastSent)
    BY DEF InFlightAlternating
<1>1. At(i) = queue[i]
    BY DEF At
<1>2. QED
    BY <1>1 DEF Alternating, ChanTypeOK

\* Sending the other kind than the last one extends the alternation.
LEMMA AppendInFlight ==
    ASSUME ChanTypeOK, InFlightAlternating, NEW k \in Kind, k = Other(LastSent),
           queue' = Append(queue, k), LastSent' = k
    PROVE  InFlightAlternating'
<1> USE DEF ChanTypeOK
<1>1. Len(queue') = Len(queue) + 1
    OBVIOUS
<1> SUFFICES ASSUME NEW i \in 1..Len(queue')
             PROVE  queue'[i] = IF (Len(queue') - i) % 2 = 0 THEN LastSent'
                                                            ELSE Other(LastSent')
    BY DEF InFlightAlternating
<1>2. CASE i = Len(queue')
    BY <1>1, <1>2
<1>3. CASE i < Len(queue')
    <2>1. i \in 1..Len(queue) /\ queue'[i] = queue[i]
        BY <1>1, <1>3
    <2>2. queue[i] = IF (Len(queue) - i) % 2 = 0 THEN LastSent ELSE Other(LastSent)
        BY <2>1 DEF InFlightAlternating
    <2>3. QED
        BY <1>1, <2>1, <2>2 DEF Other, LastSent, Kind
<1>4. QED
    BY <1>1, <1>2, <1>3

\* Dropping the k oldest directives keeps the rest alternating.
LEMMA SuffixInFlight ==
    ASSUME ChanTypeOK, InFlightAlternating, NEW k \in 0..Len(queue),
           queue' = SubSeq(queue, k + 1, Len(queue)), LastSent' = LastSent
    PROVE  InFlightAlternating' /\ queue' \in Seq(Kind)
<1> USE DEF ChanTypeOK
<1>1. queue' \in Seq(Kind) /\ Len(queue') = Len(queue) - k
    BY SubSeqProperties
<1>2. \A i \in 1..Len(queue') : queue'[i] = queue[i + k]
    BY <1>1
<1>3. \A i \in 1..Len(queue') :
        queue'[i] = IF (Len(queue') - i) % 2 = 0 THEN LastSent' ELSE Other(LastSent')
    <2> SUFFICES ASSUME NEW i \in 1..Len(queue')
                 PROVE  queue'[i] = IF (Len(queue') - i) % 2 = 0 THEN LastSent'
                                                                ELSE Other(LastSent')
        OBVIOUS
    <2>1. i + k \in 1..Len(queue) /\ Len(queue) - (i + k) = Len(queue') - i
        BY <1>1
    <2>2. queue[i + k] = IF (Len(queue) - (i + k)) % 2 = 0 THEN LastSent
                                                          ELSE Other(LastSent)
        BY <2>1 DEF InFlightAlternating
    <2>3. QED
        BY <1>2, <2>1, <2>2
<1>4. QED
    BY <1>1, <1>3 DEF InFlightAlternating

LEMMA LInvInit == LossyInit => LInv
<1> SUFFICES ASSUME LossyInit PROVE LInv
    OBVIOUS
<1>1. ChanInv /\ open = TRUE
    BY ChanInit DEF LossyInit
<1>2. QED
    BY <1>1, AlternatingInFlight DEF LInv, LossyTypeOK, ChanInv

LEMMA LInvNext == LInv /\ [LossyNext]_lossyVars => LInv'
<1> SUFFICES ASSUME LInv, [LossyNext]_lossyVars PROVE LInv'
    OBVIOUS
<1> USE DEF LInv, LossyTypeOK
\* a step of the running channel keeps ChanInv by ChanNext
<1>1. ASSUME open, [Next]_chanVars, UNCHANGED open PROVE LInv'
    <2>1. ChanInv'
        BY <1>1, ChanNext DEF ChanInv
    <2>2. InFlightAlternating'
        <3> SUFFICES ASSUME NEW i \in 1..Len(queue')
                     PROVE  queue'[i] = IF (Len(queue') - i) % 2 = 0 THEN LastSent'
                                                                    ELSE Other(LastSent')
            BY DEF InFlightAlternating
        <3>1. At(i)' = queue'[i]
            BY DEF At
        <3>2. QED
            BY <2>1, <3>1 DEF ChanInv, Alternating, ChanTypeOK
    <2>3. QED
        BY <1>1, <2>1, <2>2 DEF ChanInv
<1>2. CASE LossyBegin \/ LossyEnd
    <2>1. CASE open
        BY <1>1, <1>2, <2>1 DEF LossyBegin, LossyEnd, Next
    <2>2. CASE ~open
        <3>1. ChanTypeOK'
            BY <1>2 DEF LossyBegin, LossyEnd, Begin, End, ChanTypeOK, Kind
        <3>2. InFlightAlternating'
            BY <1>2, AppendInFlight DEF LossyBegin, LossyEnd, Begin, End,
                                         LastSent, Other, Kind
        <3>3. QED
            BY <1>2, <2>2, <3>1, <3>2 DEF LossyBegin, LossyEnd
    <2>3. QED
        BY <2>1, <2>2
<1>3. CASE LossyDeliver
    BY <1>1, <1>3 DEF LossyDeliver, Next
<1>4. CASE Exit
    <2>1. PICK k \in 0..Len(queue) : queue' = SubSeq(queue, k + 1, Len(queue))
        BY <1>4 DEF Exit
    <2>2. InFlightAlternating' /\ queue' \in Seq(Kind)
        BY <1>4, <2>1, SuffixInFlight DEF Exit, LastSent
    <2>3. QED
        BY <1>4, <2>2 DEF Exit, ChanTypeOK
<1>5. CASE Discard
    <2>1. queue \in Seq(Kind) /\ queue # << >>
        BY <1>5 DEF Discard, ChanTypeOK
    <2>2. queue' = SubSeq(queue, 1 + 1, Len(queue)) /\ 1 \in 0..Len(queue)
        BY <1>5, <2>1, TailIsSubSeq, EmptySeq DEF Discard
    <2>3. InFlightAlternating' /\ queue' \in Seq(Kind)
        BY <1>5, <2>2, SuffixInFlight DEF Discard, LastSent
    <2>4. QED
        BY <1>5, <2>3 DEF Discard, ChanTypeOK
<1>6. CASE UNCHANGED lossyVars
    BY <1>6 DEF lossyVars, ChanTypeOK, InFlightAlternating, Alternating, At,
                LastSent, Other
<1>7. QED
    BY <1>2, <1>3, <1>4, <1>5, <1>6 DEF LossyNext

(* In every behaviour of the lossy channel the directives on their way    *)
(* alternate and end with the one the loop sent last, and while the        *)
(* sandbox runs the alternation starts at the sandbox's own state.         *)
THEOREM LossySafe == LossySafetySpec => []LossyAlternating
<1>1. LInv => LossyAlternating
    BY DEF LInv, LossyAlternating
<1>2. QED
    BY LInvInit, LInvNext, <1>1, PTL DEF LossySafetySpec
=============================================================================
