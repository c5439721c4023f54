------------------------ MODULE DirectiveChannelProofs ------------------------
(***************************************************************************)
(* The directive channel keeps start and stop directives alternating on    *)
(* the way to the sandbox, for queues of any length.                       *)
(***************************************************************************)
EXTENDS DirectiveChannel, TLAPS

ChanInv == ChanTypeOK /\ Alternating

LEMMA ChanInit == Init => ChanInv
<1> SUFFICES ASSUME Init PROVE ChanInv
    OBVIOUS
<1>1. ChanTypeOK
    <2>1. mode \in {"idle", "mitigating"} /\ delaying \in BOOLEAN
        BY Zenon DEF Init
    <2>2. queue \in Seq(Kind)
        BY DEF Init
    <2>3. QED
        BY <2>1, <2>2, Zenon DEF ChanTypeOK
<1>2. Alternating
    BY DEF Init, Alternating, At, LastSent
<1>3. QED
    BY <1>1, <1>2 DEF ChanInv

\* Sending a directive of the kind other than the last one sent extends
\* the alternation by one.
LEMMA AppendAlternates ==
    ASSUME ChanInv, NEW k \in Kind, k = Other(LastSent),
           queue' = Append(queue, k), UNCHANGED delaying,
           mode' \in {"idle", "mitigating"},
           LastSent' = k
    PROVE  Alternating'
<1> USE DEF ChanInv, ChanTypeOK
<1>1. Len(queue') = Len(queue) + 1
    OBVIOUS
<1> SUFFICES ASSUME NEW i \in 0..Len(queue')
             PROVE  At(i)' = IF (Len(queue') - i) % 2 = 0 THEN LastSent'
                                                        ELSE Other(LastSent')
    BY DEF Alternating
<1>2. CASE i = Len(queue')
    BY <1>1, <1>2 DEF At, Other, LastSent, Kind
<1>3. CASE i < Len(queue')
    <2>1. i \in 0..Len(queue)
        BY <1>1, <1>3
    <2>2. At(i)' = At(i)
        BY <2>1 DEF At
    <2>3. At(i) = IF (Len(queue) - i) % 2 = 0 THEN LastSent ELSE Other(LastSent)
        BY <2>1 DEF Alternating
    <2>4. QED
        BY <1>1, <2>2, <2>3 DEF Other, LastSent, Kind
<1>4. QED
    BY <1>1, <1>2, <1>3

LEMMA ChanNext == ChanInv /\ [Next]_chanVars => ChanInv'
<1> SUFFICES ASSUME ChanInv, [Next]_chanVars PROVE ChanInv'
    OBVIOUS
<1> USE DEF ChanInv, ChanTypeOK
<1>1. CASE Begin
    <2>1. ChanTypeOK'
        BY <1>1 DEF Begin, Kind
    <2>2. Alternating'
        BY <1>1, AppendAlternates DEF Begin, LastSent, Other, Kind
    <2>3. QED
        BY <2>1, <2>2
<1>2. CASE End
    <2>1. ChanTypeOK'
        BY <1>2 DEF End, Kind
    <2>2. Alternating'
        BY <1>2, AppendAlternates DEF End, LastSent, Other, Kind
    <2>3. QED
        BY <2>1, <2>2
<1>3. CASE Deliver
    <2>1. ChanTypeOK'
        BY <1>3 DEF Deliver, Kind
    <2>2. Len(queue') = Len(queue) - 1 /\ LastSent' = LastSent
        BY <1>3 DEF Deliver, LastSent
    <2>3. SUFFICES ASSUME NEW i \in 0..Len(queue')
                   PROVE  At(i)' = IF (Len(queue') - i) % 2 = 0
                                   THEN LastSent' ELSE Other(LastSent')
        BY <2>1 DEF Alternating
    <2>4. At(i)' = At(i + 1)
        \* the sandbox's new state is the head it read; the rest moves up
        <3>1. CASE i = 0
            <4>1. queue # << >> /\ queue[1] \in Kind /\ delaying' = (queue[1] = "start")
                BY <1>3 DEF Deliver
            <4>2. At(i + 1) = queue[1]
                BY <3>1 DEF At
            <4>3. At(i)' = IF delaying' THEN "start" ELSE "stop"
                BY <3>1 DEF At
            <4>4. QED
                BY <4>1, <4>2, <4>3 DEF Kind
        <3>2. CASE i # 0
            <4>1. i \in 1..Len(queue) - 1 /\ queue' = Tail(queue) /\ queue # << >>
                BY <1>3, <2>2, <3>2 DEF Deliver
            <4>2. queue'[i] = queue[i + 1]
                BY <4>1
            <4>3. QED
                BY <4>2, <3>2 DEF At
        <3>3. QED
            BY <3>1, <3>2
    <2>5. At(i + 1) = IF (Len(queue) - (i + 1)) % 2 = 0 THEN LastSent
                                                      ELSE Other(LastSent)
        BY <2>2 DEF Alternating
    <2>6. QED
        BY <2>2, <2>4, <2>5
<1>4. CASE UNCHANGED chanVars
    BY <1>4 DEF chanVars, Alternating, At, LastSent
<1>5. QED
    BY <1>1, <1>2, <1>3, <1>4 DEF Next

\* The directive the sandbox reads is always of the other kind than its
\* state: the head of the queue is position 1 of the alternation.
LEMMA DeliverToggles ==
    ASSUME ChanInv, Deliver
    PROVE  delaying' # delaying
<1> USE DEF ChanInv, ChanTypeOK
<1>1. Len(queue) >= 1 /\ queue[1] \in Kind
    BY DEF Deliver
<1>2. At(0) = IF Len(queue) % 2 = 0 THEN LastSent ELSE Other(LastSent)
    BY <1>1 DEF Alternating
<1>3. At(1) = IF (Len(queue) - 1) % 2 = 0 THEN LastSent ELSE Other(LastSent)
    BY <1>1 DEF Alternating
<1>4. queue[1] # At(0)
    BY <1>1, <1>2, <1>3 DEF At, Other, LastSent
<1>5. delaying' = (queue[1] = "start")
    BY DEF Deliver
<1>6. QED
    BY <1>1, <1>4, <1>5 DEF At, Kind

(* Start and stop directives alternate on the way to the sandbox, and the *)
(* newest is the one the loop sent last, in every behaviour of the        *)
(* channel's safety specification.                                        *)
THEOREM ChanSafe == SafetySpec => []Alternating
<1>1. ChanInv => Alternating
    BY DEF ChanInv
<1>2. QED
    BY ChanInit, ChanNext, <1>1, PTL DEF SafetySpec
=============================================================================
