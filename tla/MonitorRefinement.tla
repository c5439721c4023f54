-------------------------- MODULE MonitorRefinement --------------------------
(***************************************************************************)
(* The monitor process implements the directive channel: under the         *)
(* refinement mapping of Monitor (ChannelQueue, LoopMode), every step of   *)
(* the control loop, the notifier and the sandbox end of the pipe is a     *)
(* step of DirectiveChannel or leaves its state unchanged.  With the       *)
(* channel's own invariant this proves DirectiveOrder for every pipe       *)
(* capacity, address set and count set.                                    *)
(***************************************************************************)
EXTENDS MonitorProofs, SequenceTheorems

ACP == INSTANCE DirectiveChannelProofs WITH queue <- ChannelQueue, mode <- LoopMode

(* The invariant the refinement needs beyond IInv: the loop's addrAcc is  *)
(* always a start directive once set, so SendStart appends a "start".      *)
RInv ==
    /\ IInv
    /\ addrAcc # NoMsg => addrAcc.kind = "start"

-----------------------------------------------------------------------------
\* Lemmas on sequences.

LEMMA AppendConcat ==
    ASSUME NEW S, NEW u \in Seq(S), NEW v \in Seq(S), NEW x \in S
    PROVE  u \o Append(v, x) = Append(u \o v, x)
<1>1. u \o v \in Seq(S) /\ <<x>> \in Seq(S)
    BY ConcatProperties
<1>2. Append(v, x) = v \o <<x>> /\ Append(u \o v, x) = (u \o v) \o <<x>>
    BY <1>1, AppendIsConcat
<1>3. QED
    BY <1>1, <1>2, ConcatAssociative

LEMMA HeadTailConcat ==
    ASSUME NEW S, NEW u \in Seq(S), NEW v \in Seq(S), u # << >>
    PROVE  /\ Head(u \o v) = Head(u)
           /\ Tail(u \o v) = Tail(u) \o v
<1>1. /\ u \o v \in Seq(S) /\ Len(u \o v) = Len(u) + Len(v)
      /\ \A i \in 1 .. Len(u) + Len(v) :
            (u \o v)[i] = IF i <= Len(u) THEN u[i] ELSE v[i - Len(u)]
    BY ConcatProperties
<1>2. Len(u) >= 1 /\ Tail(u) \in Seq(S) /\ Len(Tail(u)) = Len(u) - 1
      /\ \A i \in 1 .. Len(Tail(u)) : Tail(u)[i] = u[i + 1]
    BY HeadTailProperties, EmptySeq
<1>3. Head(u \o v) = Head(u)
    BY <1>1, <1>2
<1>4. u \o v # << >>
    BY <1>1, <1>2, EmptySeq
<1>5. /\ Tail(u \o v) \in Seq(S) /\ Len(Tail(u \o v)) = Len(u) + Len(v) - 1
      /\ \A i \in 1 .. Len(u) + Len(v) - 1 : Tail(u \o v)[i] = (u \o v)[i + 1]
    BY <1>1, <1>4, HeadTailProperties
<1>6. /\ Tail(u) \o v \in Seq(S) /\ Len(Tail(u) \o v) = Len(u) - 1 + Len(v)
      /\ \A i \in 1 .. Len(u) - 1 + Len(v) :
            (Tail(u) \o v)[i] = IF i <= Len(u) - 1 THEN Tail(u)[i] ELSE v[i - (Len(u) - 1)]
    BY <1>2, ConcatProperties
<1>7. Tail(u \o v) = Tail(u) \o v
    BY <1>1, <1>2, <1>5, <1>6, SeqEqual
<1>8. QED
    BY <1>3, <1>7

\* Kinds keeps a sequence of directives a sequence, element by element.
LEMMA KindsType ==
    ASSUME NEW s \in Seq(Msg)
    PROVE  /\ Kinds(s) \in Seq(ACP!Kind)
           /\ Len(Kinds(s)) = Len(s)
           /\ \A i \in 1 .. Len(s) : Kinds(s)[i] = s[i].kind
<1>1. \A m \in Msg : m.kind \in ACP!Kind
    BY DEF Msg, Start, StopSig, ACP!Kind
<1>2. DOMAIN s = 1 .. Len(s)
    OBVIOUS
<1>3. QED
    BY <1>1, <1>2 DEF Kinds

LEMMA KindsAppend ==
    ASSUME NEW s \in Seq(Msg), NEW m \in Msg
    PROVE  Kinds(Append(s, m)) = Append(Kinds(s), m.kind)
<1>1. Append(s, m) \in Seq(Msg) /\ Len(Append(s, m)) = Len(s) + 1
    BY AppendProperties
<1>2. /\ Kinds(s) \in Seq(ACP!Kind) /\ Len(Kinds(s)) = Len(s)
      /\ \A i \in 1 .. Len(s) : Kinds(s)[i] = s[i].kind
    BY KindsType
<1>3. /\ Kinds(Append(s, m)) \in Seq(ACP!Kind) /\ Len(Kinds(Append(s, m))) = Len(s) + 1
      /\ \A i \in 1 .. Len(s) + 1 : Kinds(Append(s, m))[i] = Append(s, m)[i].kind
    BY <1>1, KindsType
<1>4. m.kind \in ACP!Kind
    BY DEF Msg, Start, StopSig, ACP!Kind
<1>5. QED
    BY <1>2, <1>3, <1>4, SeqEqual, AppendProperties

LEMMA KindsHeadTail ==
    ASSUME NEW s \in Seq(Msg), s # << >>
    PROVE  /\ Kinds(s) # << >>
           /\ Head(Kinds(s)) = Head(s).kind
           /\ Kinds(Tail(s)) = Tail(Kinds(s))
<1>1. /\ Kinds(s) \in Seq(ACP!Kind) /\ Len(Kinds(s)) = Len(s)
      /\ \A i \in 1 .. Len(s) : Kinds(s)[i] = s[i].kind
    BY KindsType
<1>2. Len(s) >= 1 /\ Tail(s) \in Seq(Msg) /\ Len(Tail(s)) = Len(s) - 1
    BY HeadTailProperties, EmptySeq
<1>3. /\ Kinds(Tail(s)) \in Seq(ACP!Kind) /\ Len(Kinds(Tail(s))) = Len(s) - 1
      /\ \A i \in 1 .. Len(s) - 1 : Kinds(Tail(s))[i] = Tail(s)[i].kind
    BY <1>2, KindsType
<1>4. Kinds(s) # << >>
    BY <1>1, <1>2, EmptySeq
<1>5. Head(Kinds(s)) = Head(s).kind
    BY <1>1, <1>2
<1>6. /\ Tail(Kinds(s)) \in Seq(ACP!Kind) /\ Len(Tail(Kinds(s))) = Len(s) - 1
      /\ \A i \in 1 .. Len(s) - 1 : Tail(Kinds(s))[i] = Kinds(s)[i + 1]
    BY <1>1, <1>4, HeadTailProperties
<1>7. \A i \in 1 .. Len(s) - 1 : Tail(s)[i] = s[i + 1]
    BY <1>2, HeadTailProperties
<1>8. \A i \in 1 .. Len(s) - 1 : Kinds(Tail(s))[i] = Tail(Kinds(s))[i]
    BY <1>1, <1>3, <1>6, <1>7
<1>9. Kinds(Tail(s)) = Tail(Kinds(s))
    BY <1>3, <1>6, <1>8, SeqEqual
<1>10. QED
    BY <1>4, <1>5, <1>9

LEMMA KindsEmpty == Kinds(<< >>) = << >>
BY DEF Kinds

LEMMA KindsSingle ==
    ASSUME NEW m
    PROVE  Kinds(<<m>>) = <<m.kind>>
BY DEF Kinds

\* The notifier's local, as a sequence, holds the directive it holds.
LEMMA HeldType ==
    ASSUME TypeOK
    PROVE  /\ Held \in Seq(Msg)
           /\ note = NoMsg => Held = << >>
           /\ note # NoMsg => Held = <<note>>
BY DEF TypeOK, Held

\* Every segment of the path to the sandbox is a sequence of kinds.
LEMMA SegmentsType ==
    ASSUME TypeOK
    PROVE  /\ Kinds(pipe) \in Seq(ACP!Kind)
           /\ Kinds(Held) \in Seq(ACP!Kind)
           /\ Kinds(msgChan) \in Seq(ACP!Kind)
BY HeldType, KindsType DEF TypeOK

-----------------------------------------------------------------------------
\* The invariant.

LEMMA InitRInv == Init => RInv
BY InitIInv DEF Init, RInv

LEMMA NextRInv == RInv /\ [Next]_vars => RInv'
<1> SUFFICES ASSUME RInv, [Next]_vars PROVE RInv'
    OBVIOUS
<1>1. IInv'
    BY NextIInv DEF RInv
<1>2. ASSUME NEW a \in Addrs, NEW c \in Counts, Decide(a, c)
      PROVE  (addrAcc # NoMsg => addrAcc.kind = "start")'
    BY <1>2 DEF Decide, Start
<1>3. ASSUME ~\E a \in Addrs, c \in Counts : Decide(a, c)
      PROVE  (addrAcc # NoMsg => addrAcc.kind = "start")'
    <2>1. UNCHANGED addrAcc
        BY <1>3 DEF Next, MonitorStep, SendStart, SendStop, NotifierStep,
                    NotifierRecv, NotifierWrite, Receive, vars, monitorVars
    <2>2. QED
        BY <2>1 DEF RInv
<1>4. (addrAcc # NoMsg => addrAcc.kind = "start")'
    BY <1>2, <1>3
<1>5. QED
    BY <1>1, <1>4 DEF RInv

-----------------------------------------------------------------------------
\* Refinement.

LEMMA RefineInit == Init => ACP!Init
<1> SUFFICES ASSUME Init PROVE ACP!Init
    OBVIOUS
<1>1. Held = << >>
    BY DEF Init, Held
<1>2. Kinds(pipe) = << >> /\ Kinds(Held) = << >> /\ Kinds(msgChan) = << >>
    BY <1>1, KindsEmpty DEF Init
<1>3. ChannelQueue = << >>
    BY <1>2 DEF ChannelQueue
<1>4. QED
    BY <1>3 DEF Init, ACP!Init, LoopMode

\* A start or a stop sent by the loop is appended to the abstract queue.
LEMMA SendAppends ==
    ASSUME TypeOK, NEW m \in Msg, msgChan' = Append(msgChan, m),
           UNCHANGED <<note, pipe>>
    PROVE  ChannelQueue' = Append(ChannelQueue, m.kind)
<1>1. Kinds(msgChan') = Append(Kinds(msgChan), m.kind)
    BY KindsAppend DEF TypeOK
<1>2. Kinds(pipe) \o Kinds(Held) \in Seq(ACP!Kind) /\ m.kind \in ACP!Kind
    BY SegmentsType, ConcatProperties DEF Msg, Start, StopSig, ACP!Kind
<1>3. Held' = Held
    BY DEF Held
<1>4. QED
    BY <1>1, <1>2, <1>3, SegmentsType, AppendConcat DEF ChannelQueue

\* The sandbox's read takes the oldest directive of the abstract queue:
\* the pipe is the front of the path.
LEMMA ReceiveDelivers ==
    ASSUME TypeOK, Receive
    PROVE  ACP!Deliver
<1> DEFINE P == Kinds(pipe)  H == Kinds(Held)  M == Kinds(msgChan)
<1>0. P \in Seq(ACP!Kind) /\ H \in Seq(ACP!Kind) /\ M \in Seq(ACP!Kind)
    BY SegmentsType
<1>1. pipe \in Seq(Msg) /\ pipe # << >>
    BY DEF Receive, TypeOK
<1>2. P # << >> /\ Head(P) = Head(pipe).kind /\ Kinds(pipe') = Tail(P)
    BY <1>1, KindsHeadTail DEF Receive
<1>3. H \o M \in Seq(ACP!Kind) /\ ChannelQueue = P \o (H \o M)
    BY <1>0, ConcatProperties, ConcatAssociative DEF ChannelQueue
<1>4. Head(ChannelQueue) = Head(pipe).kind
      /\ Tail(ChannelQueue) = Tail(P) \o (H \o M)
    BY <1>0, <1>2, <1>3, HeadTailConcat
<1>5. ChannelQueue # << >>
    BY <1>0, <1>2, <1>3, ConcatEqualIffEmpty
<1>6. Tail(P) \in Seq(ACP!Kind)
    BY <1>0, <1>2, HeadTailProperties
<1>7. Kinds(Held') = H /\ Kinds(msgChan') = M
    BY DEF Receive, Held
<1>8. ChannelQueue' = (Tail(P) \o H) \o M
    BY <1>2, <1>7 DEF ChannelQueue
<1>9. (Tail(P) \o H) \o M = Tail(P) \o (H \o M)
    BY <1>0, <1>6, ConcatAssociative
<1>10. ChannelQueue' = Tail(ChannelQueue)
    BY <1>4, <1>8, <1>9
<1>11. QED
    BY <1>4, <1>5, <1>10 DEF Receive, ACP!Deliver, LoopMode, ChannelQueue,
                             monitorVars

\* Each step of the control loop sends a start (Begin), a stop (End), or
\* leaves the abstract channel alone.
LEMMA LoopRefines ==
    ASSUME RInv, MonitorStep
    PROVE  ACP!Begin \/ ACP!End \/ UNCHANGED ACP!chanVars
<1> USE DEF RInv, IInv
<1>1. ASSUME NEW a \in Addrs, NEW c \in Counts, Decide(a, c)
      PROVE  UNCHANGED ACP!chanVars
    BY <1>1 DEF Decide, ACP!chanVars, LoopMode, ChannelQueue, Held
<1>2. CASE SendStart
    <2>1. addrAcc \in Msg /\ addrAcc.kind = "start"
        <3>1. addrAcc \in Msg
            BY <1>2 DEF SendStart
        <3>2. addrAcc # NoMsg
            BY <3>1 DEF Msg, Start, StopSig, NoMsg
        <3>3. QED
            BY <3>1, <3>2
    <2>2. ChannelQueue' = Append(ChannelQueue, "start")
        BY <1>2, <2>1, SendAppends DEF SendStart
    <2>3. QED
        BY <1>2, <2>2 DEF SendStart, ACP!Begin, LoopMode
<1>3. CASE SendStop
    <2>1. ChannelQueue' = Append(ChannelQueue, "stop")
        BY <1>3, SendAppends DEF SendStop, Msg, StopSig
    <2>2. QED
        BY <1>3, <2>1 DEF SendStop, ACP!End, LoopMode
<1>4. QED
    BY <1>1, <1>2, <1>3 DEF MonitorStep

\* The notifier moves a directive along the path without changing the
\* abstract queue: addrChan holds at most one, and the pipe is its front.
LEMMA NotifierStutters ==
    ASSUME TypeOK, NotifierStep
    PROVE  UNCHANGED ACP!chanVars
<1> DEFINE P == Kinds(pipe)  H == Kinds(Held)  M == Kinds(msgChan)
<1>0. P \in Seq(ACP!Kind) /\ H \in Seq(ACP!Kind) /\ M \in Seq(ACP!Kind)
    BY SegmentsType
<1>1. CASE NotifierRecv
    <2>1. msgChan \in Seq(Msg) /\ Len(msgChan) <= 1 /\ msgChan # << >>
        BY <1>1 DEF NotifierRecv, TypeOK, ChanCap
    <2>2. Len(msgChan) = 1
        <3>1. Len(msgChan) \in Nat /\ Len(msgChan) # 0 /\ Len(msgChan) <= 1
            BY <2>1, EmptySeq
        <3>2. QED
            BY <3>1
    <2>3. msgChan = <<msgChan[1]>> /\ msgChan[1] \in Msg
        BY <2>1, <2>2
    <2>4. msgChan' = << >>
        BY <1>1, <2>1, <2>2, HeadTailProperties, EmptySeq DEF NotifierRecv
    <2>5. msgChan[1] # NoMsg
        BY <2>3 DEF Msg, Start, StopSig, NoMsg
    <2>6. Held' = <<msgChan[1]>> /\ Held = << >>
        BY <1>1, <2>3, <2>5 DEF NotifierRecv, Held
    <2>7. Kinds(Held') = M /\ Kinds(msgChan') = << >> /\ H = << >>
        BY <2>3, <2>4, <2>6, KindsSingle, KindsEmpty
    <2>8. ChannelQueue' = ChannelQueue
        BY <1>0, <1>1, <2>7, ConcatEmptySeq DEF NotifierRecv, ChannelQueue
    <2>9. QED
        BY <1>1, <2>8 DEF NotifierRecv, ACP!chanVars, LoopMode, ChannelQueue,
                           monitorVars
<1>2. CASE NotifierWrite
    <2>1. note \in Msg /\ Held = <<note>> /\ Held' = << >>
        BY <1>2, HeldType DEF NotifierWrite, TypeOK, Held
    <2>2. Kinds(pipe') = Append(P, note.kind)
        BY <1>2, <2>1, KindsAppend DEF NotifierWrite, TypeOK
    <2>3. H = <<note.kind>> /\ Kinds(Held') = << >>
        BY <2>1, KindsSingle, KindsEmpty
    <2>4. note.kind \in ACP!Kind
        BY <2>1 DEF Msg, Start, StopSig, ACP!Kind
    <2>5. Kinds(pipe') = P \o H
        BY <1>0, <2>2, <2>3, <2>4, AppendIsConcat
    <2>6. ChannelQueue' = ChannelQueue
        BY <1>0, <1>2, <2>3, <2>5, ConcatEmptySeq, ConcatProperties
        DEF NotifierWrite, ChannelQueue
    <2>7. QED
        BY <1>2, <2>6 DEF NotifierWrite, ACP!chanVars, LoopMode, ChannelQueue,
                           monitorVars
<1>3. QED
    BY <1>1, <1>2 DEF NotifierStep

LEMMA RefineStep == RInv /\ [Next]_vars => [ACP!Next]_ACP!chanVars
<1> SUFFICES ASSUME RInv, [Next]_vars PROVE [ACP!Next]_ACP!chanVars
    OBVIOUS
<1>1. CASE MonitorStep
    BY <1>1, LoopRefines DEF ACP!Next
<1>2. CASE NotifierStep
    BY <1>2, NotifierStutters DEF RInv, IInv
<1>3. CASE Receive
    BY <1>3, ReceiveDelivers DEF ACP!Next, RInv, IInv
<1>4. CASE UNCHANGED vars
    BY <1>4 DEF vars, monitorVars, ACP!chanVars, LoopMode, ChannelQueue, Held
<1>5. QED
    BY <1>1, <1>2, <1>3, <1>4 DEF Next

(* The monitor process implements the safety part of the directive        *)
(* channel (ChannelSpec without its fairness): from its initial state the  *)
(* loop, addrChan, the notifier and the pipe together only ever append a    *)
(* start while idle, a stop while mitigating, or hand the oldest directive *)
(* to the sandbox.                                                         *)
THEOREM Refinement == Spec => ACP!SafetySpec
<1>1. RInv /\ [][Next]_vars => [][ACP!Next]_ACP!chanVars
    BY NextRInv, RefineStep, PTL
<1>2. QED
    BY InitRInv, RefineInit, <1>1, PTL DEF Spec, ACP!SafetySpec

(* DirectiveOrder holds in every reachable state, for every PipeCap,       *)
(* Addrs and Counts: start and stop directives alternate from the loop    *)
(* through addrChan, the notifier and the pipe to the sandbox.             *)
THEOREM DirectiveOrderSafe == Spec => []DirectiveOrder
<1>1. ACP!Alternating => DirectiveOrder
    BY DEF DirectiveOrder, AC!Alternating, ACP!Alternating, AC!At, ACP!At,
           AC!LastSent, ACP!LastSent, AC!Other, ACP!Other
<1>2. QED
    BY Refinement, ACP!ChanSafe, <1>1, PTL
=============================================================================
