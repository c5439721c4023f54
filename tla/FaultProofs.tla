------------------------------ MODULE FaultProofs ------------------------------
(***************************************************************************)
(* The monitor process implements the lossy directive channel when the     *)
(* sandbox can exit: under Monitor's mapping plus open <- readerOpen, the  *)
(* pipe's loss on close is an Exit that drops a prefix of the queue, and   *)
(* a failed write of the notifier is a Discard of its head.  With the      *)
(* lossy channel's invariant this proves FaultDirectiveOrder for every     *)
(* pipe capacity, address set and count set.                              *)
(***************************************************************************)
EXTENDS MonitorFaults, MonitorRefinement

LCP == INSTANCE LossyChannelProofs
         WITH queue <- ChannelQueue, mode <- LoopMode, open <- readerOpen

(* RInv, and once the sandbox is gone the pipe stays empty: nothing        *)
(* writes to it after ReaderClose, so the notifier's local is the front of *)
(* the path.                                                               *)
FaultInv ==
    /\ RInv
    /\ readerOpen \in BOOLEAN
    /\ ~readerOpen => pipe = << >>

\* What is left of a concatenation after its first part.
LEMMA SuffixOfConcat ==
    ASSUME NEW S, NEW u \in Seq(S), NEW v \in Seq(S)
    PROVE  SubSeq(u \o v, Len(u) + 1, Len(u \o v)) = v
<1>1. /\ u \o v \in Seq(S) /\ Len(u \o v) = Len(u) + Len(v)
      /\ \A i \in 1 .. Len(u) + Len(v) :
            (u \o v)[i] = IF i <= Len(u) THEN u[i] ELSE v[i - Len(u)]
    BY ConcatProperties
<1>2. \A i \in Len(u) + 1 .. Len(u \o v) : (u \o v)[i] \in S
    BY <1>1
<1>3. /\ SubSeq(u \o v, Len(u) + 1, Len(u \o v)) \in Seq(S)
      /\ Len(SubSeq(u \o v, Len(u) + 1, Len(u \o v))) = Len(v)
      /\ \A i \in 1 .. Len(v) :
            SubSeq(u \o v, Len(u) + 1, Len(u \o v))[i] = (u \o v)[Len(u) + i]
    BY <1>1, <1>2, SubSeqProperties
<1>4. \A i \in 1 .. Len(v) : SubSeq(u \o v, Len(u) + 1, Len(u \o v))[i] = v[i]
    BY <1>1, <1>3
<1>5. QED
    BY <1>3, <1>4, SeqEqual

-----------------------------------------------------------------------------
\* The invariant.

LEMMA FaultInvInit == FaultInit => FaultInv
BY InitRInv DEF FaultInit, FaultInv, Init

\* The steps the fault model shares with Monitor are steps of its Next.
LEMMA SharedSteps ==
    /\ LoopStep => Next /\ UNCHANGED <<pipe, readerOpen>>
    /\ NotifierRecv /\ UNCHANGED readerOpen => Next /\ UNCHANGED pipe
    /\ readerOpen /\ NotifierWrite /\ UNCHANGED readerOpen => Next
    /\ SandboxReceive => Next /\ readerOpen /\ UNCHANGED readerOpen
BY DEF LoopStep, MonitorStep, Decide, SendStart, SendStop, NotifierRecv,
       SandboxReceive, Next, NotifierStep

LEMMA FaultInvNext == FaultInv /\ [FaultNext]_faultVars => FaultInv'
<1> SUFFICES ASSUME FaultInv, [FaultNext]_faultVars PROVE FaultInv'
    OBVIOUS
<1> USE DEF FaultInv
<1>1. ASSUME Next, UNCHANGED readerOpen, readerOpen \/ UNCHANGED pipe
      PROVE  FaultInv'
    BY <1>1, NextRInv
<1>2. CASE NotifierWriteFail
    \* the local is cleared; everything RInv speaks of is left alone
    BY <1>2 DEF NotifierWriteFail, RInv, IInv, TypeOK, monitorVars
<1>3. CASE ReaderClose
    \* the pipe is emptied, which TypeOK allows for every capacity
    <2>1. pipe' \in Seq(Msg) /\ Len(pipe') <= PipeCap
        BY <1>3, PipeCapAssumption DEF ReaderClose
    <2>2. TypeOK'
        BY <1>3, <2>1 DEF ReaderClose, RInv, IInv, TypeOK, monitorVars
    <2>3. QED
        BY <1>3, <2>2 DEF ReaderClose, RInv, IInv, monitorVars
<1>4. CASE UNCHANGED faultVars
    BY <1>4 DEF faultVars, vars, monitorVars, RInv, IInv, TypeOK, Msg, Held
<1>5. QED
    BY <1>1, <1>2, <1>3, <1>4, SharedSteps DEF FaultNext, FaultNotifierStep

-----------------------------------------------------------------------------
\* Refinement.

\* A failed write drops the head of the abstract queue: with the pipe
\* empty, the notifier's local is the oldest directive on the path.
LEMMA WriteFailDiscards ==
    ASSUME FaultInv, NotifierWriteFail
    PROVE  LCP!Discard
<1> USE DEF FaultInv, RInv, IInv
<1> DEFINE M == Kinds(msgChan)
<1>1. M \in Seq(ACP!Kind) /\ Kinds(pipe) = << >>
    BY SegmentsType, KindsEmpty DEF NotifierWriteFail
<1>2. note \in Msg /\ Held = <<note>> /\ Held' = << >> /\ note.kind \in ACP!Kind
    BY HeldType DEF NotifierWriteFail, TypeOK, Held, Msg, Start, StopSig, ACP!Kind
<1>3. Kinds(Held) = <<note.kind>> /\ Kinds(Held') = << >>
    BY <1>2, KindsSingle, KindsEmpty
<1>4. ChannelQueue = <<note.kind>> \o M
    BY <1>1, <1>3, ConcatEmptySeq DEF ChannelQueue
<1>5. ChannelQueue' = M
    BY <1>1, <1>3, ConcatEmptySeq DEF NotifierWriteFail, ChannelQueue
<1>6. ChannelQueue # << >> /\ Tail(ChannelQueue) = M
    <2>1. <<note.kind>> \in Seq(ACP!Kind) /\ <<note.kind>> # << >>
        BY <1>2
    <2>2. Tail(<<note.kind>> \o M) = Tail(<<note.kind>>) \o M
        BY <1>1, <2>1, HeadTailConcat
    <2>3. Tail(<<note.kind>>) = << >>
        OBVIOUS
    <2>4. <<note.kind>> \o M # << >>
        BY <1>1, <2>1, ConcatEqualIffEmpty
    <2>5. QED
        BY <1>1, <1>4, <2>2, <2>3, <2>4, ConcatEmptySeq
<1>7. QED
    BY <1>5, <1>6 DEF NotifierWriteFail, LCP!Discard, LoopMode, monitorVars

\* The sandbox's exit drops the pipe, a prefix of the abstract queue.
LEMMA CloseExits ==
    ASSUME FaultInv, ReaderClose
    PROVE  LCP!Exit
<1> USE DEF FaultInv, RInv, IInv
<1> DEFINE P == Kinds(pipe)  R == Kinds(Held) \o Kinds(msgChan)
<1>1. P \in Seq(ACP!Kind) /\ R \in Seq(ACP!Kind) /\ Len(P) = Len(pipe)
    BY SegmentsType, ConcatProperties, KindsType DEF TypeOK
<1>2. ChannelQueue = P \o R
    BY SegmentsType, ConcatAssociative DEF ChannelQueue
<1>3. ChannelQueue' = R
    BY SegmentsType, KindsEmpty, ConcatEmptySeq DEF ReaderClose, ChannelQueue, Held
<1>4. Len(ChannelQueue) = Len(P) + Len(R)
    BY <1>1, <1>2, ConcatProperties
<1>5. ChannelQueue' = SubSeq(ChannelQueue, Len(P) + 1, Len(ChannelQueue))
    BY <1>1, <1>2, <1>3, SuffixOfConcat
<1>6. Len(P) \in 0 .. Len(ChannelQueue)
    BY <1>1, <1>4
<1>7. QED
    BY <1>5, <1>6 DEF ReaderClose, LCP!Exit, LoopMode, monitorVars

LEMMA FaultRefineStep ==
    FaultInv /\ [FaultNext]_faultVars => [LCP!LossyNext]_LCP!lossyVars
<1> SUFFICES ASSUME FaultInv, [FaultNext]_faultVars
             PROVE  [LCP!LossyNext]_LCP!lossyVars
    OBVIOUS
<1>1. CASE LoopStep
    <2>1. ACP!Begin \/ ACP!End \/ UNCHANGED ACP!chanVars
        BY <1>1, LoopRefines DEF LoopStep, FaultInv
    <2>2. UNCHANGED readerOpen
        BY <1>1 DEF LoopStep
    <2>3. QED
        BY <2>1, <2>2 DEF ACP!Begin, ACP!End, ACP!chanVars, LCP!LossyNext,
           LCP!LossyBegin, LCP!LossyEnd, LCP!Begin, LCP!End, LCP!lossyVars
<1>2. CASE (NotifierRecv /\ UNCHANGED readerOpen) \/ (readerOpen /\ NotifierWrite /\ UNCHANGED readerOpen)
    <2>1. UNCHANGED ACP!chanVars
        BY <1>2, NotifierStutters DEF NotifierStep, FaultInv, RInv, IInv
    <2>2. QED
        BY <1>2, <2>1 DEF ACP!chanVars, LCP!lossyVars
<1>3. CASE NotifierWriteFail
    BY <1>3, WriteFailDiscards DEF LCP!LossyNext
<1>4. CASE SandboxReceive
    <2>1. ACP!Deliver /\ readerOpen /\ UNCHANGED readerOpen
        BY <1>4, ReceiveDelivers DEF SandboxReceive, FaultInv, RInv, IInv
    <2>2. QED
        BY <2>1 DEF ACP!Deliver, LCP!LossyNext, LCP!LossyDeliver, LCP!Deliver
<1>5. CASE ReaderClose
    BY <1>5, CloseExits DEF LCP!LossyNext
<1>6. CASE UNCHANGED faultVars
    BY <1>6 DEF faultVars, vars, monitorVars, LCP!lossyVars, LoopMode, ChannelQueue, Held
<1>7. QED
    BY <1>1, <1>2, <1>3, <1>4, <1>5, <1>6 DEF FaultNext, FaultNotifierStep

(* The monitor process with a sandbox that may exit implements the safety *)
(* part of the lossy channel (FaultChannelSpec without its fairness): the  *)
(* loop only appends a start while idle or a stop while mitigating, the  *)
(* sandbox reads the oldest directive, its exit drops the oldest ones,    *)
(* and a failed write drops the oldest one left.                           *)
THEOREM FaultRefinement == FaultSpec => LCP!LossySafetySpec
<1>1. FaultInit => LCP!LossyInit
    BY RefineInit DEF FaultInit, ACP!Init, LCP!LossyInit, LCP!Init
<1>2. FaultInv /\ [][FaultNext]_faultVars => [][LCP!LossyNext]_LCP!lossyVars
    BY FaultInvNext, FaultRefineStep, PTL
<1>3. QED
    BY FaultInvInit, <1>1, <1>2, PTL DEF FaultSpec, LCP!LossySafetySpec

(* FaultDirectiveOrder holds in every reachable state, for every PipeCap,  *)
(* Addrs and Counts: the sandbox's exit and the notifier's failed writes   *)
(* never leave two starts or two stops next to each other on the path.     *)
THEOREM FaultDirectiveOrderSafe == FaultSpec => []FaultDirectiveOrder
<1>1. LCP!LossyAlternating => FaultDirectiveOrder
    BY DEF FaultDirectiveOrder, LC!LossyAlternating, LCP!LossyAlternating,
           LC!InFlightAlternating, LCP!InFlightAlternating,
           LC!Alternating, LCP!Alternating, LC!At, LCP!At,
           LC!LastSent, LCP!LastSent, LC!Other, LCP!Other
<1>2. QED
    BY FaultRefinement, LCP!LossySafe, <1>1, PTL
=============================================================================
