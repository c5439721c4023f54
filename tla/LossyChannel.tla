---------------------------- MODULE LossyChannel ----------------------------
(***************************************************************************)
(* The directive channel of DirectiveChannel when the sandbox can exit     *)
(* (spec section 7).  While the sandbox runs it is the same FIFO channel.  *)
(* When it exits, the directives it had not read yet up to some point are  *)
(* gone at once (the pipe's buffer), and every directive still on its way *)
(* is later discarded in order without reaching anyone (the notifier's     *)
(* failed writes).  The control loop goes on sending either way.           *)
(*                                                                         *)
(* MonitorFaults implements this specification under the mapping of       *)
(* Monitor plus open <- readerOpen (MonitorFaults.tla, LC).                *)
(***************************************************************************)
EXTENDS DirectiveChannel

VARIABLE open   \* the sandbox is still running and reading

lossyVars == <<mode, queue, delaying, open>>

LossyInit == Init /\ open = TRUE

\* The loop starts or ends a mitigation, whether or not anyone reads.
LossyBegin == Begin /\ UNCHANGED open
LossyEnd == End /\ UNCHANGED open

\* The running sandbox reads the oldest directive.
LossyDeliver == open /\ Deliver /\ UNCHANGED open

\* The sandbox exits; the oldest directives, up to some point, are lost.
Exit ==
    /\ open
    /\ open' = FALSE
    /\ \E k \in 0..Len(queue) : queue' = SubSeq(queue, k + 1, Len(queue))
    /\ UNCHANGED <<mode, delaying>>

\* After the exit the oldest directive is dropped unread.
Discard ==
    /\ ~open
    /\ queue # << >>
    /\ queue' = Tail(queue)
    /\ UNCHANGED <<mode, delaying, open>>

LossyNext == LossyBegin \/ LossyEnd \/ LossyDeliver \/ Exit \/ Discard

\* A mitigation that began ends, and every directive sent is eventually
\* read or, once the sandbox is gone, dropped.
LossySpec ==
    /\ LossyInit /\ [][LossyNext]_lossyVars
    /\ WF_lossyVars(LossyEnd) /\ WF_lossyVars(LossyDeliver) /\ WF_lossyVars(Discard)

LossySafetySpec == LossyInit /\ [][LossyNext]_lossyVars

-----------------------------------------------------------------------------
LossyTypeOK == ChanTypeOK /\ open \in BOOLEAN

(* The directives still on their way alternate and the newest is the one  *)
(* the loop sent last, also after the sandbox is gone; while it runs, the *)
(* sandbox's own state continues the alternation.                         *)
InFlightAlternating ==
    \A i \in 1..Len(queue) :
        queue[i] = IF (Len(queue) - i) % 2 = 0 THEN LastSent ELSE Other(LastSent)

LossyAlternating == InFlightAlternating /\ (open => Alternating)
=============================================================================
