--------------------------- MODULE DirectiveChannel ---------------------------
(***************************************************************************)
(* What the monitor process promises the sandbox (spec sections 4.5 and    *)
(* 4.6): the control loop emits a start directive when it enters a         *)
(* mitigation and a stop directive when it leaves it; the directives reach *)
(* the sandbox in order, one at a time, none lost and none duplicated; the *)
(* sandbox delays after reading a start and not after reading a stop.      *)
(*                                                                         *)
(* The whole path (addrChan, the notifier and the pipe) is one FIFO queue  *)
(* of directive kinds here.  Monitor implements this specification under   *)
(* a refinement mapping (Monitor.tla, AC).                                 *)
(***************************************************************************)
EXTENDS Integers, Sequences

Kind == {"start", "stop"}

VARIABLES
    mode,      \* "mitigating" between the start and the stop, else "idle"
    queue,     \* directives sent and not yet read by the sandbox, oldest first
    delaying   \* the sandbox last read a start directive

chanVars == <<mode, queue, delaying>>

Init ==
    /\ mode = "idle"
    /\ queue = << >>
    /\ delaying = FALSE

\* The loop decides to mitigate and sends the start directive.
Begin ==
    /\ mode = "idle"
    /\ mode' = "mitigating"
    /\ queue' = Append(queue, "start")
    /\ UNCHANGED delaying

\* The mitigation window is over and the loop sends the stop directive.
End ==
    /\ mode = "mitigating"
    /\ mode' = "idle"
    /\ queue' = Append(queue, "stop")
    /\ UNCHANGED delaying

\* The sandbox reads the oldest directive.
Deliver ==
    /\ queue # << >>
    /\ delaying' = (Head(queue) = "start")
    /\ queue' = Tail(queue)
    /\ UNCHANGED mode

Next == Begin \/ End \/ Deliver

\* A mitigation that began ends, and what is sent is read; whether the
\* loop begins one is up to what it samples.
Spec == Init /\ [][Next]_chanVars /\ WF_chanVars(End) /\ WF_chanVars(Deliver)

SafetySpec == Init /\ [][Next]_chanVars

-----------------------------------------------------------------------------
\* The kind of the directive the loop sent last.
LastSent == IF mode = "mitigating" THEN "start" ELSE "stop"

\* The other kind.
Other(k) == IF k = "start" THEN "stop" ELSE "start"

\* Position i of the path to the sandbox: 0 is the sandbox's own state,
\* 1..Len(queue) the directives on their way, oldest first.
At(i) == IF i = 0 THEN IF delaying THEN "start" ELSE "stop" ELSE queue[i]

ChanTypeOK ==
    /\ mode \in {"idle", "mitigating"}
    /\ queue \in Seq(Kind)
    /\ delaying \in BOOLEAN

(* Along the path to the sandbox the directives alternate, and the newest *)
(* is the one the loop sent last: at most one mitigation is ever active,   *)
(* and the sandbox ends in the state the loop left it in.                  *)
Alternating ==
    \A i \in 0..Len(queue) :
        At(i) = IF (Len(queue) - i) % 2 = 0 THEN LastSent ELSE Other(LastSent)
=============================================================================
