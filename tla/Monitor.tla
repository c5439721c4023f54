------------------------------- MODULE Monitor -------------------------------
(***************************************************************************)
(* The "runsc monitor" process of Cijitter (src/gvisor/runsc/main.go):     *)
(* the control loop monitor(), which samples the target, updates the       *)
(* rolling window and sends mitigation directives into the single-slot     *)
(* channel addrChan, and the notifier goroutine, which moves each          *)
(* directive from the channel onto the inherited pipe (fd 11).  The        *)
(* sandbox end of the pipe is an environment action Receive: it reads the  *)
(* oldest directive and records whether the sandbox is now delaying.       *)
(*                                                                         *)
(* get_target_addr is abstracted to its result: a failed call only sleeps  *)
(* and retries, a stuttering step here; a successful one yields an         *)
(* address of Addrs and a count of Counts.                                 *)
(*                                                                         *)
(* The counter index is kept as slot (index % 3) and cycles (index capped  *)
(* at 4): the loop reads only index % 3 and index = 0, and the warm-up     *)
(* property asks only whether fewer than four cycles have run.             *)
(***************************************************************************)
EXTENDS DecisionEngine, Sequences

CONSTANTS
    Addrs,    \* addresses the profiler log can name ("0x%x" strings)
    Counts,   \* access counts get_target_addr can return
    PipeCap   \* directives the pipe holds before a write blocks

ASSUME CountsAssumption == Counts \subseteq Nat /\ Counts # {}
ASSUME AddrsAssumption == Addrs # {}
ASSUME PipeCapAssumption == PipeCap \in Nat \ {0}

\* make(chan string, 1): the capacity of addrChan.
ChanCap == 1

\* The directive "<addr> <acc>" that starts delaying, and stopSig "0x00000 0".
Start(a, c) == [kind |-> "start", addr |-> a, acc |-> c]
StopSig == [kind |-> "stop"]
Msg == {Start(a, c) : a \in Addrs, c \in Counts} \cup {StopSig}

\* The value of a local that holds no directive.
NoMsg == [kind |-> "none"]

VARIABLES
    lastAddrAcc,   \* last_addr_acc: the rolling window of counts
    lastDelay,     \* last_delay: whether each slot's last cycle mitigated
    slot,          \* index % 3: the slot of the next cycle
    cycles,        \* index, capped at 4
    delayInterval, \* delay_interval: the current sampling interval
    pc,            \* "sample", "start" (to send the start), "stop" (in window)
    addrAcc,       \* addr_acc of the current cycle
    msgChan,       \* addrChan, a buffered channel of capacity ChanCap
    note,          \* msg held by the notifier between receive and write
    pipe,          \* directives written to fd 11 and not yet read
    delaying       \* whether the sandbox end last read a start directive

monitorVars == <<lastAddrAcc, lastDelay, slot, cycles, delayInterval, pc, addrAcc>>
vars == <<monitorVars, msgChan, note, pipe, delaying>>

-----------------------------------------------------------------------------
(* monitor(): the window starts at 500 in every slot, every slot marked as *)
(* mitigated; the 40 s warm-up sleep changes no state.                     *)
Init ==
    /\ lastAddrAcc = [i \in Slots |-> 500]
    /\ lastDelay = [i \in Slots |-> TRUE]
    /\ slot = 0
    /\ cycles = 0
    /\ delayInterval = Interval
    /\ pc = "sample"
    /\ addrAcc = NoMsg
    /\ msgChan = <<>>
    /\ note = NoMsg
    /\ pipe = <<>>
    /\ delaying = FALSE

\* The pair delayStates returns in this cycle.
DS == DelayStates(lastDelay, slot, cycles = 0, delayInterval)

\* acc_cmp: the count c after the make-up step.
AccCmp(c) == MakeUp(DS[2], c, lastAddrAcc[(slot + 2) % 3])

\* last_addr_acc after acc_cmp is stored in this cycle's slot.
Window(c) == [lastAddrAcc EXCEPT ![slot] = AccCmp(c)]

(* One loop iteration up to its branch, with get_target_addr returning     *)
(* address a and count c: the interval policy, index++, the make-up, and   *)
(* the store, then the three ways the iteration goes on.                   *)
Decide(a, c) ==
    /\ pc = "sample"
    /\ delayInterval' = DS[1]
    /\ slot' = (slot + 1) % 3
    /\ cycles' = IF cycles < 4 THEN cycles + 1 ELSE 4
    /\ addrAcc' = Start(a, c)
    /\ \/ \* an outlier: the slot keeps its old count, and control falls
          \* through to the mitigation below
          /\ c > OutlierBound
          /\ UNCHANGED <<lastAddrAcc, lastDelay>>
          /\ pc' = "start"
       \/ \* a strip or an unstable window: undo the store if the last
          \* cycle mitigated, mark the slot, sleep and continue
          /\ c <= OutlierBound
          /\ AccCmp(c) <= StripBound \/ ~JudgeDelay(Window(c), slot)
          /\ lastAddrAcc' = IF DS[2] THEN lastAddrAcc ELSE Window(c)
          /\ lastDelay' = [lastDelay EXCEPT ![slot] = FALSE]
          /\ pc' = "sample"
       \/ \* a stable, high window: keep the store and mitigate
          /\ c <= OutlierBound
          /\ AccCmp(c) > StripBound /\ JudgeDelay(Window(c), slot)
          /\ lastAddrAcc' = Window(c)
          /\ UNCHANGED lastDelay
          /\ pc' = "start"
    /\ UNCHANGED <<msgChan, note, pipe, delaying>>

\* Mutant: a `continue` after the start send, skipping the window and stop.
SendStartNoWindow ==
    /\ pc = "start"
    /\ Len(msgChan) < ChanCap
    /\ msgChan' = Append(msgChan, addrAcc)
    /\ pc' = "sample"
    /\ UNCHANGED <<lastAddrAcc, lastDelay, slot, cycles, delayInterval,
                   addrAcc, note, pipe, delaying>>

(* msgChan <- addr_acc, blocking while the channel is full.  The address   *)
(* always contains "0x" (read_sample_logs formats it with "0x%x"), so the  *)
(* send is never skipped.                                                  *)
SendStart ==
    /\ pc = "start"
    /\ Len(msgChan) < ChanCap
    /\ msgChan' = Append(msgChan, addrAcc)
    /\ pc' = "stop"
    /\ UNCHANGED <<lastAddrAcc, lastDelay, slot, cycles, delayInterval,
                   addrAcc, note, pipe, delaying>>

\* Mutant: the stop sent with select/default, dropped when addrChan is full.
SendStopDropWhenFull ==
    /\ pc = "stop"
    /\ msgChan' = IF Len(msgChan) < ChanCap THEN Append(msgChan, StopSig)
                                             ELSE msgChan
    /\ lastDelay' = [lastDelay EXCEPT ![(slot + 2) % 3] = TRUE]
    /\ delayInterval' = Interval
    /\ pc' = "sample"
    /\ UNCHANGED <<lastAddrAcc, slot, cycles, addrAcc, note, pipe, delaying>>

\* Mutant: the interval is not reset after a mitigation.
SendStopNoReset ==
    /\ pc = "stop"
    /\ Len(msgChan) < ChanCap
    /\ msgChan' = Append(msgChan, StopSig)
    /\ lastDelay' = [lastDelay EXCEPT ![(slot + 2) % 3] = TRUE]
    /\ pc' = "sample"
    /\ UNCHANGED <<lastAddrAcc, slot, cycles, delayInterval, addrAcc, note,
                   pipe, delaying>>

(* After the mitigation window: msgChan <- stopSig, mark the cycle's slot  *)
(* (index was incremented, so it is (index - 1) % 3) as mitigated, reset   *)
(* the interval and sleep.                                                 *)
SendStop ==
    /\ pc = "stop"
    /\ Len(msgChan) < ChanCap
    /\ msgChan' = Append(msgChan, StopSig)
    /\ lastDelay' = [lastDelay EXCEPT ![(slot + 2) % 3] = TRUE]
    /\ delayInterval' = Interval
    /\ pc' = "sample"
    /\ UNCHANGED <<lastAddrAcc, slot, cycles, addrAcc, note, pipe, delaying>>

(* notifier: msg := <-msgChan.                                             *)
NotifierRecv ==
    /\ note = NoMsg
    /\ msgChan # <<>>
    /\ note' = Head(msgChan)
    /\ msgChan' = Tail(msgChan)
    /\ UNCHANGED <<monitorVars, pipe, delaying>>

(* notifier: json.NewEncoder(writer).Encode(msg), blocking on a full pipe. *)
NotifierWrite ==
    /\ note # NoMsg
    /\ Len(pipe) < PipeCap
    /\ pipe' = Append(pipe, note)
    /\ note' = NoMsg
    /\ UNCHANGED <<monitorVars, msgChan, delaying>>

(* The sandbox end of the pipe reads the oldest directive.                 *)
Receive ==
    /\ pipe # <<>>
    /\ delaying' = (Head(pipe).kind = "start")
    /\ pipe' = Tail(pipe)
    /\ UNCHANGED <<monitorVars, msgChan, note>>

MonitorStep ==
    \/ \E a \in Addrs, c \in Counts : Decide(a, c)
    \/ SendStart
    \/ SendStop

NotifierStep == NotifierRecv \/ NotifierWrite

Next == MonitorStep \/ NotifierStep \/ Receive

(* The goroutines are scheduled fairly and sleeps end; whether sampling    *)
(* succeeds is up to the environment, so Decide gets no fairness.          *)
Fairness ==
    /\ WF_vars(SendStart)
    /\ WF_vars(SendStop)
    /\ WF_vars(NotifierStep)
    /\ WF_vars(Receive)

Spec == Init /\ [][Next]_vars /\ Fairness

-----------------------------------------------------------------------------
(* Every variable ranges over the values the code can give it.             *)
TypeOK ==
    /\ lastAddrAcc \in [Slots -> Nat]
    /\ lastDelay \in [Slots -> BOOLEAN]
    /\ slot \in Slots
    /\ cycles \in 0..4
    /\ delayInterval \in {Interval, 10 * Interval, MaxInterval}
    /\ pc \in {"sample", "start", "stop"}
    /\ addrAcc \in Msg \cup {NoMsg}
    /\ msgChan \in Seq(Msg) /\ Len(msgChan) <= ChanCap
    /\ note \in Msg \cup {NoMsg}
    /\ pipe \in Seq(Msg) /\ Len(pipe) <= PipeCap
    /\ delaying \in BOOLEAN

\* The kinds of the directives of a sequence, oldest first.
Kinds(s) == [i \in DOMAIN s |-> s[i].kind]

\* The directive the notifier holds, as a sequence of at most one.
Held == IF note = NoMsg THEN <<>> ELSE <<note>>

(* The refinement mapping onto DirectiveChannel: the pipe, the notifier's *)
(* local and addrChan form one queue, in the order the sandbox will read  *)
(* them; the loop is mitigating while it is in its window.                 *)
ChannelQueue == Kinds(pipe) \o Kinds(Held) \o Kinds(msgChan)
LoopMode == IF pc = "stop" THEN "mitigating" ELSE "idle"

AC == INSTANCE DirectiveChannel WITH queue <- ChannelQueue, mode <- LoopMode

(* At most one mitigation is active: along the path from the control loop  *)
(* through addrChan, the notifier and the pipe to the sandbox, start and   *)
(* stop directives alternate, and the last one is a start exactly while    *)
(* the loop is in its mitigation window.  It fails if a send is lost or    *)
(* skipped, if the notifier reorders, or if a stop is sent twice.          *)
DirectiveOrder == AC!Alternating

(* The monitor process implements the directive channel: every step of     *)
(* the loop, the notifier and the pipe is a step of the abstract FIFO      *)
(* channel or leaves it unchanged, and its fairness holds (a started       *)
(* mitigation ends and every directive is read).                           *)
ChannelSpec == AC!Spec

(* Backoff happens only after quiet cycles (delayStates, monitor): between *)
(* cycles, an interval above the baseline means the last cycle did not     *)
(* mitigate, and the ceiling means neither of the last two did.            *)
BackoffOnlyWhenQuiet ==
    pc = "sample" =>
        /\ delayInterval > Interval => ~lastDelay[(slot + 2) % 3]
        /\ delayInterval = MaxInterval => ~lastDelay[(slot + 1) % 3]

(* Every mitigation ends at the sandbox: once it reads a start directive   *)
(* it eventually reads a stop (the loop's send of stopSig after the        *)
(* window, carried by the notifier).                                       *)
StopFollowsStart == delaying ~> ~delaying

(* Spec 4.4/4.5: an outlier count (> 3000) is discarded and the cycle does *)
(* not mitigate.  The code restores the slot but falls through to the      *)
(* mitigation branch of monitor.                                           *)
OutlierNotMitigated == pc = "start" => addrAcc.acc <= OutlierBound

(* Spec 3: the baseline window (500 in every slot) keeps the first three   *)
(* cycles from triggering a mitigation on uninitialised data.              *)
NoWarmupMitigation == pc = "start" => cycles > 3
=============================================================================
