---------------------------- MODULE MonitorFaults ----------------------------
(***************************************************************************)
(* The monitor process when the sandbox goes away.  The read end of the    *)
(* pipe (fd 13 of runsc boot) closes when the sandbox exits, and what the  *)
(* pipe held is lost.  From then on every json.Encoder.Encode of notifier  *)
(* fails with EPIPE (Go ignores SIGPIPE on descriptors other than 1 and    *)
(* 2); notifier logs the error and takes the next message.  The monitor    *)
(* process itself goes on until it is killed.                              *)
(***************************************************************************)
EXTENDS Monitor

VARIABLE readerOpen   \* the sandbox still holds the read end of the pipe

faultVars == <<vars, readerOpen>>

FaultInit == Init /\ readerOpen = TRUE

\* The sandbox exits: the read end closes and the unread directives go.
ReaderClose ==
    /\ readerOpen
    /\ readerOpen' = FALSE
    /\ pipe' = << >>
    /\ UNCHANGED <<monitorVars, msgChan, note, delaying>>

\* Mutant: the notifier goroutine returns on a write error.
NotifierWriteFailReturn ==
    /\ ~readerOpen
    /\ note # NoMsg
    /\ UNCHANGED faultVars

(* notifier: Encode fails on the closed pipe; the error is logged, the     *)
(* message dropped, and the loop receives the next one.                    *)
NotifierWriteFail ==
    /\ ~readerOpen
    /\ note # NoMsg
    /\ note' = NoMsg
    /\ UNCHANGED <<monitorVars, msgChan, pipe, delaying, readerOpen>>

\* The notifier's steps while the sandbox reads, and after it is gone.
FaultNotifierStep ==
    \/ NotifierRecv /\ UNCHANGED readerOpen
    \/ readerOpen /\ NotifierWrite /\ UNCHANGED readerOpen
    \/ NotifierWriteFail

\* The loop's steps, which do not see the pipe.
LoopStep == MonitorStep /\ UNCHANGED readerOpen

\* The sandbox reads while it runs.
SandboxReceive == readerOpen /\ Receive /\ UNCHANGED readerOpen

FaultNext == LoopStep \/ FaultNotifierStep \/ SandboxReceive \/ ReaderClose

\* The fairness of Monitor; the sandbox may exit or not.
FaultSpec ==
    /\ FaultInit /\ [][FaultNext]_faultVars
    /\ WF_faultVars(SendStart /\ UNCHANGED readerOpen)
    /\ WF_faultVars(SendStop /\ UNCHANGED readerOpen)
    /\ WF_faultVars(FaultNotifierStep)
    /\ WF_faultVars(SandboxReceive)

(* The refinement mapping onto LossyChannel: Monitor's queue and mode, and *)
(* the sandbox is running while it holds the read end.                     *)
LC == INSTANCE LossyChannel
        WITH queue <- ChannelQueue, mode <- LoopMode, open <- readerOpen

(* The monitor implements the lossy channel, fairness included: the exit  *)
(* loses what the pipe held, every later directive is dropped by a failed *)
(* write in the order sent, and every one is eventually read or dropped.   *)
FaultChannelSpec == LC!LossySpec

(* Start and stop directives still alternate on their way out after the   *)
(* sandbox has exited (the failed writes drop them one at a time, oldest  *)
(* first), and while it runs they alternate up to the sandbox's state.    *)
FaultDirectiveOrder == LC!LossyAlternating

(* Spec 7: an encode failure neither blocks nor stops the writer task, so  *)
(* the control loop never hangs on a sandbox that has gone: every start    *)
(* and every stop it sends is taken from addrChan, and each mitigation     *)
(* window it enters it leaves for the next sampling cycle.                 *)
LoopKeepsCycling == pc # "sample" ~> pc = "sample"
=============================================================================
