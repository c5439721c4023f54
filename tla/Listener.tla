------------------------------ MODULE Listener ------------------------------
(***************************************************************************)
(* The sandbox end of the directive pipe: listener() of the "runsc boot"   *)
(* process (src/gvisor/runsc/main.go), composed with the monitor process   *)
(* of module Monitor.  Each iteration of the listener builds a new         *)
(* json.Decoder on fd 13 and decodes one value.  The decoder's first Read  *)
(* takes every byte the pipe holds (each directive is one write of fewer   *)
(* than PIPE_BUF bytes, so the pipe holds whole directives, and a few of   *)
(* them fit the decoder's 512-byte buffer); Decode returns the first, and  *)
(* the decoder, with the rest of its buffer, is dropped at the end of the  *)
(* iteration.  The decoded value goes to maid.Listen_target_addrs, whose   *)
(* effect is recorded in delaying: a start directive makes the sandbox     *)
(* delay, the stop directive ends it.                                      *)
(***************************************************************************)
EXTENDS Monitor

(* One iteration of listener(): decode the first directive of what one     *)
(* Read returns, hand it to maid, and drop the decoder's buffer.           *)
Listen ==
    /\ pipe # <<>>
    /\ delaying' = (Head(pipe).kind = "start")
    /\ pipe' = <<>>
    /\ UNCHANGED <<monitorVars, msgChan, note>>

SystemNext == MonitorStep \/ NotifierStep \/ Listen

(* The listener goroutine is scheduled fairly, like the monitor process.   *)
SystemSpec ==
    /\ Init /\ [][SystemNext]_vars
    /\ WF_vars(SendStart) /\ WF_vars(SendStop) /\ WF_vars(NotifierStep)
    /\ WF_vars(Listen)
=============================================================================
