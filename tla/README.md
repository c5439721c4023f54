# Cijitter: TLA+ models of the detection and mitigation loop

This directory holds the TLA+ models of the Cijitter monitor. The models cover the detection and mitigation code in
`src/gvisor/runsc/main.go` (lines 327-343 and 406-768). The directory also holds the TLC configurations that check the models
on small instances, and the TLAPS proofs of the results that hold for every value of the constants.

## The system

`runsc boot` and `runsc monitor` are two processes joined by pipes.

- **Control loop** (`monitor`, 436-514). Every cycle it samples a target address and its access count, then runs the decision
  engine. If the decision says so, it sends a *start* directive (`"addr count"`) on `addrChan`, waits for the mitigation window
  (8050 ms), sends the *stop* directive (`"0x00000 0"`), and goes back to the baseline interval.
- **Decision engine** (`delayStates` 516-536, the make-up step 470-479, `judge_delay` 538-573). It keeps a window of three counts
  and three "mitigated last time" flags, indexed by `index % 3`. It escalates the sampling interval ×10 per quiet cycle, up to
  30000 ms. It compensates a drop right after a mitigation by adding back 67% of the drop. It mitigates only when the window is
  stable and its mean is at least 100. Counts above 3000 are outliers.
- **Outbound IPC** (`notifier`, 422-434). `addrChan` holds one message (`make(chan string, 1)`, line 337). The notifier goroutine
  JSON-encodes each message onto fd 11.
- **Inbound IPC** (`listener`, 406-420). The goroutine in the sandbox process reads fd 13. It builds a new `json.Decoder` on
  every iteration and forwards the value it decodes to `maid`, which delays accesses to the address.
- **Kernel profiler controller** (`get_target_addr` 723-768, `chk_prerequisites` 681-709, `exit_handler` 711-721). It rotates
  the log and inserts `daptrace` if needed. It writes the pid, switches tracing on for 100 ms and then off, and runs `rmmod`. It
  then decodes the log and returns the first address with its count.
- **Sample decoder** (`read_sample_logs`, 581-630). It reads 8-byte little-endian words, in groups of three:
  `[address, reserved, count]`.
- **Process selector** (`get_pid`, 632-674). It picks the `ps` row with the highest cpu among the rows that are not idle.

## Modules

| Module | Models | State and actions |
|---|---|---|
| `DecisionEngine` | `delayStates`, make-up, `judge_delay` | Pure operators. `JudgeDelay` restates the float64 tests in exact integers (see below). |
| `Monitor` | `monitor`, `addrChan`, `notifier`, and a reader that takes every directive | Variables: `lastAddrAcc`, `lastDelay`, `slot` (= `index % 3`), `cycles` (`index` capped at 4), `delayInterval`, `pc`, `addrAcc`, `msgChan`, `note`, `pipe`, `delaying`. Actions: `Decide` (a loop iteration up to the send, with its outlier, strip/unstable and mitigate branches), `SendStart`, `SendStop` (the send, `last_delay[inx] = true`, the interval reset), `NotifierRecv`, `NotifierWrite`, `Receive`. |
| `Listener` | `listener`, composed with `Monitor` | `Listen` replaces `Receive`. A Read takes the whole pipe, the first value is forwarded and the rest is dropped with the decoder. |
| `Decoder` | `read_sample_logs` | `ReadSampleLogs(words, short)` is a recursive function over the chunks `fp.Read` returns. `SpecDecode` is the decoder of spec §4.3, used as the reference. |
| `Selector` | `get_pid` | `GetPid(rows)` is a scan over the rows of `ps` output. |
| `Profiler` | `get_target_addr`, `chk_prerequisites`, `exit_handler` | Kernel state: `loaded`, `windows`, `tracing`, `tracedPid`, `logFile`, `oldLog`. Monitor state: `ppc`, `result`. `fresh` is a history variable. Actions: `SelectMiss`, `LoadFail`, `StartWindow`, `TraceOff`, `Unload`, `UnloadFail`, and `Crash` (the monitor is killed inside a call and a new one starts). |
| `DirectiveChannel` | what the outbound path promises (spec §4.5, §4.6) | The abstract specification. `queue` is the FIFO of directive kinds on their way to the sandbox, `mode` is idle or mitigating, `delaying` is the sandbox's state. Actions: `Begin`, `End`, `Deliver`. |
| `MonitorFaults` | `notifier`'s error branch, the sandbox exiting | Extends `Monitor` with `readerOpen`. `ReaderClose`: the sandbox exits, the pipe's read end closes and the unread directives are lost. `NotifierWriteFail`: `Encode` fails with EPIPE, and the message is logged and dropped. |
| `LossyChannel` | what the outbound path promises when the sandbox can exit (spec §7) | Extends `DirectiveChannel` with `open`. `LossyBegin`, `LossyEnd` and `LossyDeliver` (only while open) are the channel's steps. `Exit`: the sandbox goes, and a prefix of the queue is lost. `Discard`: after the exit the oldest directive is dropped unread. `MonitorFaults` implements it under `Monitor`'s mapping plus `open = readerOpen` (`LC`). |
| `MCJudge` | `judge_delay` against spec §4.4 | `Store` writes any of ten counts into the slot after the last one, like `last_addr_acc[inx] = acc_cmp`. `SpecSuspicious` is spec §4.4's classifier in exact integers. |
| `TargetSampler` | what `get_target_addr` promises the loop (spec §4.2) | The abstract specification. `calling` says a call is in progress, `written` is the log its window wrote (or none), `result` is what the last call returned. Actions: `Miss`, `Begin`, `Write`, `Return`, `Abort`. `Profiler` implements it under the mapping `calling = ppc # "idle"`, `written = CallLog` (the log at logPath if this window wrote it), `SampleOf = LogSample`. |
| `MonitorProofs`, `MonitorRefinement` | TLAPS proofs about `Monitor` | |
| `DirectiveChannelProofs`, `ProfilerProofs`, `JudgeProofs` | TLAPS proofs about `DirectiveChannel`, `Profiler` and `judge_delay` | |
| `LossyChannelProofs`, `FaultProofs` | TLAPS proofs about `LossyChannel` and `MonitorFaults` | |
| `MC*` | TLC instances | |

These abstractions are used:

- **`index`.** It is kept as `slot` plus `cycles`, capped at 4. The code only reads `index % 3` and whether `index = 0`.
- **`get_target_addr` in `Monitor`.** `Monitor` takes its result as a choice over `Addrs × Counts`. A failed call is a
  stuttering step, because the loop then only sleeps.
- **Timing.** Sleeps are left out. The interval is state, because the backoff property is about it.
- **Addresses.** An address is a model value (`Monitor`) or the decoded word itself (`Decoder`). `Sprintf("0x%x")` is
  injective, so the word keeps every equality the map and the order depend on.
- **float64 in `judge_delay`.** With `sum = a0+a1+a2` and `sq = 9Σa² − 3·sum²`:
  - `ratio ≤ n/d` becomes `sum > 0 ∧ sq ≤ n²sum² ÷ d²`;
  - `count ≤ n/d` becomes `prev > 0 ∧ d·diff ≤ n·prev`;
  - `mean ≥ 100` becomes `sum ≥ 300`;
  - the make-up step `int(float64(d) * 0.67)` becomes `d * 67 ÷ 100`.

  We compared these against the float64 computation with a script run outside this project:
  - exhaustively, on every window with values 0..259;
  - on 3·10⁶ random windows with values up to 3000;
  - on the blend for d in 1..3000.

  They agree everywhere, including the NaN and +Inf cases of a zero denominator, which compare false in Go.

## Runs

| Run | Checks | Result |
|---|---|---|
| `monitor_safety` (`MCMonitor.cfg`) | `TypeOK`, `DirectiveOrder`, `BackoffOnlyWhenQuiet` | pass, 2.2M states |
| `monitor_liveness` (`MCMonitorLive.cfg`) | `StopFollowsStart`, `ChannelSpec` | pass |
| `monitor_faults_liveness` (`MCMonitorFaults.cfg`) | `LoopKeepsCycling`, `FaultChannelSpec`, `FaultDirectiveOrder` with the sandbox able to exit | pass, 6870 states |
| `judge_within_spec` (`MCJudge.cfg`) | `JudgeWithinSpec` | pass |
| `judge_matches_spec` (`MCJudgeSpec.cfg`) | `JudgeMatchesSpec` | violation (finding) |
| `outlier_mitigates` (`MCMonitorOutlier.cfg`) | `OutlierNotMitigated` | violation (finding) |
| `warmup_mitigates` (`MCMonitorWarmup.cfg`) | `NoWarmupMitigation` | violation (finding) |
| `listener_drops_stop` (`MCListener.cfg`) | `DirectiveOrder` with the real listener | violation (finding) |
| `decoder_roundtrip` (`MCDecoder.cfg`) | `DecoderRoundTrip` | pass |
| `decoder_truncation` (`MCDecoderTruncation.cfg`) | `TruncationTolerance` | violation (finding) |
| `profiler_fresh_sample` (`MCProfiler.cfg`) | `FreshSample`, `SamplerSpec` | pass |
| `profiler_module_reused` (`MCProfilerModule.cfg`) | `FreshModuleEachWindow` | violation (finding) |

What the properties say:

- **`DirectiveOrder`.** Take the directives in flight and read them in order: the sandbox's current state, then the pipe, the
  notifier's local, and `addrChan`. They alternate start and stop, and the last one agrees with where the loop is. A dropped,
  duplicated or reordered directive breaks this.
- **`BackoffOnlyWhenQuiet`.** Between cycles, an interval above 500 ms means the previous cycle did not mitigate. An interval of
  30000 ms means the previous two did not.
- **`StopFollowsStart`.** With the reader `Receive`, which takes one directive per read, the sandbox never stays in delay
  mode for good. `Receive` is an idealised reader: the real `listener()` is `Listener.Listen`, and the `listener_drops_stop`
  run shows that it can lose the stop, so the sandbox of the code can stay delaying (finding 3).
- **`ChannelSpec`.** `Monitor` implements `DirectiveChannel`, fairness included. The refinement mapping reads the queue as the
  kinds in the pipe, then the notifier's local, then `addrChan`. The mode is mitigating while `pc = "stop"`, that is, between
  the start send and the stop send. Every `Monitor` step is a `Begin` (`SendStart`), an `End` (`SendStop`), a `Deliver`
  (`Receive`) or a stutter (`Decide` and the two notifier steps). `DirectiveOrder` is the channel's `Alternating` under the same
  mapping.
- **`FaultChannelSpec`.** With the sandbox able to exit, `MonitorFaults` implements `LossyChannel`, fairness included.
  `ReaderClose` is an `Exit` that drops the pipe, the front of the queue. Each `NotifierWriteFail` is a `Discard` of the
  oldest directive left. Every directive is eventually read or dropped. A notifier that returned on its first failed write
  breaks the fairness of `Discard`.
- **`FaultDirectiveOrder`.** The directives still on the path alternate and end with the one the loop sent last, also after
  the exit. While the sandbox runs, they alternate up to its state, as in `DirectiveOrder`.
- **`LoopKeepsCycling`.** The control loop always comes back to sampling, also after the sandbox has exited. Spec §7 says
  encode failures are logged and dropped and do not block the writer. If the notifier stopped or blocked on a failed write,
  `addrChan` would stay full and the loop would hang on its next send.
- **`JudgeWithinSpec`.** Every window `judge_delay` calls suspicious is suspicious by spec §4.4. `JudgeMatchesSpec` also
  asks for the converse, and it fails (finding 6).
- **`FreshSample`.** A sample returned never comes from a log that an earlier call or a killed monitor left at `logPath`.
- **`SamplerSpec`.** `Profiler` implements `TargetSampler`: a finished call fails, or returns the first sample of the log its
  own window wrote. Without the rotation in `chk_prerequisites`, a call whose window writes nothing would return the sample of
  an old log, which no `TargetSampler` step allows.
- **`DecoderRoundTrip`.** A log of whole records decodes to exactly the records of spec §4.3.

**Bounds.**

- `MCMonitor` uses one address, the counts {40, 450, 3001} and a pipe of 1. With these counts:
  - 40 is a strip after make-up except against the baseline;
  - 450 is stable;
  - 3001 is an outlier.

  So every branch of `Decide` fires, and every make-up value the window can reach with these counts is explored. `cycles` is
  capped at 4, past the warm-up cycle 0. A larger set of counts or a pipe of 2 multiplies the windows the make-up step creates,
  and the run no longer finishes within minutes.
- The liveness run drops the outlier count and keeps a pipe of 1.
- `MCMonitorFaults` uses the counts {40, 450} and a pipe of 1. The sandbox can exit in every state, including with a start
  in the pipe, with one in the notifier's hands, and inside a mitigation window.
- `MCJudge` explores every window over ten counts (0, 60, 90, 100, 110, 130, 160, 200, 300, 500) and every slot: 3000
  states. The counts hit a zero previous count, a mean just below and at 100, the 0.1, 0.2 and 0.35 thresholds on both sides,
  and the gap between the code's and the spec's coefficient of variation. Values stay at or below 500 because TLC's integers
  are 32 bits and `sq · d²` grows with the fourth power of the counts.
- `MCDecoder` checks every log of up to 7 words over {0, 1, 2}, with and without a short tail. That covers two whole records, a
  repeated address with different counts, and every length of a trailing partial record.
- `MCProfiler` uses four `ps` tables (empty, idle only, busy only, idle then busy) and five logs. The logs are: empty, a short tail only,
  one record, another record, and two records with a repeated address and a partial tail.

**Fairness.**

- `Monitor` assumes weak fairness of `SendStart`, `SendStop`, the notifier and the receiver. Once its channel send is enabled,
  the loop goroutine has nothing else to do. The notifier's receive and write are unconditional. The sandbox's listener loops
  forever.
- `Decide` is not fair. Sampling may fail forever, for example when no process is found.
- `DirectiveChannel` assumes weak fairness of `End` and `Deliver`, which `Monitor`'s fairness of `SendStop`, the notifier and
  `Receive` implies. `Begin` is not fair.
- `MonitorFaults` keeps the same fairness. Its receiver is fair only while the reader is open. `ReaderClose` is not fair: the
  sandbox may run forever.
- `LossyChannel` assumes weak fairness of `LossyEnd`, `LossyDeliver` and `Discard`. The notifier's fairness gives `Discard`:
  after the exit its receive and its failed write stay enabled while a directive is on the path.

## Findings

1. **Outliers mitigate** (main.go 481). For `acc_num > 3000` the code restores the slot and then falls through to the send.
   Spec §4.4 and §4.5 say an outlier is discarded.
2. **The first cycle always mitigates** (main.go 520, 474). `delayStates` returns status true for `index = 0`. The make-up step
   then lifts a count of 40 to 348 against the 500 baseline, and the window passes `judge_delay`. Spec §3 says the baseline keeps
   early cycles from triggering.
3. **Stop directives are lost** (main.go 412). A new `json.Decoder` per iteration discards whatever its first Read buffered
   after the first value. With the start and the stop both in the pipe, the stop is lost and the sandbox keeps delaying.
4. **Trailing bytes change the decode** (main.go 614). An unfinished record still appends its address. A short tail is decoded
   with the previous word's value. A 1-7-byte log alone yields the sample (0x0, 0). Spec §8 says 1-23 trailing bytes are
   ignored.
5. **The module state leaks** (main.go 692, 754). The module is inserted only if DBGFS is absent. After a failed `rmmod`, or a
   monitor killed inside a window, the next window reuses the loaded module. Spec §4.2 says each window gets a fresh module.

6. **judge_delay's coefficient of variation is √3 too large** (main.go 551). `stddev := math.Sqrt(std)` does not divide the
   sum of squared deviations by 3, so `ratio` is √3 times spec §4.4's CV. The window [60, 110, 130] at slot 2 is stable by the
   spec's third clause (delta 0.18, CV 0.29). The code's ratio is 0.51, so the code does not mitigate. The code never flags a
   window the spec does not (`JudgeWithinSpec`). It only misses some.

## Proofs (TLAPS)

`MonitorProofs` proves two theorems for all `Addrs`, `Counts ⊆ Nat` and `PipeCap ≥ 1`:

- **`TypeCorrect`: `Spec => []TypeOK`.** `TypeOK` is not inductive, because `SendStart` appends `addrAcc`. The inductive
  invariant `IInv` adds `pc = "start" => addrAcc ∈ Msg`. The proof splits the step per action. `Decide` is split further per
  branch. It rests on lemmas about `DelayStates` (the interval stays in {500, 5000, 30000}), `MakeUp` (stays in Nat) and `Start`.
- **`BackoffSafe`: `Spec => []BackoffOnlyWhenQuiet`.** `BackoffOnlyWhenQuiet` is inductive together with `IInv`. The key lemma
  `DelayStatesCeiling` says that `delayStates` reaches 30000 only from an interval above 500. So the flag of two cycles back was
  already false, by the invariant of the state before.

`DirectiveChannelProofs` proves **`ChanSafe`: `SafetySpec => []Alternating`** for queues of any length. `Alternating` is
inductive together with the type of the queue. `Begin` and `End` append the kind other than the last one sent. `Deliver` moves
the head into the sandbox's state and shifts the rest by one, which keeps every parity.

`MonitorRefinement` proves that the monitor implements the channel, for all `Addrs`, `Counts` and `PipeCap`:

- **`Refinement`: `Spec => ACP!SafetySpec`.** `ACP` is `DirectiveChannelProofs` under the refinement mapping. The invariant
  `RInv` adds to `IInv` that `addrAcc`, once set, is a start directive. The step proof has one case per action. It rests on
  lemmas about `Kinds` (it commutes with `Append`, `Head` and `Tail`) and about concatenation (`Append` and `Tail` across
  `\o`). `NotifierRecv` is a stutter because `addrChan` holds at most one directive. `NotifierWrite` is a stutter because the
  directive moves from the local to the end of the pipe. `Receive` is a `Deliver` because the pipe is the front of the queue.
- **`DirectiveOrderSafe`: `Spec => []DirectiveOrder`.** It follows from `Refinement` and the instance of `ChanSafe`.

`ProfilerProofs` proves **`FreshSampleSafe`: `Spec => []FreshSample`** for every `PsTables` and `Logs`. `FreshSample` speaks
only of the idle state. The inductive invariant `FInv` follows the log through a call. While tracing, logPath is empty, since
`chk_prerequisites` rotated it. After tracing, a log present was written by this window. An `Unload` of a missing log returns
`Fail`. So the proof never needs to know what the decoder computes.

`ProfilerProofs` also proves **`SamplerRefinement`: `Spec => SamplerSpec`**, for every `PsTables` and `Logs`. The invariant
`SInv` adds to `FInv` that `fresh` is FALSE while tracing, so the abstract call starts with no log. The step proof has one case
per action. `TraceOff` is a `Write` when the module left a log, and a stutter otherwise. `Unload` is a `Return`; `UnloadFail`
and `Crash` are an `Abort`. `SampleOf` is mapped to the real decoder, so the proof holds whatever it computes.

`JudgeProofs` proves **`JudgeWithinSpecSafe`: `Spec => []JudgeWithinSpec`** for every window of integer counts, not only the
ten counts of the run. Lemma `JudgeSound` does the work. The code's ratio test is `sq ≤ n²sum² ÷ d²`; the spec's CV test is
`d²·sq ≤ 3n²sum²`. Since `d²·(x ÷ d²) ≤ x ≤ 3x` for `x ≥ 0` (`DivBound`), the first implies the second, for both bounds
(1/5 and 7/20). The other tests are the same in both classifiers. The invariant needed is only the type of the window.

`LossyChannelProofs` proves **`LossySafe`: `LossySafetySpec => []LossyAlternating`** for queues of any length. The invariant
`LInv` is the type, `InFlightAlternating` (the directives on their way alternate and end with the last one sent), and
`Alternating` while the sandbox runs. While it runs, the steps are those of `DirectiveChannel`, and `ChanNext` applies.
After the exit, `AppendInFlight` covers the loop's sends. `SuffixInFlight` covers `Exit` and `Discard`: dropping a prefix
keeps the parity of what is left.

`FaultProofs` proves two theorems about `MonitorFaults`, for all `Addrs`, `Counts` and `PipeCap`:

- **`FaultRefinement`: `FaultSpec => LCP!LossySafetySpec`.** This is the safety part of `FaultChannelSpec`. The invariant
  `FaultInv` adds to `RInv` that the pipe stays empty once the reader is gone, because nothing writes to it after
  `ReaderClose`. So a failed write removes the head of the abstract queue (`WriteFailDiscards`), and the close removes the
  pipe, a prefix (`CloseExits`, with `SuffixOfConcat`). The loop's, the notifier's and the sandbox's shared steps reuse the
  lemmas of `MonitorRefinement` (`LoopRefines`, `NotifierStutters`, `ReceiveDelivers`).
- **`FaultDirectiveOrderSafe`: `FaultSpec => []FaultDirectiveOrder`.** It follows from `FaultRefinement` and the instance of
  `LossySafe`.

These stay with TLC and are out of the prover's reach:

- liveness (`StopFollowsStart`, the fairness parts of `ChannelSpec` and `FaultChannelSpec`, `LoopKeepsCycling`);
- anything stated with ENABLED;
- what the recursive decoding and selection functions compute for every input, which needs induction over data. So
  `DecoderRoundTrip` is checked by TLC on every log of up to 7 words, and has no theorem.

## Not modelled

- **CLI flags, logging and subcommand dispatch** (main.go 49-326, 344-403). These are plumbing.
- **Generated and build files.** This covers `ndpoptionidentifier_string.go`, BUILD, the Dockerfile and the README.
- **`pkg/maid`**, which is not in the sources. Only its effect is kept: it delays after a start and stops after a stop.
- **The kernel module itself.** It is a black box that writes a log when tracing is switched off.
- **Write errors on fd 11 other than EPIPE.** A write to a pipe fails only once the reader is gone, which `MonitorFaults`
  models. Short writes and signals are left out.

## Plan

Next step for the models: compose `Profiler` with `Monitor`, so that the monitor's samples are the ones `get_target_addr`
returns. This will let a crash be checked against the directive flow.
