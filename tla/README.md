# Verification of the single-wheel platform

TLA+ specifications of the runtime of the single-wheel robot platform, the TLC
runs that check them on small instances, and proofs, checked by TLAPS, of the
theorems that matter most. Every definition is translated from the Rust sources
under `src/`; `PROJECT.json` names the lines each one stands for.

## 1. The system

The platform balances a robot on one wheel. Data takes a typed path

    RawObservation -> EstimatorMeasurement -> EstimatedState -> GeneralizedDemand
      -> BoundedActuatorCommand -> AuthorizedActuation -> electrical frame

through four domains: Plant (equations), Control (laws), Supervisor (estimation,
operating states, authority, timing) and Firmware (buses, sensors, targets). The
same Supervisor and Control code runs in the STM32F103 targets, under RTIC
interrupts, and in the host's software-in-the-loop (SITL) runner, under virtual
time.

### Inventory

| component | state it keeps | operations | what makes it correct |
|---|---|---|---|
| sensor timing monitor (`supervisor/runtime-state`) | last event, cadence verified, health | `on_event`, `poll` | a lost or late sensor is noticed, and only such a one; nothing is Healthy before a whole interval was measured |
| control watchdog (`supervisor/runtime-supervisor`) | last completion, health | `observe_control_completion`, `poll` | a controller that stops completing is noticed, one never started as well |
| runtime supervisor | operating state, fault latch | boot and balance transitions, two health observations, `latch_fault` | Fault is final, no closed loop without its evidence |
| runtime authority | none | `evaluate` | a hard reason always denies; a denied or limited step holds the integrators |
| actuation sink (`firmware/interfaces/actuation`) | what the actuators were last told | `apply_authorized`, `revoke` | driven only while authority lasts |
| runtime-shadow target | the above, shared by two interrupt tasks; engine, record ring | `init`, `timing_health`, `imu_data_ready` | bounded detection of every loss; no output on an authority that is gone; coherent records |
| control runtime (`supervisor/control-runtime`) | controller, estimator, remembered input | `step`, `reset` | the remembered input is the applied one; no wind-up; an error changes nothing |
| SITL scenario, scheduler, runner (`tools/sitl`) | event queue, virtual time, counters | `validate`, `schedule`, `next_slice`, run loop | causal order in an instant; ends; its verdict can be trusted |
| SITL closed loop | pending sample, delivered and consumed observation, pending actuation | one handler per event kind | each observation used once and never late; effort committed as authorized |
| SITL simulation world | time, plant state, held effort | `advance_interval`, `sample_raw_observation`, `apply_authorized`, `revoke` | time only moves with the runner |
| live-shadow target | divider, sequence, dropped count, window and boot maxima, overruns | `timing_health`, `imu_data_ready`, `profile_tx_dma` | a record's statistics are those of the runs before it, dropped records or not |
| control-shadow target | two task clocks, monitor, sink, debug words | `timing_health`, `imu_data_ready`, `step` | what two clocks conclude from one another; words that belong together |
| record queue and DMA pump (observation, live-shadow) | 8-slot queue, DMA state, dropped count | enqueue, `on_interrupt` | nothing lost uncounted, no lost wake-up |
| encoder tracker, estimator input | previous count, primed | `observe`, `require_usable` | a usable delta is the true displacement |
| software I2C, MPU6050 | lines, configuration | start, stop, read, write, recover, probe, configure | lines released after every failure; bounded time |
| wireless observer, record decoders (`tools/wireless`, `tools/recording`) | decoder buffer and counts, link statistics, file, queue of notifications | `on_notify`, `feed`, `update_sequence`, the capture loop; `records` | no whole record is missed; the counts tell what was |
| telemetry, OLED | sequence, statistics | `publish_latest`, `present_latest` | the latest value or nothing; counters agree |
| record codecs | none | `encode`, `decode`, validation | a time read back is the one recorded, or unknown |
| linear observer, EKF | state, covariance, validity | `reset`, `step` | Valid only after a step that succeeded, on usable numbers |
| velocity loop | integral, divider | `update` | moves only when not held |
| Webots controller and production bridge | two processes: simulator's motors, the production path | a line for a sample, a line for an answer | they agree about the applied torque; the motors are at rest in the end |
| boards, control laws, plant | none, or real-valued | functions of data | numeric; tested in the repository |

### How they interact

In runtime-shadow, TIM1 (`timing_health`, priority 3) and the IMU's DATA_RDY line
(`imu_data_ready`, priority 2) share the monitor, the watchdog and the supervisor
under RTIC locks of ceiling 3. The IMU task is one control opportunity: it
registers the event, acquires, prepares a control step, reports its completion,
copies the operating state under the supervisor's lock, evaluates authority, drives
the sink, and records. The health task polls both detectors and latches faults; it
never touches the sink. In SITL everything is a sequence of events of one virtual
clock: sample, delivery, runtime (or a missed opportunity), commit.
control-shadow and live-shadow are the profiling builds of the same opportunity, without a
supervisor: the operating state is always Balancing, and their results leave as debug
words and as records. The Webots bridge is the same production path in a process of its own, fed
by the simulator's controller through pipes, one line for one line.

### What is hard

The health task may preempt the IMU task between any two lock sections, so what it
copied may be stale when it is used; a silent sensor raises no interrupt; detectors
with different references race one another; early returns leave state behind;
events of one instant have to be ordered; missed time must not be recovered; the
estimator remembers an input that is committed later by somebody else; two clocks extend one
wrapping counter independently; a bus transaction may stop at any bit; a filter
fails with its numbers half updated; an error between two lines of a pipe leaves
torque on the motors. The list,
line by line, is under "hazards" in `PROJECT.json`.

## 2. Modules

| module | stands for |
|---|---|
| `SensorTiming` | `SensorTimingLimits`, `SensorTimingMonitor` (operators on the value of a monitor) |
| `RuntimeAuthority` | `RuntimeAuthority::evaluate` (operators) |
| `RuntimeSupervisor` | `ControlWatchdog`, `FaultLatch`, `RuntimeSupervisor` (operators); EXTENDS the two above |
| `ActuationGate` | abstract: what any sink promises |
| `RuntimeShadow` | the runtime-shadow target: state, two tasks, sensor, time; EXTENDS `RuntimeSupervisor`, implements `ActuationGate` |
| `RuntimeShadow_proofs` | theorems about `RuntimeShadow`; its lemmas about the three operator modules stand also in the proofs of SITL and Webots, as no two of the three can be extended together |
| `ControlRuntime` | `ControlRuntime::step` (operators) |
| `SitlScenario` | validated scenarios and the events scheduled for one (operators) |
| `SitlClosedLoop` | runner, scheduler, handlers and world of a SITL run; EXTENDS `RuntimeSupervisor`, `ControlRuntime`, `SitlScenario`, implements `ActuationGate` |
| `SitlClosedLoop_proofs` | theorems about `SitlClosedLoop` |
| `RecordStream` | abstract: the record stream a decoder sees, a lossy FIFO with counted losses |
| `RecordPump` | the record queue, the DMA pump and its interrupt vector |
| `ObservationTarget` | the observation target as producer; EXTENDS `RecordPump`, implements `RecordStream` |
| `ObservationTarget_proofs` | its theorems |
| `EncoderTracking` | `EncoderTracker` on a turning shaft, and the channel status of the estimator input |
| `ObservationRecord` | the times and headers of the three record codecs (operators); EXTENDed by `ObservationTarget` |
| `CycleClock` | the DWT counter and `capture_timestamp_us` (operators) |
| `OneV2PwmDir` | the electrical encoding of the ONE V2 motor interface (operators) |
| `ControlShadow`, `ControlShadow_proofs` | the control-shadow target; EXTENDS `CycleClock`, `SensorTiming`, `RuntimeAuthority`, `OneV2PwmDir` |
| `LiveShadow` | the live-shadow target; EXTENDS `RecordPump`, `SensorTiming`, `RuntimeAuthority` |
| `SoftwareI2c` | the bit-banged bus, and a slave |
| `Mpu6050`, `Mpu6050_proofs` | the driver and its callers on the bus; EXTENDS `SoftwareI2c` |
| `VelocityLoop` | the outer loop (operators), for `SitlClosedLoop` and `WebotsBridge` |
| `WebotsBridge`, `WebotsBridge_proofs` | the Webots controller and the production bridge; EXTENDS `RuntimeSupervisor`, `ControlRuntime`, `VelocityLoop` |
| `BalanceStateEstimator` | abstract: the contract of the estimators, read off the return paths of both implementations (the trait states none) |
| `StateEstimators` | both estimators; implement `BalanceStateEstimator` |
| `Estimation_proofs` | theorems about `EncoderTracking` and `StateEstimators` |
| `IoShadow` | the io-shadow target with telemetry publisher, transport, OLED presenter |
| `Telemetry_proofs` | theorems about `LiveShadow` and `IoShadow` |
| `RecordCapture` | the wireless observer, and the offline decoders of its files |
| `MC...` | the module a TLC run starts from; the bounds are in its `.cfg` |

The library crates keep no state of their own in the models: a monitor, watchdog,
supervisor or control runtime is a value in a variable of the module that owns it,
as it is a field of the struct that owns it in the code, and the library's methods
are operators from one value to the next. A definition marked as a mutation
is a plausible bug that each property is tested against; no
specification uses it.

### RuntimeShadow and the code

`task` is the running activation of `imu_data_ready` with its locals. It moves in
one action per section that `timing_health` cannot split:

| action | main.rs |
|---|---|
| `Enter`, `RegisterEvent` | timestamp, clear the pending bit; `on_event` under the lock |
| `Acquire` | a run whose event was not Healthy returns here; else IMU and encoders are read |
| `Prepare`, `FailControl` | `ShadowEngine::prepare`, its outer loop, and the fault latched for a `None` |
| `CompleteControl` | `observe_control_completion` under its lock |
| `Supervise` | `capture_ready`, `observe_control_health`, copy of the operating state, one lock |
| `ApplyAuthority` | `apply_shadow_authority` with the copies |
| `Record` | the faults under a second lock, and the record |
| `TimingHealth` | the whole of `timing_health`: it has the highest priority |
| `Tick`, `DataReady` | time and the sensor (external) |

Stamps are relative to the present (0 is now, a tick subtracts one from each), so
the state is finite without a bound on running time; a stamp older than `Horizon`,
where every threshold is exceeded, stays there. `edge` is the last DATA_RDY edge,
`frame` what the sink was last told.

### SitlClosedLoop and the code

One action per event kind and outcome: `SampleSensor`, `DeliverObservation`,
`RefuseObservation`, `SkipUnready`, `FailStep` and `RunStep` (the early
returns and the body of `run_production_runtime`), `MissRuntimeOpportunity`,
`CommitActuation`, with `NextSlice` and `Finish` for the runner. An `Err` sets
`status` and ends the run, as in `run_scenario_with_execution`. An effort is named
by the index of the sample it was computed from; the LQI integral and the velocity
integral are the number of updates committed to them. The runner's counters equal
the closed loop's, so the model keeps one set. What the code decides by numbers
(wheel speed class, saturation, numerical errors, encoder rejection) is chosen
freely.

### RecordPump, ObservationTarget and the code

`imu_data_ready` (priority 2) may preempt `record_tx_dma` (priority 1) anywhere, so
`on_interrupt` is split at every step the producer can be seen between: `TakeState`
(the three-way match on the state), `Dequeue` (read the oldest entry, or find none),
`FreeSlot` (heapless frees the slot after it has read it, and only then may the
producer reuse it), `StartTransfer` and `Park`. `pended` is the vector's bit in the
NVIC: the producer's `rtic::pend` sets it, and so does the channel's flag, which
also sets it again when the handler returns with the flag still raised. The
producer is one action, `Observe`, as nothing else that touches this state can
preempt it. A record is its sequence number and dropped count; `ObservationRecord` adds
its times as the codec carries them (`Encode`, `Decode`: microseconds of a u64 clock as
32-bit offsets with a value for "unknown") and the header checks of the three decoders
(`Validate`).

### ControlShadow and the code

Time is counted in cycles of the wrapping counter. `imu_clock` and `health_clock` are the
two pairs of `last_cycle` and `cycle_epoch`; `Captured` is `capture_timestamp_us`. The IMU task is split
where `timing_health` can preempt it: `Enter`, `RegisterEvent`, `StoreTiming`, `Acquired`,
`Step`. `EngineStep` has one alternative per early return of `ShadowEngine::step`
(`StopAt(stage)`) and `Finish`; `words` are the SHADOW_* words. `truth` is a history
variable with the real instants.

### LiveShadow and the code

`ImuDataReady` is a whole run: it reads the shared monitor once, so a poll that preempts it
is one before or after it. `Account` and `Publish` are the statistics and the record,
`ProfileTxDma` the pump. A run costs any of `Costs`.

### SoftwareI2c, Mpu6050 and the code

A transaction is a list of frames (`Frames`), a frame a sequence of primitives on the pins
(`Start`, `WriteBit`, ...), and `Drive` does one. `WaitClock` is the polling loop
of `release_scl`, `Failed` the error path of `transaction` with its STOP. The slave reacts to edges
(`Reactions`). `Mpu6050` issues the calls the targets make: `Boot` (recovery), `Recovered`,
`Probed`, `Configured`, then `ReadRaw` and `SampleRead` without end.

### WebotsBridge and the code

`Controller` is `swp_trace.py` (`SendSample`, `TakeResponse`, and its `finally`: `CleanUp`,
`Terminate`, `LeaveMain`); `Bridge` is `webots_production_bridge.rs`: `StepRaw` and one
action per way to fail. Each side's line is a variable. As in SITL an effort is named by
its sample and an integral by the number of its updates.

### StateEstimators and the code

`ObserverStep`, `FilterEnds` and `FilterFaults` are the ends of the two `step` functions, `RefuseStep`
their checks, `ResetEstimator` and `RefuseReset` the two ends of `reset`. Of state and covariance only
"all finite" is kept: a non-finite number spreads, it never disappears without a
reset. `predictions`, `periods` and `errors` count, so that the abstract `lag` can be told: a period without
a prediction is one that was answered by an error.

### IoShadow and the code

`OutputCadence` is the task; `PublishLatest` and `PresentLatest` the two publishers. What a transport
or a display answers is a constant set: the target's stand-ins always take what
they are given, the traits allow `Busy` and errors, and the run checks all of them.

### RecordCapture and the code

A byte is a symbol, a record eight of them, and an ideal CRC holds for nothing but the
record it was computed for. `Drain` is the loop all decoders have: find the magic, check the header, wait for
a record's length, judge the candidate (`Judge`, where the live and the profile decoder
differ). `OnNotify` is the callback, `TakeChunk` one turn of `capture`, with
`ConnectionClosed` and `DurationOver` its ends. Board and link are external: `SendRecord`,
`Restart`, `Damage`, `Disconnect`. `raw` is the file, which `OfflineRows` reads afterwards.

### EncoderTracking and the code

Each return of `observe` is an action: `Prime`, `Accept`, `RefuseDelta`,
`RefuseTime`, `RefuseInput`; `Reset` starts a capture window. `Turn` is the shaft.
Counts have their real width. The shaft's true position, where it was when
the tracker was primed and when it last accepted, how far it may have moved since
(`reach`) and the widest reach that was bridged are history variables: no guard
reads them. Rates and radians are constant multiples of the counts.

## 3. What the runs check

| run | shows |
|---|---|
| `shadow_tasks` | every interleaving of the two tasks, with a sensor that in some behaviours keeps its cadence and in the others may be early, late or stop (`cadenced`): authority is never stale (`AuthorityIsCurrent`); a lost sensor and a lost controller are faults within a bound (`SensorLossDetected`, `ControlLossDetected`); the loop closes only on a proven cadence (`CadenceProven`); records are coherent (`RecordCoherent`); while the cadence is kept no timeout is latched, and with a working sensor neither monitor reports one where the supervisor listens (`NoSpuriousTimeout`) and the capture window is left (`CaptureEnds`); the integrator stays held (`HoldOutlastsFault`); a Timeout that only the event path saw ends in Fault, through the watchdog (`TimeoutEndsInFault`); the target implements `ActuationGate` |
| `shadow_stale_output` | expected violation, see Findings |
| `sitl_closed_loop` | every scenario up to the bound, both controllers, every pattern of missed opportunities: the remembered input is the applied one (`RememberedInputApplied`); a faulted run drives nothing between instants (`FaultNeutralizes`); no backlog (`NoBacklog`); each observation is used at most once and the verdict of a finished run is "pass" (`EvidenceSound`); the schedule never brings the handlers out of order (`ScheduleSound`); the loop closes only on a sensor within its limit (`ClosedLoopNeedsSensor`); no wind-up (`NoWindup`); the path implements `ActuationGate` |
| `observation_records` | the producer comes between any two steps of the pump: no lost wake-up (`NoLostWakeup`); what a decoder makes of a record on the wire is what was recorded, or unknown, or nothing (`WireTellsTheTruth`); every record that was queued goes out, even if none follows (`QueueDrains`); numbers missing on the wire are the drops counted in the records (`GapsCounted`); the target implements `RecordStream`: each record once, in order, skipped only while the queue is full |
| `encoder_unwrapping` | the unwrapped count is the true displacement as long as lost samples leave no second reading (`Exact`), wrong by whole turns of the counter otherwise (`WholeTurns`); within reach, the bound refuses exactly what moved too far, so a bad sample does not lock the channel out (`DecidesByDisplacement`) |
| `encoder_lost_samples` | expected violation, see Findings |
| `control_shadow_clocks` | two tasks, two clocks, one wrapping counter, a sensor silent for more than its range: the poll's clock is exact, the IMU's is exact until it once slept through a wrap (`ClocksRead`); a poll believes in no silent sensor (`PollSeesSilence`); an authorized step is one whose edge was on time, or a whole range late (`AuthorizedOnTime`); wherever steps stop, the debug words tell what the sink holds in permille, and the command's words the same up to the one permille `scale_milli` cuts off (`WordsTellSink`) |
| `i2c_sensor` | init and sample reads, bit by bit, from a reset in the middle of any byte, against a slave that refuses and stretches at will: master and slave stay at the same bit of the same frame, and recovery makes a START possible (`InStep`); every transaction leaves the bus idle, unless a held clock was given up on (`BusLeftIdle`); a sensor that delivers is wholly configured (`RunsProgrammed`); every call returns (`CallsEnd`) |
| `live_profile` | every history of six runs, over a queue that fills: each record on its way tells the maxima and overruns of the runs up to it, and the wire tells the windows it lost (`StreamTells`) |
| `webots_loop` | two processes, the bridge failing at any stage: whenever the simulation steps, its torque is the input the observer assumes, each sample was taken once, and effort is applied in a closed loop only (`InLoop`); however it ends the motors are at rest and the bridge has exited (`EndsAtRest`) |
| `estimators` | both estimators, every mask their designs accept: they implement `BalanceStateEstimator` (`ImplementsContract`) |
| `ecb02_link` | the two ends of the link, each by itself. Transport and display busy or failing at any attempt, over wrapping counters: gaps, packet numbers, statistics and the page on display tell what happened, and no output is late (`OutputsTell`). A stream of two kinds of records, whose payload may look like a header, cut into notifications, damaged, restarted or disconnected anywhere: every record that arrived whole is a row at once and offline, every byte is accounted for, the gaps are the board's drops and the records that did not decode, and a good link counts no error (`CaptureTells`) |

### Bounds

*runtime-shadow.* The target's policy is 5, 7.5, 15 and 15 ms for period, late,
timeout and watchdog, polled each millisecond. `shadow_tasks` uses 4, 6, 12, 12
with a health period of 1: the same ratios (period : late : timeout = 2 : 3 : 6) at
1.25 ms a tick, so that a poll falls between any two stages. `TaskBudget` (1) is how long a
run of the IMU task may take; the proofs need it below both timeouts, which the
code's bounded I2C waits and the 5 ms period it must fit justify. `MinEdgeGap` lets
edges come early; where `cadenced` holds, none comes later than `MaxEdgeGap`, elsewhere they
may be late or stop. The decimations (2)
let both branches occur. `Horizon` only merges states no threshold separates.

*SITL.* `MaxDuration` 6 with sensor and runtime periods 1 to 3 gives every relation
of the two grids (equal, divisor, coprime), instants where several kinds meet,
and up to seven opportunities of which any subset is missed. The limits 2, 3, 4 put
a period below, at and above the late limit. The outer loop is decimated by 2.

*Records.* `QUEUE_STORAGE` 3 (two usable slots, of 7 in the code) fills, drains to
empty and drops between any two steps of the pump. `SEQUENCE_RANGE` 5 is more
than the records in flight and wraps within a run; `DROPPED_MAX` 2 saturates. The
decimation 2 lets both branches occur. `CLOCK_RANGE` 14 and `OFFSET_RANGE` 8 give every
offset class: representable, too long, before the start, unknown. The state is finite
without further bounds.

*control-shadow.* A counter of 16 cycles at 2 a microsecond; limits of 2, 4 and 6 cycles, the ratios of
late and timeout to the range being what matters; two wraps (`MaxTurns`), so that the
task may sleep through one and live on. The counter starts at zero and right before a wrap. A unit command is four steps and two permille
(`FullEffort`, `FULL_MILLI`, `STEPS_PER_MILLI`): the commands are a full one, and ones of which the words lose part
of a permille, either way.

*I2C.* Real bytes of 8 bits, 7 registers and 14 sample bytes, as in the driver. A clock held for two
polls is given up on; two polls make "held and freed in time" and "given up" both occur.
The state is finite, so reads go on without end.

*live-shadow.* A queue with one usable slot, a record each second run, six runs: three windows,
of which one or two are dropped. Costs on both sides of the deadline. `SEQUENCE_RANGE` is above the
runs: a u32 does not wrap in a commissioning session. The monotonic clock of the windows never misses a range
here; that is `control_shadow_clocks`.

*Webots.* 16 samples: the capture window, the closed loop, and several outer-loop
updates. Error exits make most behaviours shorter.

*Estimators.* Three channels give masks that are equal, nested and disjoint from what is available;
four control periods.

*io-shadow.* Decimations 2 and 3 over counters of range 8: the first divides the range, as 4
does 2^32, the second does not, as 20 does not. 18 ticks are two wraps of the tick.

*Capture.* Three records of eight bytes, of five sorts; notifications and losses of up to three or ten bytes
with up to two records on the wire, so that every boundary in a record is the end of some notification
and one notification may hold the end of a record and the start of the next; one mishap (a loss, a changed byte or a
restart); numbers wrap from 7 to 0. A record cut short is enough for a header in its payload to be taken for one. The header is one symbol, the CRC is
ideal, and the drop count of the board does not saturate (`observation_records` has that).

*Encoder.* A bound and envelope of 16000 counts over six samples: four samples of
motion come within the bound of a whole turn, so that a gap may alias, and three
may be refused. The starts put a wrap before, at and far from the first sample; the
steps are a full step either way, none, and one count back.

### Fairness

*runtime-shadow.* Time passes (`Tick`), the periodic timer fires, and an entered
task runs on: there is one core, the tasks have bounded loops, and only the
short health task preempts. A sensor is fair only where `cadenced` holds. *Records.* The pump's
handler is run when pended, as the acquisition ends long before the next edge, and
the UART sends what it was given; the sensor may stop. *I2C.* The core executes the driver;
nothing is assumed of the slave, which may hold the clock for ever. *Webots.* Either process runs unless it
waits for the other.
Safety is checked, and proved, without fairness.

## 4. What is proved

`RuntimeShadow_proofs` holds for every timing policy the constructors accept, every
decimation and every edge gap, from the assumptions named in the modules. Two of them are
no constructor's check: `BudgetBelowTimeouts`, that a run is shorter than either timeout, and
`CadenceWithinLimits`, what it means for a cadence to be kept (an edge gap and a run
within the sensor's limits, two gaps and a run within the watchdog's); the target's 5 ms, 7.5 ms and
15 ms satisfy both.

* `TypeCorrect` by `TypeOK`, inductive on its own.
* `Invariance`: `IInv` is inductive. The argument: what the running task has
  refreshed (the monitor's reference, then the watchdog's) is as fresh as its own
  start (`FreshReferences`), and a run is shorter than both timeouts, so no poll
  during the run can latch a timeout: the copy of the operating state stays equal to
  the supervisor's (`CurrentCopy`). Between polls a reference outlives its timeout
  by less than a health period (`ReferencesSupervised`), and an edge waits at most
  one run for the monitor (`EdgeServed`). None of the safety properties is inductive
  without these: they say nothing of the time already spent.
* `NoStaleAuthority`, `SensorLossBounded`, `ControlLossBounded`,
  `ClosedLoopNeedsCadence`, `CoherentRecords` follow from `IInv`.
* `CadenceInvariance`, `NoTimeoutWhileCadenced`: while a sensor keeps its cadence no timeout is
  latched, its monitor never reports Timeout once it is configured, and the watchdog does not while the
  supervisor listens to it (`Supervised`). On a board without a sensor, or one already in Fault, a poll may well
  report a timeout; nothing is made of it. `NoSpuriousTimeout` is not inductive even with `IInv`: `CInv` adds how
  far the monitor's reference is behind the edges at each place of a run (`CadenceRegistered`),
  that only the first run is refused (`OnlyFirstRefused`), and by how many events the completed
  runs are behind the registered ones (`CompletionsFollow`: two until the cadence is proven).
* `FaultLatchHolds` (Fault is final and faults stay latched), `IntegratorStaysHeld`: action
  properties, from `IInv`.
* `Refinement`: every step of the target is a step of `ActuationGate` or a stutter.

`SitlClosedLoop_proofs` holds for every scenario (any duration, periods and missed
set), every timing policy, both controllers and every decimation.

* `Invariance`: `IInv` joins types with three facts. `CommitFollows`: a runtime
  opportunity and its commit are scheduled together and the phases order them, so
  whatever is pending is committed in the same instant. `ObservationOrder`: sample,
  delivered and consumed indices are ordered, and the runtime has not run before one
  is consumed. `CommandRemembered`: while the run lasts, the remembered input
  equals `Commanded`, the effort the world has or is about to get, and that is
  neutral unless the loop is closed. `RememberedInputApplied` is not inductive by
  itself: between decision and commit the two differ, and a skipped first sample
  revokes without telling the runtime, which is right only because the
  runtime has not run by then.
* `TypeCorrect`, `RememberedInput`, `FaultNeutral`, `IntegratorsHeld`, `Refinement`.
* `TimetableInvariance`: a second invariant, `TInv`, of the two periodic grids. Each next event
  of a kind is the first multiple of its period after the ones handled, in the order of the
  phases (`Timetable`, `OnGrids`); what has been sampled, delivered and
  handled differ by what is waiting (`Delivering`, `Counting`); and an observation that is waiting is
  younger than a runtime period (`Freshness`). None of it is an induction: the lemmas about multiples of
  a period are linear facts about quotient and remainder.
* From it `ScheduleIsSound` (no handler is ever called out of order, and a runtime starves only behind
  a slower sensor), `NoBacklogEver`, `EvidenceIsSound` (the counters account for
  every observation and opportunity once, and a run that ends passes its own summary) and
  `LoopNeedsSensor` (the loop is closed only on a sensor that keeps the late limit).

`ObservationTarget_proofs` holds for every queue size, decimation and counter width.

* `Invariance`: `HandlerOwns` (what each step of the handler has established: no
  transfer under way once it has the buffer, the record it read is the oldest) and
  `WakeupsKept` (a completion or a record it will not see has pended the vector).
* `TypeCorrect`, `WakeupNeverLost`, and `Refinement` of `RecordStream` under the
  mapping that puts the record in transit in front of the queue.
* `CountedStream`, `GapsAreCounted`: the numbers missing between two records on the wire are the
  drops counted between them. That is an action property of `sent`; the invariant
  behind it (`StreamCounted`) says the same of every two neighbours in the stream, of the wire and
  the first, and of the last and the producer's counters, with the wrapping of the sequence and the
  saturation of the count.
* `WireIsTruthful`, from `TruthfulRecords`: for every width of clock
  and offset, by a lemma for each of the three kinds of offset.

`Estimation_proofs` holds, of the encoder, for every bound below 32768 and every movement that
keeps it from sample to sample. `IInv` adds `Anchored` to the properties: the
tracker's reference is the count where the shaft was accepted last, and the shaft is
within `reach` of there. The i16 difference equals the displacement up to whole turns
(`DeltaModuloTurns`), and exactly when reach and bound together stay below one turn
(`DeltaExact`). `ExactUnwrapping`, `WrongByWholeTurns`, `BoundDecides`, `TypeCorrect`.

`ControlShadow_proofs` holds for every counter range, health period below it, limits and command
set. `TwoClocks`: `ClockInv` adds the age of each clock, as neither statement of `ClocksRead` says
how long ago its clock was read; `CaptureExact` and `CaptureLoses` are what one
capture does within and beyond a range. `WordsTrue`: the electrical words are the sink's at every
step, though the stage word is not; that they agree with the command's is arithmetic of truncation, for every
resolution that is a whole number of steps a permille (`MilliSum`). `TypeCorrect`.

* `TimesInvariance`: `TimesInv` says of each timestamp the target keeps (the monitor's
  reference, the entry of the run, the tracked sample) which instant it tells, to a microsecond,
  and of how much it is behind: by what the task's clock has lost since, which only grows, and
  only by whole ranges of the counter.
* `SilenceIsSeen` (no poll reports Healthy over a silence that is Late, or less than Timeout
  over one of a timeout) and `AuthorityIsOnTime` (an authorized step answers an edge that
  came in time or a whole range late): action properties that compare a conversion by the clock's
  rate on both sides; the divisions are reasoned about once, in the lemmas on
  `Tells`.

`WebotsBridge_proofs` holds for every timing policy, period, decimation and length. `IInv` says of
each stage of a sample what the lines in the pipes determine: what either process has, what
it may assume of the other, and how each has ended. `InTheLoop` follows (the torque simulated
with is the input the bridge's observer will assume, whichever stage fails), and `LeavesAtRest`, the
safety half of `EndsAtRest`.

`Mpu6050_proofs` holds for every byte of two bits or more, stretch timeout, number of registers
and sample size, and an arbitrary slave of the kind modelled.

* `Invariance`: `IInv` follows the driver through its pin sequences: at each place in
  them it says who holds which line, and what the slave has seen of the byte (`BeforeRise`, `AfterRise`,
  `Between`, ...). The list of frames left is known only by its shape (`FramesLeft`), so the length of
  a transaction does not matter; `WriteFrames` and `ReadFrames` show that the driver's
  transactions have it. During recovery the slave may have
  acknowledged one byte at most, as a second is `BITS + 1` falling edges away (`OneByte`): the proof that a
  recovery is never mistaken for a register write rests on that number of pulses.
* `AlwaysInStep` (driver and slave agree about byte and bit whenever the slave samples),
  `TransactionLeavesBusIdle` (but for a clock that was given up on) and `RunningIsProgrammed`.

The proof corrected the model twice: two cases of the slave's falling edge overlapped for a slave
nobody has addressed, which leaves the choice open though the checker takes the first; and a union
without parentheses in `Primitives` was read differently by checker and prover.

Of the estimators `Estimation_proofs` holds for any number of channels, any masks and any length of run. `EstimatorInv` joins
`ValidIsFresh` (a Valid estimate is finite and was corrected with every required channel)
with `ObserverSound` and the order of the counters; `ValidEstimates` and `Refinement` follow.

`Telemetry_proofs` holds, of live-shadow, for every decimation, deadline, set of costs, queue size and
width of the counters; the one bound it needs is that `sequence` does not wrap (`MaxRuns`).

* `Invariance`: `IInv` joins `StreamTells` with four facts. `StatisticsTell`: the maxima, the divider and
  the overruns are those of the runs so far and of the current window; it says "a cost that none
  exceeds" (`IsPeak`) where `StreamTells` says `Max`, so that a run that is appended changes it by one
  element and no recursion over the history is needed. `NextTells`: the record to be made next stands
  to the last one on its way as any two neighbours do, over records dropped in between and a count of
  them that saturates. `PumpOwns`: what each step of the pump has made sure of. `MonitorTimed`:
  the monitor's stamp is as old as the silence, which is what makes "on time" true of an edge.
* `TypeCorrect` and `StreamIsTrue`.

Of io-shadow it holds for all decimations of which the telemetry's divides the counters' range, and all
subsets of the answers. `OutputsTell` is not inductive: `PacketDatesItself` needs to know at which
ticks a number is used up. `CountersInStep` says so: since its last attempt an output has waited for
the tick's remainder by its decimation, and number times decimation plus that wait is the
tick, modulo the range. It survives the wrap of the tick because that is an attempt for
both outputs, and on time for the telemetry because its decimation divides the range. The wrapping
counters are never compared, only differences of them modulo the range (`StepTogether`,
`StepsWithHistory`). `OutputsInvariance`, `OutputsAreTold`.

The types and the other parts of each inductive invariant were checked by TLC before they were
proved.

Only model-checked, beyond the prover: what must eventually happen (`TimeoutEndsInFault`,
`CaptureEnds`, `QueueDrains`, `CallsEnd`, and that the Webots loop does end, in `EndsAtRest`); and
`CaptureTells`, whose decoders are recursive operators: that a loop over bytes finds every record of
any stream is an induction over data. Every other invariant and action property of a passing run
is a theorem.

## 5. Findings

`docs/firmware/actuation.md:120` says revocation "exists so a target runtime does not
leave stale physical effort latched when Supervisor withdraws authority or the
control opportunity disappears". In runtime-shadow only a complete
opportunity reaches `revoke`: `timing_health` does not, nor do the early returns at
main.rs:677 and 684. The run `shadow_stale_output` shows the sink still holding an
authorized frame for ever after the fault. The sink is a shadow: no output pin moves.

`firmware/adapters/sensor-calibration/src/encoder.rs:182-184` says the modular
difference is the unique shortest delta and that "the configured physical bound below
protects the validity of that unwrapping assumption". The bound is one per sample,
and the code compares it with the difference since the last accepted sample, however
many were lost in between: in `encoder_lost_samples` a shaft that never exceeds
16000 counts a sample moves 64000 over four, of which three are lost; the
difference reads -1536 and is accepted. `Exact` says how much may be lost. The SITL
and Webots paths end at the first rejected encoder, and no firmware target uses the
tracker yet.

Observations that are not disagreements:

* the first edge, the second and a completion have to fit in 15 ms from power-on;
  a single late gap of more than about 9.5 ms trips the watchdog before the sensor
  timeout of 15 ms;
* `docs/supervisor/authority.md` quotes the 2/3/6 ms policy of the observation and
  live-shadow targets; runtime-shadow and control-shadow use 5/7.5/15 ms;
* in control-shadow and runtime-shadow a data-ready event that comes after more than a whole range of
  the cycle counter (59 s) may look Healthy to `on_event`, and the IMU task's clock is then a wrap
  behind the health task's for good: the difference of the two clocks makes polls say Timeout again and
  again while events say Healthy. runtime-shadow has latched a fault long before;
* after a clock that was held too long in the middle of a byte, a slave may be left holding SDA; the
  STOP gives it no further clock, and `recover_bus` is called by init alone: every
  later transaction is `BusBusy`;
* an estimator's refused step skips a prediction that nothing makes up for (`lag`, which never exceeds
  the `errors` the caller was answered), and the next estimate is Valid all the same;
* when the production bridge fails, `swp_trace.py` stops the motors but raises before it
  quits the simulation;
* the velocity loop may report `NumericalFault` after it has integrated;
* a raw record whose acquisition end cannot be carried is refused as `Timing` by its
  decoder, its good checksum notwithstanding;
* a restart of the board shows in the observer as almost 2^32 missing numbers (`GapsTold` is then right modulo
  the range only), and a control profile as an invalid record and 80 discarded bytes;
* a transport's error is in no statistic, but is the difference of the others (`OutputsTell`);
  the display's cadence is once early when the tick wraps, as 20 does not divide 2^32;
* in SITL a missed opportunity neither revokes nor polls the monitor: the world
  holds the last effort until the next commit.

## 6. Not modelled

Arithmetic of the control laws, estimators and plant, IMU calibration and frame transform (real-valued,
stateless; their outcomes are choices in the models above); board descriptions and the
control-footprint image (straight-line code); the other host tools in Python and JavaScript and the two
single-process trace bridges (offline). In the modelled parts: runtime-shadow's two tasks read one
clock here (`ControlShadow` has the two), its record ring keeps the newest entry,
`clear_faults_to_standby` (called by no target) is left out, SITL's file formats and the bridges' line
formats are left out, of the records only times and headers are modelled, the register backend of
the ONE V2 motor interface (linked into no target) is left out, and only configurations that
`ProductionPathConfig` accepts are considered.

## 7. Plan

Done, in this order: the timing, authority and supervisor operators with runtime-shadow; the control runtime
and SITL; record pump and observation target; encoder tracking; control-shadow with the two
clocks; I2C and MPU6050; live-shadow; the Webots loop; the estimators; the record codec; io-shadow; the
wireless observer.

Then the proofs, component by component in the order of section 4: runtime-shadow, SITL,
observation target, encoder, estimators, control-shadow, the Webots loop, the bus, live-shadow, io-shadow.

Left: `RuntimeShadow` over `CycleClock`, its safety with two clocks instead of one, with the lemmas of
`ControlShadow_proofs`.
