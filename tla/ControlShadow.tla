--------------------------- MODULE ControlShadow ----------------------------
(***************************************************************************)
(* The control-shadow target: the profiling build of one control           *)
(* opportunity.  Two interrupt tasks share the sensor timing monitor:      *)
(*                                                                         *)
(*   timing_health  (priority 3, TIM1)  polls it every HEALTH_PERIOD;      *)
(*   imu_data_ready (priority 2, EXTI)  registers its event, acquires, and *)
(*                  runs ShadowEngine::step into an in-memory sink.        *)
(*                                                                         *)
(* There is no supervisor here: the operating state is always Balancing    *)
(* and a timeout latches nothing.  Each task extends the cycle counter by  *)
(* itself, so the monitor compares the timestamps of two clocks.           *)
(***************************************************************************)
EXTENDS CycleClock, SensorTiming, RuntimeAuthority, OneV2PwmDir

CONSTANTS
  HEALTH_PERIOD,  (* cycles between two runs of timing_health               *)
  FULL_MILLI,     (* the word of a unit command: 1000 permille              *)
  STEPS_PER_MILLI,(* steps of a command in one permille                     *)
  Commands,       (* actuator commands the model tries, [drive, reaction]   *)
  TaskBudget,     (* bound: cycles one run of imu_data_ready may take       *)
  MinEdgeGap,     (* bound: fewest cycles between two DATA_RDY edges        *)
  MaxTurns        (* bound: the counter wraps seen                          *)

ASSUME ControlShadowConstants ==
  /\ HEALTH_PERIOD \in Nat \ {0} /\ HEALTH_PERIOD < COUNTER_RANGE
  /\ FULL_MILLI \in Nat \ {0} /\ STEPS_PER_MILLI \in Nat \ {0}
  /\ FullEffort = FULL_MILLI * STEPS_PER_MILLI
  /\ Commands \subseteq [drive : Efforts, reaction : Efforts]
  /\ TaskBudget \in Nat /\ TaskBudget < COUNTER_RANGE
  /\ MinEdgeGap \in Nat
  /\ MaxTurns \in Nat \ {0}

VARIABLES
  configured,    (* init found, probed and configured the IMU               *)
  now,           (* true time                                               *)
  since_edge,    (* cycles since the last DATA_RDY edge, up to MinEdgeGap   *)
  since_poll,    (* cycles since the last run of timing_health              *)
  pending,       (* the EXTI pending bit                                    *)
  imu_clock,     (* imu_last_cycle, imu_cycle_epoch                         *)
  health_clock,  (* health_last_cycle, health_cycle_epoch                   *)
  monitor,       (* shared: SensorTimingMonitor                             *)
  task,          (* the activation of imu_data_ready: pc and locals         *)
  tracker,       (* SyntheticEncoderTracker: primed, previous_at_us         *)
  sink,          (* ShadowElectricalIo.last                                 *)
  words,         (* the debugger's SHADOW_* words                           *)
  truth          (* history: instants of the last IMU capture, registered   *)
                 (* event and tracked sample; "slept" over a whole range    *)

hardware == <<configured, now, since_edge, since_poll, pending>>
vars == <<hardware, imu_clock, health_clock, monitor, task, tracker, sink, words, truth>>

IdleTask == [pc |-> "idle", entered |-> 0, started_us |-> 0, entry |-> [turns |-> 0, count |-> 0],
             timing |-> "Startup", gap |-> 0, imu_ok |-> FALSE]

\* scale_milli: the cast cuts what is less than a permille off, towards zero.  No
\* command or fraction comes near the bounds it saturates at.
ScaleMilli(steps) ==
  IF steps < 0 THEN -((-steps) \div STEPS_PER_MILLI) ELSE steps \div STEPS_PER_MILLI

CommandWords(command) ==
  [drive |-> ScaleMilli(command.drive), reaction |-> ScaleMilli(command.reaction)]

\* publish_electrical
ChannelWords(channel) ==
  [direction_high |-> channel.direction_high, pwm_high |-> ScaleMilli(channel.pwm_line_high)]

ElectricalWords(frame) ==
  [drive |-> ChannelWords(frame.drive), reaction |-> ChannelWords(frame.reaction)]

NewWords == [stage |-> 0, timing |-> "Startup", authorized |-> FALSE,
             command |-> [drive |-> 0, reaction |-> 0],
             electrical |-> ElectricalWords(ZeroEffort)]
-----------------------------------------------------------------------------
(* The state #[init] leaves.  The counter runs since reset, not since then.  *)
Init ==
  /\ configured \in BOOLEAN
  /\ now \in [turns : {0}, count : {0, COUNTER_RANGE - 1}]
  /\ since_edge = 0 /\ since_poll = 0
  /\ pending \in {FALSE, configured}
  /\ imu_clock = NewClock(now) /\ health_clock = NewClock(now)
  /\ monitor = NewMonitor(TimestampUs(NewClock(now)))
  /\ task = IdleTask
  /\ tracker = [primed |-> FALSE, previous_at_us |-> 0]
  /\ sink = ZeroEffort
  /\ words = NewWords
  /\ truth = [captured |-> now, event |-> now, tracked |-> now, slept |-> FALSE]
-----------------------------------------------------------------------------
(* Time, the health timer's phase and the sensor.                            *)

\* One cycle.  timing_health is served when it is due, and imu_data_ready in the
\* cycle its edge arrives and within its budget.
Tick ==
  /\ since_poll < HEALTH_PERIOD
  /\ task.pc = "idle" => ~pending
  /\ task.pc # "idle" => task.entered < TaskBudget
  /\ now.turns < MaxTurns
  /\ now' = OneCycleLater(now)
  /\ since_edge' = IF since_edge < MinEdgeGap THEN since_edge + 1 ELSE since_edge
  /\ since_poll' = since_poll + 1
  /\ task' = IF task.pc = "idle" THEN task ELSE [task EXCEPT !.entered = @ + 1]
  /\ UNCHANGED <<configured, pending, imu_clock, health_clock, monitor, tracker, sink,
                 words, truth>>

\* Bound: the run has seen MaxTurns wraps and is over.
Over == now.turns = MaxTurns /\ UNCHANGED vars

DataReady ==
  /\ configured /\ since_edge = MinEdgeGap
  /\ since_edge' = 0 /\ pending' = TRUE
  /\ UNCHANGED <<configured, now, since_poll, imu_clock, health_clock, monitor, task,
                 tracker, sink, words, truth>>
-----------------------------------------------------------------------------
(* Task timing_health, whole.                                               *)
TimingHealth ==
  /\ since_poll = HEALTH_PERIOD
  /\ since_poll' = 0
  /\ health_clock' = Captured(health_clock, now)
  /\ monitor' = PollMonitor(monitor, TimestampUs(health_clock'))
  /\ words' = [words EXCEPT !.timing = monitor'.health]
  /\ UNCHANGED <<configured, now, since_edge, pending, imu_clock, task, tracker, sink, truth>>
-----------------------------------------------------------------------------
(* Task imu_data_ready, one action per section between possible preemptions. *)

\* capture_timestamp_us on the task's own clock, with the history it leaves.
CaptureImu ==
  /\ imu_clock' = Captured(imu_clock, now)
  /\ truth' = [truth EXCEPT !.captured = now,
                            !.slept = @ \/ WholeRangeSince(truth.captured, now)]

\* Take the acquisition timestamp and clear the pending bit.
Enter ==
  /\ task.pc = "idle" /\ pending
  /\ pending' = FALSE
  /\ CaptureImu
  /\ task' = [IdleTask EXCEPT !.pc = "event", !.started_us = TimestampUs(imu_clock'),
                              !.entry = now]
  /\ UNCHANGED <<configured, now, since_edge, since_poll, health_clock, monitor, tracker,
                 sink, words>>

\* imu_timing_monitor.lock(|monitor| monitor.on_event(acquisition_started_us))
RegisterEvent ==
  /\ task.pc = "event"
  /\ monitor' = OnEvent(monitor, task.started_us)
  /\ task' = [task EXCEPT !.pc = "store", !.timing = monitor'.health,
                          !.gap = CyclesSince(truth.event, task.entry)]
  /\ truth' = [truth EXCEPT !.event = task.entry]
  /\ UNCHANGED <<hardware, imu_clock, health_clock, tracker, sink, words>>

\* Publish the classification and read the sensors between two more captures.
\* The poll may have published a newer one since the lock was released.
StoreTiming ==
  /\ task.pc = "store"
  /\ words' = [words EXCEPT !.timing = task.timing]
  /\ CaptureImu
  /\ \E ok \in BOOLEAN : task' = [task EXCEPT !.pc = "read", !.imu_ok = ok]
  /\ UNCHANGED <<hardware, health_clock, monitor, tracker, sink>>

\* The captures that close the acquisition.
Acquired ==
  /\ task.pc = "read"
  /\ CaptureImu
  /\ task' = [task EXCEPT !.pc = "step"]
  /\ UNCHANGED <<hardware, health_clock, monitor, tracker, sink, words>>

\* The interval, in microseconds, SyntheticEncoderTracker::observe divides by.
RateSpan(at_us) ==
  LET delta_us == SaturatingSub(at_us, tracker.previous_at_us)
  IN  IF delta_us < 1 THEN 1 ELSE delta_us

\* Mutation of Track: the time of the first sample is kept.
TrackFromFirst ==
  /\ tracker' = IF tracker.primed THEN tracker
                ELSE [primed |-> TRUE, previous_at_us |-> task.started_us]
  /\ truth' = [truth EXCEPT !.tracked = task.entry]

\* SyntheticEncoderTracker::observe
Track ==
  /\ tracker' = [primed |-> TRUE, previous_at_us |-> task.started_us]
  /\ truth' = [truth EXCEPT !.tracked = task.entry]

\* step returned early: the words and the sink keep what an earlier step left.
StopAt(stage) == words' = [words EXCEPT !.stage = stage] /\ UNCHANGED sink

\* What RuntimeAuthority decides at the end of a step.  An estimate comes with
\* validity Valid; the operating state is the constant Balancing.
Decision(wheel) ==
  Evaluate([operating_state |-> "Balancing", timing |-> task.timing,
            estimate_validity |-> "Valid", reaction_wheel |-> wheel],
           [drive_saturated |-> FALSE, reaction_saturated |-> FALSE])

\* Mutation of Finish: the frame is published before the sink is driven.
FinishPublishingFirst(command, wheel) ==
  /\ sink' = IF Decision(wheel).authorized THEN EncodeAuthorized(command) ELSE ZeroEffort
  /\ words' = [words EXCEPT !.stage = 7, !.authorized = Decision(wheel).authorized,
                            !.command = CommandWords(command),
                            !.electrical = ElectricalWords(sink)]

\* step to its end: authorize or revoke, publish what the sink holds.
Finish(command, wheel) ==
  /\ sink' = IF Decision(wheel).authorized THEN EncodeAuthorized(command) ELSE ZeroEffort
  /\ words' = [words EXCEPT !.stage = 7, !.authorized = Decision(wheel).authorized,
                            !.command = CommandWords(command),
                            !.electrical = ElectricalWords(sink')]

\* ShadowEngine::step, whole: scaling fails on a sample that was not read; the
\* observer refuses a measurement whose timing is not Healthy and may fail on
\* its numbers, as may the control law and the actuator model.
EngineStep ==
  \/ ~task.imu_ok /\ StopAt(1) /\ UNCHANGED <<tracker, truth>>
  \/ task.imu_ok /\ Track /\ StopAt(2)
  \/ /\ task.imu_ok /\ ClosedLoopEligible(task.timing) /\ Track
     /\ \/ StopAt(3)
        \/ StopAt(4)
        \/ \E command \in Commands, wheel \in ReactionWheelAuthority : Finish(command, wheel)

Step ==
  /\ task.pc = "step"
  /\ EngineStep
  /\ task' = IdleTask
  /\ UNCHANGED <<hardware, imu_clock, health_clock, monitor>>

ImuDataReady == Enter \/ RegisterEvent \/ StoreTiming \/ Acquired \/ Step

Next == Tick \/ Over \/ DataReady \/ TimingHealth \/ ImuDataReady

Spec == Init /\ [][Next]_vars

-----------------------------------------------------------------------------
(* Properties                                                               *)

MilliCommands == [drive : -FULL_MILLI .. FULL_MILLI, reaction : -FULL_MILLI .. FULL_MILLI]

ChannelMilli == [direction_high : BOOLEAN, pwm_high : 0 .. FULL_MILLI]
ElectricalMilli == [drive : ChannelMilli, reaction : ChannelMilli]

ShadowWords ==
  [stage : 0 .. 7, timing : SensorTimingHealth, authorized : BOOLEAN,
   command : MilliCommands, electrical : ElectricalMilli]

TypeOK ==
  /\ configured \in BOOLEAN /\ pending \in BOOLEAN
  /\ now \in Instants
  /\ since_edge \in 0 .. MinEdgeGap /\ since_poll \in 0 .. HEALTH_PERIOD
  /\ imu_clock \in Clocks /\ health_clock \in Clocks
  /\ monitor \in Monitors(Nat)
  /\ task \in [pc : {"idle", "event", "store", "read", "step"}, entered : 0 .. TaskBudget,
                started_us : Nat, entry : Instants, timing : SensorTimingHealth,
                gap : Int, imu_ok : BOOLEAN]
  /\ tracker \in [primed : BOOLEAN, previous_at_us : Nat]
  /\ sink \in ElectricalActuation
  /\ words \in ShadowWords
  /\ truth \in [captured : Instants, event : Instants, tracked : Instants, slept : BOOLEAN]

Reads(clock, instant) == clock.epoch = instant.turns /\ clock.last = instant.count

\* The poll's clock is exact whatever the sensor does.  The IMU task's clock is
\* exact until the task is once not run for a whole range of the counter, and
\* from then on behind by at least one wrap, for good.
ClocksRead ==
  /\ since_poll = 0 => Reads(health_clock, now)
  /\ ~truth.slept => Reads(imu_clock, truth.captured)
  /\ truth.slept => /\ imu_clock.last = truth.captured.count
                    /\ imu_clock.epoch < truth.captured.turns

\* Across the two clocks, a poll never believes in a sensor that is silent: if it
\* reports Healthy the last registered edge is less than LATE_AFTER old, and if
\* it does not report Timeout less than TIMEOUT_AFTER.  A Timeout is a true one
\* unless the IMU clock has lost a wrap.
PollSeesSilence ==
  [][TimingHealth =>
       LET silence == CyclesSince(truth.event, now)
       IN  /\ monitor'.health = "Healthy" => silence < LATE_AFTER * CYCLES_PER_US
           /\ monitor'.health # "Timeout" => silence < TIMEOUT_AFTER * CYCLES_PER_US
           /\ monitor'.health = "Timeout" /\ ~truth.slept =>
                silence > (TIMEOUT_AFTER - 1) * CYCLES_PER_US]_vars

\* A step that is authorized is one whose edge came within LATE_AFTER of the edge
\* before, or so late that the counter went all the way round in between; the
\* interval its wheel rates are computed with is then the true one to within a
\* microsecond, or short of it by whole ranges.
AuthorizedOnTime ==
  [][Step /\ words'.stage = 7 /\ words'.authorized =>
       LET span == CYCLES_PER_US * RateSpan(task.started_us)
           true_span == CyclesSince(truth.tracked, task.entry)
       IN  /\ task.gap < LATE_AFTER * CYCLES_PER_US \/ task.gap >= COUNTER_RANGE
           /\ tracker.primed => /\ span <= true_span + CYCLES_PER_US
                                /\ truth.slept \/ span >= true_span - CYCLES_PER_US]_vars

\* A command's word and the words of its electrical channel tell the same effort,
\* up to the permille that two roundings may lose, and the same direction.
Agree(command, channel) ==
  /\ channel.pwm_high + (IF command < 0 THEN -command ELSE command)
       \in {FULL_MILLI - 1, FULL_MILLI}
  /\ command < 0 => channel.direction_high
  /\ command > 0 => ~channel.direction_high

\* step returns early at any stage and leaves words of earlier steps behind.
\* Even so, between two runs the electrical words are what the sink holds in
\* permille, without the AUTHORIZED word it holds no effort, and with it the
\* COMMAND words tell the effort of the electrical ones.
WordsTellSink ==
  task.pc = "idle" =>
    /\ words.electrical = ElectricalWords(sink)
    /\ ~words.authorized => sink = ZeroEffort
    /\ words.authorized => /\ Agree(words.command.drive, words.electrical.drive)
                           /\ Agree(words.command.reaction, words.electrical.reaction)

-----------------------------------------------------------------------------
(* The inductive invariants behind ClocksRead and WordsTellSink.            *)

NotBefore(instant, then) ==
  \/ instant.turns > then.turns
  \/ instant.turns = then.turns /\ instant.count >= then.count

\* The health clock is since_poll cycles old, and a wrap away at the most.
HealthClockAge ==
  \/ now.turns = health_clock.epoch /\ now.count = health_clock.last + since_poll
  \/ /\ now.turns = health_clock.epoch + 1
     /\ now.count + COUNTER_RANGE = health_clock.last + since_poll

ImuClockAge ==
  /\ NotBefore(now, truth.captured)
  /\ imu_clock.last = truth.captured.count
  /\ IF truth.slept THEN imu_clock.epoch < truth.captured.turns
                    ELSE imu_clock.epoch = truth.captured.turns

ClockTypes ==
  /\ now \in Instants /\ since_poll \in 0 .. HEALTH_PERIOD
  /\ imu_clock \in Clocks /\ health_clock \in Clocks
  /\ truth.captured \in Instants /\ truth.slept \in BOOLEAN
  /\ DOMAIN truth = {"captured", "event", "tracked", "slept"}

ClockInv == ClockTypes /\ HealthClockAge /\ ImuClockAge

\* What the task's clock shows in cycles, how far that is behind true time, and
\* the microseconds a reading is told by.
Reading(clock) == clock.epoch * COUNTER_RANGE + clock.last
ImuLag == Cycles(truth.captured) - Reading(imu_clock)
Tells(us, reading) ==
  us * CYCLES_PER_US <= reading /\ reading < us * CYCLES_PER_US + CYCLES_PER_US

\* The history in order: the tracked sample and the registered event are not
\* later than the run's entry, and that not than its last capture.
HistoryOrder ==
  /\ Cycles(truth.event) <= Cycles(truth.captured)
  /\ Cycles(truth.tracked) <= Cycles(truth.captured)
  /\ task.pc # "idle" => /\ Cycles(truth.tracked) <= Cycles(task.entry)
                         /\ Cycles(task.entry) <= Cycles(truth.captured)
  /\ task.pc = "event" => task.entry = truth.captured

\* The monitor's reference is never ahead of its event, and tells it as the task's
\* clock reads now unless a whole range has passed since.
EventTold ==
  /\ monitor.reference * CYCLES_PER_US <= Cycles(truth.event)
  /\ ~truth.slept => Tells(monitor.reference, Cycles(truth.event))
  /\ \/ CyclesSince(truth.event, truth.captured) >= COUNTER_RANGE
     \/ Tells(monitor.reference, Cycles(truth.event) - ImuLag)

\* The timestamp a run took at its entry; the clock can only lose from there on.
EntryTold ==
  /\ task.pc # "idle" =>
       /\ Cycles(task.entry) - ImuLag < task.started_us * CYCLES_PER_US + CYCLES_PER_US
       /\ task.started_us * CYCLES_PER_US <= Cycles(task.entry)
       /\ ~truth.slept => Tells(task.started_us, Cycles(task.entry))
  /\ task.pc = "event" => Tells(task.started_us, Cycles(task.entry) - ImuLag)
  /\ task.pc \in {"store", "read", "step"} /\ task.timing = "Healthy" =>
       task.gap < LATE_AFTER * CYCLES_PER_US \/ task.gap >= COUNTER_RANGE

\* The tracked sample's timestamp, and its distance from the run's own.
SampleTold ==
  tracker.primed =>
    /\ tracker.previous_at_us * CYCLES_PER_US <= Cycles(truth.tracked)
    /\ Cycles(truth.tracked) - ImuLag
         < tracker.previous_at_us * CYCLES_PER_US + CYCLES_PER_US
    /\ task.pc # "idle" =>
         task.started_us * CYCLES_PER_US - tracker.previous_at_us * CYCLES_PER_US
           < CyclesSince(truth.tracked, task.entry) + CYCLES_PER_US

TimesInv == TypeOK /\ ClockInv /\ HistoryOrder /\ EventTold /\ EntryTold /\ SampleTold

WordsInv ==
  /\ DOMAIN words = {"stage", "timing", "authorized", "command", "electrical"}
  /\ words.authorized \in BOOLEAN
  /\ words.electrical = ElectricalWords(sink)
  /\ ~words.authorized => sink = ZeroEffort
  /\ words.authorized => \E command \in Commands : /\ words.command = CommandWords(command)
                                                   /\ sink = EncodeAuthorized(command)
=============================================================================
