--------------------------- MODULE RuntimeShadow ----------------------------
(***************************************************************************)
(* The runtime-shadow target: two RTIC interrupt tasks on one core.        *)
(*                                                                         *)
(*   timing_health  (priority 3, TIM1)   polls the sensor monitor and the  *)
(*                  control watchdog and reports both to the supervisor;   *)
(*   imu_data_ready (priority 2, EXTI)   one control opportunity: acquire, *)
(*                  estimate, control, authorize, drive the output sink.   *)
(*                                                                         *)
(* The monitor, the watchdog and the supervisor are shared.  Every lock of *)
(* them has ceiling 3, so timing_health is atomic for imu_data_ready, and  *)
(* imu_data_ready can be preempted between any two of its lock sections:   *)
(* it is one action per section, ordered by task.pc.                       *)
(*                                                                         *)
(* Time is counted in ticks and stamps are relative to the present: the    *)
(* present is 0, a stamp of -3 was taken three ticks ago, and a tick moves *)
(* every stamp one further back.  Both tasks read one clock here.          *)
(***************************************************************************)
EXTENDS RuntimeSupervisor

CONSTANTS
  HEALTH_PERIOD,     (* ticks between two runs of timing_health             *)
  OUTER_DECIMATION,  (* control opportunities per outer-loop update         *)
  RECORD_DECIMATION, (* control opportunities per runtime record            *)
  TaskBudget,        (* bound: ticks one run of imu_data_ready may take     *)
  MinEdgeGap,        (* bound: fewest ticks between two DATA_RDY edges      *)
  MaxEdgeGap         (* most ticks between two edges while cadence is kept  *)

ASSUME RuntimeShadowConstants ==
  /\ HEALTH_PERIOD \in Nat \ {0}
  /\ OUTER_DECIMATION \in Nat \ {0}
  /\ RECORD_DECIMATION \in Nat \ {0}
  /\ TaskBudget \in Nat
  /\ MinEdgeGap \in Nat \ {0}
  /\ MaxEdgeGap \in Nat \ {0}

\* A run of the control task is over before either timeout can expire.
ASSUME BudgetBelowTimeouts ==
  TaskBudget < TIMEOUT_AFTER /\ TaskBudget < CONTROL_WATCHDOG_TIMEOUT

\* A cadence that is kept stays clear of the limits: the interval between two
\* runs is not Late, an event is registered before the sensor's timeout, and the
\* startup and the first measured interval fit the watchdog's timeout with one
\* run to spare (the target: 5 ms period, Late from 7.5, both timeouts 15 ms).
ASSUME CadenceWithinLimits ==
  /\ TaskBudget <= MaxEdgeGap
  /\ MaxEdgeGap < LATE_AFTER
  /\ MaxEdgeGap + TaskBudget < TIMEOUT_AFTER
  /\ 2 * MaxEdgeGap + TaskBudget < CONTROL_WATCHDOG_TIMEOUT

VARIABLES
  configured,     (* init found, probed and configured the IMU              *)
  cadenced,       (* the sensor keeps its cadence; else it may be late, stop *)
  edge,           (* stamp of the sensor's last DATA_RDY edge               *)
  pending,        (* the EXTI pending bit of that line                      *)
  last_poll,      (* stamp of the last run of timing_health                 *)
  monitor,        (* shared: SensorTimingMonitor                            *)
  watchdog,       (* shared: ControlWatchdog                                *)
  supervisor,     (* shared: RuntimeSupervisor                              *)
  task,           (* the activation of imu_data_ready: pc and locals        *)
  outer,          (* ShadowEngine: outer_divider, hold_outer_integrator     *)
  frame,          (* ShadowElectricalIo.last: what the actuators are told   *)
  record_divider,
  record          (* the newest entry of runtime_records                    *)

environment == <<configured, cadenced, edge, pending, last_poll>>
shared      == <<monitor, watchdog, supervisor>>
engine      == <<outer, frame>>
recording   == <<record_divider, record>>
vars        == <<environment, shared, task, engine, recording>>

Now == 0

\* Bound: older stamps are kept at -Horizon, where every threshold is exceeded.
Horizon == TIMEOUT_AFTER + CONTROL_WATCHDOG_TIMEOUT + HEALTH_PERIOD + TaskBudget

OneTickOlder(stamp) == IF stamp > -Horizon THEN stamp - 1 ELSE stamp

\* What prepare() hands on, reduced to what authority depends on.
ControlSteps ==
  [reaction_wheel : ReactionWheelAuthority, drive_saturated : BOOLEAN,
   reaction_saturated : BOOLEAN]

NoStep == [reaction_wheel |-> "Nominal", drive_saturated |-> FALSE,
           reaction_saturated |-> FALSE]

IdleTask == [pc |-> "idle", started |-> Now, timing |-> "Startup", imu_ok |-> FALSE,
             completed |-> Now, step |-> NoStep, operating_state |-> "Boot",
             authorized |-> FALSE]

\* ShadowEngine::new: the integrator is held until the first decision.
NewShadowEngine == [divider |-> 0, hold |-> TRUE]

\* The empty record buffer.
NoRecord == [operating_state |-> "Boot", faults |-> {}, authorized |-> FALSE]
-----------------------------------------------------------------------------
(* The state #[init] leaves, at the moment interrupts are enabled.          *)
Init ==
  /\ configured \in BOOLEAN
  /\ cadenced \in BOOLEAN
  /\ edge = Now
  /\ pending \in {FALSE, configured}
  /\ last_poll = Now
  /\ monitor = NewMonitor(Now)
  /\ watchdog = NewWatchdog(Now)
  /\ supervisor = IF configured
                  THEN RequestBalance(HardwareCheckPassed(BootComplete(NewSupervisor)))
                  ELSE BootComplete(NewSupervisor)
  /\ task = IdleTask
  /\ outer = NewShadowEngine
  /\ frame = "neutral"
  /\ record_divider = 0
  /\ record = NoRecord

-----------------------------------------------------------------------------
(* The environment: time and the sensor.                                    *)

\* One tick of time.  The health timer has the highest priority and is served
\* within its period; a run of imu_data_ready takes at most TaskBudget ticks,
\* and it is dispatched in the tick its edge arrives.
Tick ==
  /\ -last_poll < HEALTH_PERIOD
  /\ task.pc = "idle" => ~pending
  /\ task.pc # "idle" => -task.started < TaskBudget
  /\ configured /\ cadenced => -edge < MaxEdgeGap
  /\ edge' = OneTickOlder(edge)
  /\ last_poll' = last_poll - 1
  /\ monitor' = [monitor EXCEPT !.reference = OneTickOlder(@)]
  /\ watchdog' = [watchdog EXCEPT !.reference = OneTickOlder(@)]
  /\ task' = IF task.pc = "idle" THEN task
             ELSE [task EXCEPT !.started = @ - 1,
                               !.completed = OneTickOlder(@)]
  /\ UNCHANGED <<configured, cadenced, pending, supervisor, engine, recording>>

\* The MPU6050 raises DATA_RDY.  The EXTI line is enabled only by an init that
\* configured the IMU; an edge that finds the pending bit set is absorbed by it.
DataReady ==
  /\ configured
  /\ -edge >= MinEdgeGap
  /\ edge' = Now
  /\ pending' = TRUE
  /\ UNCHANGED <<configured, cadenced, last_poll, shared, task, engine, recording>>

-----------------------------------------------------------------------------
(* Task timing_health, whole.                                               *)
TimingHealth ==
  /\ -last_poll = HEALTH_PERIOD
  /\ last_poll' = Now
  /\ monitor' = PollMonitor(monitor, Now)
  /\ watchdog' = PollWatchdog(watchdog, Now)
  /\ supervisor' = ObserveIndependentHealth(supervisor, monitor'.health, watchdog'.health)
  /\ UNCHANGED <<configured, cadenced, edge, pending, task, engine, recording>>

-----------------------------------------------------------------------------
(* Task imu_data_ready, one action per section between possible preemptions. *)

Return == task' = IdleTask

\* Take the acquisition timestamp and clear the EXTI pending bit.
Enter ==
  /\ task.pc = "idle" /\ pending
  /\ pending' = FALSE
  /\ task' = [task EXCEPT !.pc = "event", !.started = Now]
  /\ UNCHANGED <<configured, cadenced, edge, last_poll, shared, engine, recording>>

\* imu_timing_monitor.lock(|monitor| monitor.on_event(acquisition_started_us))
RegisterEvent ==
  /\ task.pc = "event"
  /\ monitor' = OnEvent(monitor, task.started)
  /\ task' = [task EXCEPT !.pc = "acquire", !.timing = monitor'.health]
  /\ UNCHANGED <<environment, watchdog, supervisor, engine, recording>>

\* Mutation of Acquire: only a Late event is refused.
AcquireUnlessLate ==
  /\ task.pc = "acquire"
  /\ IF task.timing # "Late"
     THEN \E ok \in BOOLEAN : task' = [task EXCEPT !.pc = "prepare", !.imu_ok = ok]
     ELSE Return
  /\ UNCHANGED <<environment, shared, engine, recording>>

\* Read the IMU over the software I2C bus and the two encoders; an opportunity
\* whose event was not Healthy ends here.
Acquire ==
  /\ task.pc = "acquire"
  /\ IF ClosedLoopEligible(task.timing)
     THEN \E ok \in BOOLEAN : task' = [task EXCEPT !.pc = "prepare", !.imu_ok = ok]
     ELSE Return
  /\ UNCHANGED <<environment, shared, engine, recording>>

OuterDue == outer.divider + 1 >= OUTER_DECIMATION

\* ShadowEngine::prepare: scale, estimate, outer loop every OUTER_DECIMATION-th
\* time, control law, actuator model.  Scaling fails on a sample that was not
\* read; the estimator may fail before the outer loop has run, the outer loop,
\* the controller and the actuator model after it has.  completed is the
\* timestamp taken right after a success.
Prepare ==
  /\ task.pc = "prepare"
  /\ \/ /\ task' = [task EXCEPT !.pc = "fail"]
        /\ outer' = outer
     \/ /\ task.imu_ok
        /\ outer' = [outer EXCEPT !.divider = IF OuterDue THEN 0 ELSE @ + 1]
        /\ \/ task' = [task EXCEPT !.pc = "fail"]
           \/ \E step \in ControlSteps :
                task' = [task EXCEPT !.pc = "complete", !.step = step, !.completed = Now]
  /\ UNCHANGED <<environment, shared, frame, recording>>

\* prepare() returned None: latch the fault and leave.
FailControl ==
  /\ task.pc = "fail"
  /\ supervisor' = LatchFaults(supervisor, {"CONTROL_NUMERICAL_FAULT"})
  /\ Return
  /\ UNCHANGED <<environment, monitor, watchdog, engine, recording>>

\* Mutation of CompleteControl: the completion is not reported.
CompleteControlUnreported ==
  /\ task.pc = "complete"
  /\ task' = [task EXCEPT !.pc = "supervise"]
  /\ UNCHANGED <<environment, shared, engine, recording>>

\* control_watchdog.lock(|watchdog| watchdog.observe_control_completion(completed_at_us))
CompleteControl ==
  /\ task.pc = "complete"
  /\ watchdog' = ObserveControlCompletion(watchdog, task.completed)
  /\ task' = [task EXCEPT !.pc = "supervise"]
  /\ UNCHANGED <<environment, monitor, supervisor, engine, recording>>

\* Mutation of Supervise: the capture window is never left.
SuperviseNoCapture ==
  /\ task.pc = "supervise"
  /\ supervisor' = ObserveControlHealth(supervisor, "Valid", task.step.reaction_wheel)
  /\ task' = [task EXCEPT !.pc = "apply", !.operating_state = supervisor'.state]
  /\ UNCHANGED <<environment, monitor, watchdog, engine, recording>>

\* The supervisor's lock section: leave the capture window, observe the control
\* health, and take a copy of the operating state.  LinearObserver::step
\* returns an estimate only with validity Valid, and watchdog is the Healthy
\* that observe_control_completion returned.
Supervise ==
  /\ task.pc = "supervise"
  /\ supervisor' = ObserveControlHealth(CaptureReady(supervisor), "Valid",
                                        task.step.reaction_wheel)
  /\ task' = [task EXCEPT !.pc = "apply", !.operating_state = supervisor'.state]
  /\ UNCHANGED <<environment, monitor, watchdog, engine, recording>>

\* What RuntimeAuthority decides for this opportunity, from the task's copies.
Decision ==
  Evaluate([operating_state |-> task.operating_state, timing |-> task.timing,
            estimate_validity |-> "Valid", reaction_wheel |-> task.step.reaction_wheel],
           task.step)

\* ShadowEngine::apply_shadow_authority
ApplyAuthority ==
  /\ task.pc = "apply"
  /\ outer' = [outer EXCEPT !.hold = Decision.hold_integrator]
  /\ frame' = IF Decision.authorized THEN "authorized" ELSE "neutral"
  /\ task' = [task EXCEPT !.pc = "record", !.authorized = Decision.authorized]
  /\ UNCHANGED <<environment, shared, recording>>

\* Push a record every RECORD_DECIMATION-th time.  Its faults are read under a
\* second lock of the supervisor; the other fields are the task's copies.
Record ==
  /\ task.pc = "record"
  /\ IF record_divider + 1 >= RECORD_DECIMATION
     THEN /\ record_divider' = 0
          /\ record' = [operating_state |-> task.operating_state,
                        faults |-> supervisor.faults, authorized |-> task.authorized]
     ELSE /\ record_divider' = record_divider + 1
          /\ UNCHANGED record
  /\ Return
  /\ UNCHANGED <<environment, shared, engine>>

ImuDataReady ==
  \/ Enter \/ RegisterEvent \/ Acquire \/ Prepare \/ FailControl
  \/ CompleteControl \/ Supervise \/ ApplyAuthority \/ Record

Next == Tick \/ DataReady \/ TimingHealth \/ ImuDataReady

Spec == Init /\ [][Next]_vars

\* An edge of a sensor that keeps its cadence.
CadencedEdge == cadenced /\ DataReady

\* Time passes, the health timer keeps firing, an interrupt task that was entered
\* runs on, and a sensor that keeps its cadence does.  Nothing is assumed of a
\* sensor that may be late or stop.
Fairness ==
  WF_vars(Tick) /\ WF_vars(TimingHealth) /\ WF_vars(ImuDataReady) /\ WF_vars(CadencedEdge)

FairSpec == Spec /\ Fairness

-----------------------------------------------------------------------------
(* Properties                                                               *)

Stamps == -Horizon .. 0

Tasks ==
  [pc : {"idle", "event", "acquire", "prepare", "fail", "complete",
         "supervise", "apply", "record"},
   started : -TaskBudget .. 0, timing : SensorTimingHealth, imu_ok : BOOLEAN,
   completed : Stamps, step : ControlSteps,
   operating_state : OperatingState, authorized : BOOLEAN]

TypeOK ==
  /\ configured \in BOOLEAN
  /\ cadenced \in BOOLEAN
  /\ edge \in Stamps
  /\ pending \in BOOLEAN
  /\ last_poll \in -HEALTH_PERIOD .. 0
  /\ monitor \in Monitors(Stamps)
  /\ watchdog \in Watchdogs(Stamps)
  /\ supervisor \in Supervisors
  /\ task \in Tasks
  /\ outer \in [divider : 0 .. OUTER_DECIMATION - 1, hold : BOOLEAN]
  /\ frame \in {"neutral", "authorized"}
  /\ record_divider \in 0 .. RECORD_DECIMATION - 1
  /\ record \in [operating_state : OperatingState, faults : SUBSET RuntimeFaults,
                 authorized : BOOLEAN]

Supervised == supervisor.state \in {"CaptureWindow", "Balancing", "MomentumLimited"}
ClosedLoop == supervisor.state \in ClosedLoopStates
Faulted    == supervisor.state = "Fault"

\* The operating state is copied under the supervisor's lock and used after it;
\* timing_health may latch a fault in between.  Even so, whenever the task is
\* about to drive the sink with an authorized request, the supervisor itself
\* is in a closed-loop state: no output is driven on a stale authority.
AuthorityIsCurrent == task.pc = "apply" /\ Decision.authorized => ClosedLoop

\* A sensor that falls silent, from the first event on or later, is a fault
\* within its timeout, one health period and the delay of one control run.
SensorLossDetected ==
  Supervised => -edge < TIMEOUT_AFTER + HEALTH_PERIOD + TaskBudget

\* Whatever the sensor does, a controller that stops completing (because it is
\* not reached or every opportunity is refused) is a fault within the watchdog
\* timeout and one health period.
ControlLossDetected ==
  Supervised => -watchdog.reference < CONTROL_WATCHDOG_TIMEOUT + HEALTH_PERIOD

\* The loop is closed only on a proven cadence: at least one whole interval
\* between two sensor events was measured and a control run was completed.
CadenceProven == ClosedLoop => monitor.cadence_verified /\ watchdog.completed

\* The record of an authorized opportunity reports no fault, although its
\* faults are read under a later lock than its operating state.
RecordCoherent ==
  record.authorized => record.faults = {} /\ record.operating_state \in ClosedLoopStates

\* Runtime health never clears a latch: from Fault no step leads anywhere else,
\* and no latched fault is forgotten.
FaultIsFinal ==
  [][Faulted => Faulted' /\ supervisor.faults \subseteq supervisor'.faults]_vars

\* Once an opportunity evaluated after the fault has put the outer integrator
\* on hold, it stays on hold: what was controlled before cannot wind it up.
HoldOutlastsFault == [][Faulted /\ outer.hold => outer'.hold]_vars

\* An interval of TIMEOUT_AFTER or more that only the event path saw (the event
\* came before the next poll) still ends in Fault: the watchdog catches it.
TimeoutEndsInFault ==
  (Supervised /\ task.pc = "acquire" /\ task.timing = "Timeout") ~> Faulted

\* With a sensor that keeps its cadence neither timeout is ever latched, not even
\* while starting up.  A configured sensor's monitor does not so much as report
\* one, to the poll or to the event, in whatever state the supervisor is; nor does
\* the watchdog, while the supervisor listens to it.
NoSpuriousTimeout == cadenced =>
  /\ supervisor.faults \cap {"SENSOR_TIMEOUT", "CONTROL_WATCHDOG_TIMEOUT"} = {}
  /\ configured => monitor.health # "Timeout"
  /\ configured /\ Supervised => watchdog.health # "Timeout"

\* With a sensor that keeps its cadence the capture window is left.
CaptureEnds == (cadenced /\ supervisor.state = "CaptureWindow") ~> (ClosedLoop \/ Faulted)

\* docs/firmware/actuation.md: revocation exists so that a target does not
\* leave stale effort latched when authority is withdrawn or the control
\* opportunity disappears.  After a fault the output becomes neutral.
FaultNeutralizesOutput == Faulted ~> (frame = "neutral")

-----------------------------------------------------------------------------
(* The target implements the promise of ActuationGate.                      *)

GateMode == CASE ClosedLoop -> "live"
              [] Faulted    -> "latched"
              [] OTHER      -> "disarmed"

Gate == INSTANCE ActuationGate WITH mode <- GateMode, effort <- (frame = "authorized")

\* The actuators are only ever driven while the supervisor is in a closed-loop
\* state, and never again after a fault, in every interleaving of the two tasks.
ImplementsGate == Gate!Spec

-----------------------------------------------------------------------------
(* The inductive invariant behind the safety properties.                    *)

\* The sections in which the monitor already holds this run's event, in which
\* the run is known to be Healthy, in which the watchdog holds its completion,
\* and in which the copy of the operating state is in use.
EventRegistered == {"acquire", "prepare", "fail", "complete", "supervise", "apply", "record"}
HealthyRun      == {"prepare", "fail", "complete", "supervise", "apply", "record"}
RunCompleted    == {"supervise", "apply", "record"}
StateCopied     == {"apply", "record"}

\* What the running task has refreshed is as fresh as its own start.
FreshReferences ==
  /\ task.pc \in EventRegistered => monitor.reference = task.started
  /\ task.pc = "complete" => task.completed >= task.started
  /\ task.pc \in RunCompleted => watchdog.reference >= task.started

\* Hence neither timeout can expire while the copy is in use.
CurrentCopy ==
  /\ task.pc \in StateCopied => supervisor.state = task.operating_state
  /\ task.pc = "record" /\ task.authorized => task.operating_state \in ClosedLoopStates

\* The operating state is Fault exactly while a fault is latched.
FaultIffLatched == Faulted <=> supervisor.faults # {}

ProvenRun ==
  /\ task.pc = "acquire" /\ task.timing = "Healthy" => monitor.cadence_verified
  /\ task.pc \in HealthyRun => task.timing = "Healthy" /\ monitor.cadence_verified
  /\ task.pc \in RunCompleted => watchdog.completed

\* Between two polls a reference outlives its timeout by the time since the last.
ReferencesSupervised ==
  Supervised => /\ -monitor.reference < TIMEOUT_AFTER - last_poll
                /\ -watchdog.reference < CONTROL_WATCHDOG_TIMEOUT - last_poll

\* An edge waits at most TaskBudget ticks before the monitor hears of it.
EdgeServed ==
  /\ pending /\ task.pc # "idle" => edge >= task.started
  /\ pending => -edge <= TaskBudget
  /\ task.pc # "idle" => -edge <= TaskBudget - task.started
  /\ -edge <= TaskBudget - monitor.reference

IInv ==
  /\ TypeOK
  /\ FreshReferences
  /\ CurrentCopy
  /\ FaultIffLatched
  /\ ProvenRun
  /\ CadenceProven
  /\ ReferencesSupervised
  /\ EdgeServed
  /\ RecordCoherent

-----------------------------------------------------------------------------
(* The inductive invariant behind NoSpuriousTimeout.                        *)

\* An init without an IMU leaves the EXTI line disabled and the supervisor in
\* its hardware check.
UnconfiguredIdles ==
  ~configured => /\ ~pending /\ task.pc = "idle"
                 /\ supervisor.state = "HardwareCheck" /\ supervisor.faults = {}

\* The monitor's reference follows the edges: an idle task has registered the
\* last edge it was not interrupted for, a running one began after its own, and
\* one run registers its event a cadence after the run before.
CadenceRegistered ==
  /\ -edge <= MaxEdgeGap
  /\ task.pc = "idle" => /\ -monitor.reference <= MaxEdgeGap
                         /\ ~pending => monitor.reference >= edge
  /\ task.pc # "idle" /\ ~pending => edge <= task.started
  /\ task.pc = "event" => task.started - monitor.reference <= MaxEdgeGap

\* Every event but the first is Healthy, so only the first run is refused.
OnlyFirstRefused ==
  /\ ~monitor.seen => /\ task.pc \in {"idle", "event"} /\ ~monitor.cadence_verified
                      /\ monitor.reference <= watchdog.reference
  /\ task.pc = "acquire" => (task.timing = "Healthy" <=> monitor.cadence_verified)

\* How far the completed runs lag behind the registered events: not at all once
\* the cadence is proven, except within a run; by one event before that.
CompletionsFollow ==
  /\ ~monitor.cadence_verified => monitor.reference - watchdog.reference <= MaxEdgeGap
  /\ monitor.cadence_verified => monitor.reference - watchdog.reference <= 2 * MaxEdgeGap
  /\ monitor.cadence_verified /\ task.pc \in {"idle", "event"} \cup RunCompleted
       => watchdog.reference >= monitor.reference

CadenceKept ==
  configured /\ cadenced => /\ CadenceRegistered
                            /\ OnlyFirstRefused
                            /\ Supervised => CompletionsFollow

CInv == IInv /\ UnconfiguredIdles /\ CadenceKept /\ NoSpuriousTimeout
=============================================================================
