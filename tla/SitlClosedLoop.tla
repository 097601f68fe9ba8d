--------------------------- MODULE SitlClosedLoop ---------------------------
(***************************************************************************)
(* A software-in-the-loop run: the runner takes a scenario's events slice  *)
(* by slice, physical time advances before the events of an instant, and   *)
(* the events drive the production path (ClosedLoopSimulation) around the  *)
(* simulated world.  The program is sequential and deterministic; what is  *)
(* chosen here is the scenario, the controller and the numbers.            *)
(*                                                                         *)
(* An event handler that returns an Err ends the run.  Absent samples and  *)
(* efforts are None; an effort is named by the sample it was computed for. *)
(***************************************************************************)
EXTENDS RuntimeSupervisor, ControlRuntime, SitlScenario, VelocityLoop

CONSTANT OUTER_LOOP_DECIMATION   (* runtime steps per outer-loop update      *)

\* ProductionPathConfig::is_valid
ASSUME ProductionPathConfig == OUTER_LOOP_DECIMATION \in Nat \ {0}

VARIABLES
  scenario,           (* the scenario that is run                           *)
  controller,         (* the StateFeedbackController of the runtime         *)
  status,             (* "running", "finished", or the error of the run     *)
  now, queue, slice,  (* DeterministicScheduler; slice: kinds left at now   *)
  world,              (* SimulationWorld: time, next sample, applied input  *)
  sensor_timing,
  supervisor,
  runtime,            (* ControlRuntime                                     *)
  outer,              (* outer_divider; updates of the velocity integral    *)
  pending_raw,        (* the sample waiting for delivery                    *)
  delivered,          (* the newest delivered observation                   *)
  consumed,           (* consumed_sample_index                              *)
  pending_actuation,
  count               (* the evidence counters                              *)

scheduler  == <<now, queue, slice>>
observing  == <<sensor_timing, pending_raw, delivered>>
control    == <<supervisor, runtime, outer, pending_actuation>>
vars == <<scenario, controller, status, scheduler, world, observing, control, consumed, count>>

None == -1

NoSample == [index |-> None, at |-> 0]
NoObservation == [index |-> None, at |-> 0, encoders |-> "Primed"]
NoActuation == [kind |-> "none", effort |-> NoEffort]

EncoderChannelStatus == {"Primed", "Ready", "Rejected"}

Counters == {"slices", "advances", "samples", "delivered", "steps", "skipped",
             "missed", "discarded", "authorized", "revoked"}

Counted(counters) ==
  [name \in Counters |-> IF name \in counters THEN count[name] + 1 ELSE count[name]]

-----------------------------------------------------------------------------
\* ClosedLoopSimulation::new and arm_balance, then the runner's scheduling.
Init ==
  /\ scenario \in Scenarios
  /\ controller \in StateFeedbackController
  /\ status = "running"
  /\ now = 0
  /\ queue = Schedule(scenario)
  /\ slice = {}
  /\ world = [time |-> 0, next_index |-> 0, effort |-> NoEffort]
  /\ sensor_timing = NewMonitor(0)
  /\ supervisor = RequestBalance(HardwareCheckPassed(BootComplete(NewSupervisor)))
  /\ runtime = NewControlRuntime
  /\ outer = NewOuterLoop
  /\ pending_raw = NoSample
  /\ delivered = NoObservation
  /\ consumed = None
  /\ pending_actuation = NoActuation
  /\ count = [name \in Counters |-> 0]

-----------------------------------------------------------------------------
(* The runner                                                               *)

Running == status = "running"

\* SimulationWorld::advance_interval, for a slice later than the last; it fails
\* when the plant's dynamics do.
AdvanceWorld(to) ==
  \/ /\ to = now
     /\ count' = Counted({"slices"})
     /\ UNCHANGED <<world, status>>
  \/ /\ to > now
     /\ world' = [world EXCEPT !.time = to]
     /\ count' = Counted({"slices", "advances"})
     /\ UNCHANGED status
  \/ /\ to > now
     /\ status' = "PhysicalAdvance"
     /\ count' = Counted({"slices"})
     /\ UNCHANGED world

\* DeterministicScheduler::next_slice: the events of the earliest instant.
TakeSlice(at) ==
  /\ now' = at
  /\ slice' = {event.kind : event \in {e \in queue : e.at = at}}
  /\ queue' = {event \in queue : event.at # at}

NextSlice ==
  /\ Running /\ slice = {}
  /\ \E first \in queue :
       /\ \A event \in queue : first.at <= event.at
       /\ TakeSlice(first.at)
       /\ AdvanceWorld(first.at)
  /\ UNCHANGED <<scenario, controller, observing, control, consumed>>

\* The event is the first left in the slice by phase; it is taken out of it.
Dispatch(kind) ==
  /\ Running /\ kind \in slice
  /\ \A other \in slice : Phase(kind) <= Phase(other)
  /\ slice' = slice \ {kind}
  /\ UNCHANGED <<scenario, controller, now, queue>>

Finish ==
  /\ Running /\ slice = {} /\ queue = {}
  /\ status' = "finished"
  /\ UNCHANGED <<scenario, controller, scheduler, world, observing, control, consumed, count>>

-----------------------------------------------------------------------------
(* The handlers of ClosedLoopSimulation::dispatch                           *)

StartScenario ==
  /\ Dispatch("ScenarioStart")
  /\ UNCHANGED <<status, world, observing, control, consumed, count>>

\* SimulationWorld::sample_raw_observation
SampleWorld ==
  /\ pending_raw' = [index |-> world.next_index, at |-> now]
  /\ world' = [world EXCEPT !.next_index = @ + 1]

\* SimulationWorld's ActuationSink
Actuate(effort) == world' = [world EXCEPT !.effort = effort]

\* sample_sensor.  The sample fails when the dynamics it is derived from do.
SampleSensor ==
  /\ Dispatch("SensorSample")
  /\ \/ /\ pending_raw # NoSample
        /\ status' = "SensorSampleAlreadyPending"
        /\ UNCHANGED <<world, observing, count>>
     \/ /\ pending_raw = NoSample
        /\ status' = "World"
        /\ UNCHANGED <<world, observing, count>>
     \/ /\ pending_raw = NoSample
        /\ SampleWorld
        /\ sensor_timing' = OnEvent(sensor_timing, now)
        /\ count' = Counted({"samples"})
        /\ UNCHANGED <<status, delivered>>
  /\ UNCHANGED <<control, consumed>>

\* deliver_observation.  The encoder trackers are primed by the first sample,
\* and may reject any later one; the virtual IMU is always usable.
DeliverObservation ==
  /\ Dispatch("ObservationDelivery")
  /\ \/ /\ pending_raw = NoSample
        /\ status' = "ObservationDeliveryWithoutSample"
        /\ UNCHANGED <<observing, count>>
     \/ /\ pending_raw # NoSample
        /\ \E encoders \in EncoderChannelStatus :
             /\ encoders = "Primed" <=> pending_raw.index = 0
             /\ delivered' = [index |-> pending_raw.index, at |-> pending_raw.at,
                              encoders |-> encoders]
        /\ pending_raw' = NoSample
        /\ count' = Counted({"delivered"})
        /\ UNCHANGED <<status, sensor_timing>>
  /\ UNCHANGED <<world, control, consumed>>

Fresh == delivered.index # None /\ delivered.index # consumed

\* run_production_runtime without an observation it has not seen yet, or with
\* one whose encoders were rejected.
RefuseObservation ==
  /\ Dispatch("ProductionRuntime")
  /\ \/ delivered.index = None /\ status' = "RuntimeWithoutObservation"
     \/ delivered.index # None /\ ~Fresh /\ status' = "RuntimeWithoutFreshObservation"
     \/ Fresh /\ delivered.encoders = "Rejected" /\ status' = "EncoderRejected"
  /\ UNCHANGED <<world, observing, control, consumed, count>>

\* run_production_runtime with encoders that are only primed.
SkipUnready ==
  /\ Fresh /\ delivered.encoders = "Primed"
  /\ Dispatch("ProductionRuntime")
  /\ consumed' = delivered.index
  /\ pending_actuation' = [kind |-> "revoke", effort |-> NoEffort]
  /\ count' = Counted({"skipped"})
  /\ UNCHANGED <<status, world, observing, supervisor, runtime, outer>>

StepInput == [operating_state |-> supervisor.state, timing |-> sensor_timing.health]

\* run_production_runtime, when ControlRuntime::step returns an Err.
FailStep ==
  /\ Fresh /\ delivered.encoders = "Ready"
  /\ Dispatch("ProductionRuntime")
  /\ \E data \in ControlData : StepFails(controller, StepInput, data)
  /\ consumed' = delivered.index
  /\ status' = "ControlRuntime"
  /\ UNCHANGED <<world, observing, control, count>>

\* Mutation of Captured: the sensor's timing is not asked for.
CapturedUntimed(s) == CaptureReady(s)

\* The capture window is left on a healthy sensor.
Captured(s) == IF sensor_timing.health = "Healthy" THEN CaptureReady(s) ELSE s

\* run_production_runtime in full; the velocity loop, when due, may fail.
RunStep ==
  /\ Fresh /\ delivered.encoders = "Ready"
  /\ Dispatch("ProductionRuntime")
  /\ \E data \in ControlData :
       LET decision == StepDecision(controller, StepInput, data)
       IN  /\ ~StepFails(controller, StepInput, data)
           /\ runtime' = ControlStep(runtime, controller, StepInput, data, delivered.index)
           /\ supervisor' = ObserveControlHealth(Captured(supervisor), "Valid",
                                                 data.reaction_wheel)
           /\ \E result \in OuterResults(outer, OUTER_LOOP_DECIMATION,
                                      decision.hold_integrator) :
                /\ outer' = result.outer
                /\ IF result.ok
                   THEN /\ pending_actuation' = IF decision.authorized
                                                THEN [kind |-> "apply", effort |-> delivered.index]
                                                ELSE [kind |-> "revoke", effort |-> NoEffort]
                        /\ UNCHANGED status
                   ELSE status' = "VelocityLoop" /\ UNCHANGED pending_actuation
  /\ consumed' = delivered.index
  /\ count' = Counted({"steps"})
  /\ UNCHANGED <<world, observing>>

\* Mutation of MissRuntimeOpportunity: the observation is kept for the next one.
MissKeepsObservation ==
  /\ Dispatch("RuntimeOpportunityMissed")
  /\ count' = Counted({"missed"})
  /\ UNCHANGED <<status, world, observing, control, consumed>>

\* Mutation of MissRuntimeOpportunity: a consumed observation is discarded again.
MissDiscardsTwice ==
  /\ Dispatch("RuntimeOpportunityMissed")
  /\ IF delivered.index # None
     THEN consumed' = delivered.index /\ count' = Counted({"missed", "discarded"})
     ELSE count' = Counted({"missed"}) /\ UNCHANGED consumed
  /\ UNCHANGED <<status, world, observing, control>>

\* miss_runtime_opportunity: real time that was missed takes its observation along.
MissRuntimeOpportunity ==
  /\ Dispatch("RuntimeOpportunityMissed")
  /\ IF Fresh
     THEN consumed' = delivered.index /\ count' = Counted({"missed", "discarded"})
     ELSE count' = Counted({"missed"}) /\ UNCHANGED consumed
  /\ UNCHANGED <<status, world, observing, control>>

\* Mutation of CommitActuation: a revocation leaves the world as it is.
CommitWithoutRevoking ==
  /\ Dispatch("ActuationCommit")
  /\ pending_actuation' = NoActuation
  /\ IF pending_actuation.kind = "apply"
     THEN /\ Actuate(pending_actuation.effort)
          /\ count' = Counted({"authorized"})
     ELSE count' = Counted({"revoked"}) /\ UNCHANGED world
  /\ UNCHANGED <<status, observing, supervisor, runtime, outer, consumed>>

\* commit_actuation
CommitActuation ==
  /\ Dispatch("ActuationCommit")
  /\ IF pending_actuation.kind = "none"
     THEN status' = "ActuationCommitWithoutRuntime" /\ UNCHANGED <<world, count>>
     ELSE /\ Actuate(pending_actuation.effort)
          /\ count' = Counted({IF pending_actuation.kind = "apply" THEN "authorized"
                               ELSE "revoked"})
          /\ UNCHANGED status
  /\ pending_actuation' = NoActuation
  /\ UNCHANGED <<observing, supervisor, runtime, outer, consumed>>

Step ==
  \/ NextSlice \/ Finish \/ StartScenario \/ SampleSensor \/ DeliverObservation
  \/ RefuseObservation \/ SkipUnready \/ FailStep \/ RunStep
  \/ MissRuntimeOpportunity \/ CommitActuation

\* The run is over.
Over == ~Running /\ UNCHANGED vars

Next == Step \/ Over

Spec == Init /\ [][Next]_vars

-----------------------------------------------------------------------------
(* Properties                                                               *)

ScheduleErrors == {"SensorSampleAlreadyPending", "ObservationDeliveryWithoutSample",
                   "ActuationCommitWithoutRuntime"}
StarvationErrors == {"RuntimeWithoutObservation", "RuntimeWithoutFreshObservation"}
NumericalErrors  == {"PhysicalAdvance", "World", "ControlRuntime", "VelocityLoop"}

Indices == Nat \cup {None}
Instant == 0 .. MaxDuration

TypeOK ==
  /\ scenario \in Scenarios
  /\ controller \in StateFeedbackController
  /\ status \in {"running", "finished", "EncoderRejected"}
               \cup ScheduleErrors \cup StarvationErrors \cup NumericalErrors
  /\ now \in Instant
  /\ queue \in SUBSET [at : Instant, kind : EventKind]
  /\ slice \in SUBSET EventKind
  /\ world \in [time : Instant, next_index : Nat, effort : Indices]
  /\ sensor_timing \in Monitors(Instant)
  /\ supervisor \in Supervisors
  /\ runtime \in [applied : Indices, integral : Nat]
  /\ outer \in [divider : 0 .. OUTER_LOOP_DECIMATION - 1, integral : Nat]
  /\ pending_raw \in [index : Indices, at : Instant]
  /\ delivered \in [index : Indices, at : Instant, encoders : EncoderChannelStatus]
  /\ consumed \in Indices
  /\ pending_actuation \in [kind : {"none", "apply", "revoke"}, effort : Indices]
  /\ count \in [Counters -> Nat]

Faulted    == supervisor.state = "Fault"
ClosedLoop == supervisor.state \in ClosedLoopStates
Settled    == Running /\ slice = {}

\* The estimator predicts with the input it remembers: before every step that
\* input is what the plant has really been given since the last one, through
\* denied, skipped and missed opportunities alike.
RememberedInputApplied ==
  Running /\ pending_actuation = NoActuation => runtime.applied = world.effort

\* Unlike the shadow target, a SITL run commits the step that latched the fault:
\* between two instants a faulted run drives nothing.
FaultNeutralizes == Settled /\ Faulted => world.effort = NoEffort

\* No backlog: an observation about to be used was sampled within the runtime
\* period now ending, however many opportunities were missed before.
NoBacklog ==
  Running /\ "ProductionRuntime" \in slice /\ "ObservationDelivery" \notin slice /\ Fresh =>
    now - delivered.at < scenario.runtime_period

Handled == count["steps"] + count["skipped"] + count["discarded"]
Waiting == IF Fresh THEN 1 ELSE 0

\* Every delivered observation is used, skipped or discarded at most once, and
\* exactly once when observations come no faster than the runtime runs.
ObservedOnce ==
  Settled => /\ Handled + Waiting <= count["delivered"]
             /\ scenario.sensor_period >= scenario.runtime_period =>
                  Handled + Waiting = count["delivered"]

Admitted == count["steps"] + count["skipped"]

\* The summary's verdict.  The runner's own counters are those kept here.
Pass ==
  /\ count["samples"] = SensorSampleCount(scenario)
  /\ count["delivered"] = count["samples"]
  /\ Admitted + count["missed"] = RuntimeOpportunityCount(scenario)
  /\ count["authorized"] + count["revoked"] = Admitted
  /\ count["advances"] = count["slices"] - 1

\* The evidence of a run accounts for every observation and every opportunity
\* exactly once, and a run that is not cut short by an error passes its own
\* summary.
EvidenceSound == ObservedOnce /\ (status = "finished" => Pass)

\* The schedule can never bring the handlers out of order, and a runtime is
\* starved of observations only by a scenario whose sensor is the slower one.
ScheduleSound ==
  /\ status \notin ScheduleErrors
  /\ scenario.sensor_period <= scenario.runtime_period => status \notin StarvationErrors
  /\ Running => world.time = now

\* The loop is closed only in a scenario whose sensor keeps the late limit.
ClosedLoopNeedsSensor ==
  ClosedLoop => scenario.sensor_period < LATE_AFTER /\ sensor_timing.cadence_verified

\* Neither integrator moves on the strength of a step that is denied, saturated
\* or limited: the loop was closed before the step, the wheel is nominal after
\* it, and an advanced request is the one that will be driven.
NoWindup ==
  [][/\ runtime'.integral # runtime.integral =>
          ClosedLoop /\ supervisor'.state = "Balancing" /\ runtime'.applied = consumed'
     /\ outer'.integral # outer.integral =>
          ClosedLoop /\ supervisor'.state = "Balancing" /\ runtime'.applied = consumed']_vars

GateMode == CASE ClosedLoop -> "live"
              [] Faulted    -> "latched"
              [] OTHER      -> "disarmed"

Gate == INSTANCE ActuationGate WITH mode <- GateMode, effort <- (world.effort # NoEffort)

\* The simulated actuators are only driven while the loop is closed, and never
\* again after a fault.
ImplementsGate == Gate!Spec

-----------------------------------------------------------------------------
(* The inductive invariant behind the theorems.                             *)

\* What the runtime decided is committed in the same instant.
CommitFollows ==
  /\ \A event \in queue : event.kind = "ProductionRuntime" =>
       [at |-> event.at, kind |-> "ActuationCommit"] \in queue
  /\ "ProductionRuntime" \in slice => "ActuationCommit" \in slice
  /\ Running /\ pending_actuation.kind # "none" => "ActuationCommit" \in slice

\* Observations are sampled, delivered and consumed in order, and until one is
\* consumed the runtime has not run.
ObservationOrder ==
  /\ delivered.index < world.next_index
  /\ pending_raw # NoSample => /\ pending_raw.index \in Nat
                               /\ delivered.index <= pending_raw.index
                               /\ pending_raw.index < world.next_index
  /\ consumed <= delivered.index
  /\ delivered.encoders = "Primed" => delivered.index \in {None, 0}
  /\ consumed = None => runtime.applied = NoEffort

\* The effort the world has been given, or is about to be given.
Commanded ==
  IF pending_actuation.kind = "none" THEN world.effort ELSE pending_actuation.effort

\* That is what the runtime remembers, and it is not neutral only while the loop
\* is closed.
CommandRemembered ==
  Running => /\ runtime.applied = Commanded
             /\ pending_actuation.kind = "apply" => ClosedLoop /\ Commanded # NoEffort
             /\ pending_actuation.kind = "revoke" => Commanded = NoEffort
             /\ Faulted => Commanded = NoEffort

IInv == TypeOK /\ CommitFollows /\ ObservationOrder /\ CommandRemembered
=============================================================================
