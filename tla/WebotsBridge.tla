---------------------------- MODULE WebotsBridge -----------------------------
(***************************************************************************)
(* The Webots closed loop: two processes joined by pipes.  The controller  *)
(* (swp_trace.py) steps the simulation, writes one raw sample per 2 ms     *)
(* control period, waits for the answer and holds the motors' torque until *)
(* the next one.  The production bridge (webots_production_bridge) reads   *)
(* lines and runs the production path on each; any error ends it.          *)
(*                                                                         *)
(* The controller is the bridge's only client.  As in SitlClosedLoop, an   *)
(* effort is named by the sample it was computed for.                      *)
(***************************************************************************)
EXTENDS RuntimeSupervisor, ControlRuntime, VelocityLoop

CONSTANTS
  OUTER_LOOP_DECIMATION,   (* runtime steps per outer-loop update           *)
  CONTROL_PERIOD,          (* simulated time between two samples            *)
  MaxSamples               (* bound: the control periods of the experiment  *)

ASSUME WebotsBridgeConstants ==
  /\ OUTER_LOOP_DECIMATION \in Nat \ {0}
  /\ CONTROL_PERIOD \in Nat \ {0}
  /\ MaxSamples \in Nat

VARIABLES
  mapping_ok,     (* schema and mapping_id are those the bridge was built for *)
  controller,     (* swp_trace.py: where it is                              *)
  sample_index,   (* its counter                                            *)
  motors,         (* the torque the Webots motors hold                      *)
  to_bridge,      (* the line in the bridge's stdin                         *)
  to_controller,  (* the line in its stdout                                 *)
  bridge,         (* the process: "running", or its exit code               *)
  supervisor, sensor_timing, runtime,
  outer,          (* outer_divider; updates of the velocity integral        *)
  consumed,       (* consumed_sample_index                                  *)
  runtime_steps, skipped

client == <<controller, sample_index, motors>>
production == <<supervisor, sensor_timing, runtime, outer, consumed, runtime_steps, skipped>>
vars == <<mapping_ok, client, to_bridge, to_controller, bridge, production>>

Nothing == -1
NoLine == [sample_index |-> Nothing]

\* start_production_bridge and synthetic_bridge: new, arm_balance.
Init ==
  /\ mapping_ok \in BOOLEAN
  /\ controller = "stepping" /\ sample_index = 0 /\ motors = NoEffort
  /\ to_bridge = NoLine /\ to_controller = NoLine
  /\ bridge = "running"
  /\ supervisor = RequestBalance(HardwareCheckPassed(BootComplete(NewSupervisor)))
  /\ sensor_timing = NewMonitor(0)
  /\ runtime = NewControlRuntime
  /\ outer = NewOuterLoop
  /\ consumed = Nothing
  /\ runtime_steps = 0 /\ skipped = 0

-----------------------------------------------------------------------------
(* The controller.                                                          *)

\* The sample of the next control period, written to the bridge.
SendSample ==
  /\ controller = "stepping" /\ sample_index < MaxSamples
  /\ bridge = "running"
  /\ to_bridge' = [sample_index |-> sample_index,
                   timestamp |-> (sample_index + 1) * CONTROL_PERIOD]
  /\ controller' = "waiting"
  /\ UNCHANGED <<mapping_ok, sample_index, motors, to_controller, bridge, production>>

TakeResponse ==
  /\ controller = "waiting" /\ to_controller # NoLine
  /\ to_controller.sample_index = sample_index
  /\ motors' = IF to_controller.actuation = "apply" THEN to_controller.effort ELSE NoEffort
  /\ sample_index' = sample_index + 1
  /\ controller' = "stepping"
  /\ to_controller' = NoLine
  /\ UNCHANGED <<mapping_ok, to_bridge, bridge, production>>

\* What makes run_closed_loop end: the experiment or the simulation is over, the
\* bridge has exited, or what it answered is not for this sample.
LoopEnds ==
  \/ controller = "stepping"
  \/ /\ controller = "waiting" /\ to_controller = NoLine
     /\ bridge # "running" /\ to_bridge = NoLine
  \/ /\ controller = "waiting" /\ to_controller # NoLine
     /\ to_controller.sample_index # sample_index

\* Mutation of CleanUp: the motors are left to the simulator's quitting.
CleanUpLeavingMotors ==
  /\ LoopEnds
  /\ controller' = "closing"
  /\ UNCHANGED <<mapping_ok, sample_index, motors, to_bridge, to_controller, bridge, production>>

\* The finally block of main, up to its wait for the bridge.
CleanUp ==
  /\ LoopEnds
  /\ controller' = "closing"
  /\ motors' = NoEffort
  /\ UNCHANGED <<mapping_ok, sample_index, to_bridge, to_controller, bridge, production>>

\* A bridge that has not exited in time is terminated.
Terminate ==
  /\ controller = "closing" /\ bridge = "running"
  /\ bridge' = "terminated"
  /\ UNCHANGED <<mapping_ok, client, to_bridge, to_controller, production>>

\* A bridge that failed makes main raise; else it quits the simulation.
LeaveMain ==
  /\ controller = "closing" /\ bridge # "running"
  /\ controller' = IF bridge = "0" THEN "quit" ELSE "raised"
  /\ UNCHANGED <<mapping_ok, sample_index, motors, to_bridge, to_controller, bridge, production>>

-----------------------------------------------------------------------------
(* The production bridge.                                                    *)

\* The bridge's controller.
StateFeedback == "Lqr"

Reading == bridge = "running" /\ to_bridge # NoLine

\* run's loop ends with its input.
EndOfInput ==
  /\ bridge = "running" /\ to_bridge = NoLine /\ controller = "closing"
  /\ bridge' = "0"
  /\ UNCHANGED <<mapping_ok, client, to_bridge, to_controller, production>>

\* main, on an Err: exit code 1.
Fail == bridge' = "1" /\ to_bridge' = NoLine /\ UNCHANGED <<mapping_ok, client, to_controller>>

\* into_raw refuses a sample of another schema or mapping.
RefuseWire ==
  /\ Reading /\ ~mapping_ok
  /\ Fail
  /\ UNCHANGED production

Replayed == consumed = to_bridge.sample_index
Registered == OnEvent(sensor_timing, to_bridge.timestamp)

Consume ==
  /\ Reading /\ mapping_ok /\ ~Replayed
  /\ sensor_timing' = Registered
  /\ consumed' = to_bridge.sample_index

\* step_raw up to the encoders: a replay fails before anything else, scaling
\* and frame transform after the timing event, and rejected encoders after the
\* sample counts as consumed.  The first sample's are only primed.
FailObservation ==
  /\ Reading /\ mapping_ok
  /\ \/ Replayed /\ UNCHANGED <<sensor_timing, consumed>>
     \/ ~Replayed /\ sensor_timing' = Registered /\ UNCHANGED consumed
     \/ consumed # Nothing /\ Consume
  /\ Fail
  /\ UNCHANGED <<supervisor, runtime, outer, runtime_steps, skipped>>

\* snapshot and its BridgeOutput.
Answer(state, effort) ==
  [sample_index |-> to_bridge.sample_index, operating_state |-> state,
   sensor_timing |-> Registered.health,
   actuation |-> IF effort = NoEffort THEN "revoke" ELSE "apply", effort |-> effort]

Respond(state, effort) ==
  /\ to_controller' = Answer(state, effort)
  /\ to_bridge' = NoLine
  /\ UNCHANGED <<mapping_ok, client, bridge>>

\* The encoders' first sample only primes them.
SkipUnready ==
  /\ consumed = Nothing
  /\ Consume
  /\ skipped' = skipped + 1
  /\ Respond(supervisor.state, NoEffort)
  /\ UNCHANGED <<supervisor, runtime, outer, runtime_steps>>

StepInput == [operating_state |-> supervisor.state, timing |-> Registered.health]

\* ControlRuntime::step returns an Err.
FailStep ==
  /\ consumed # Nothing
  /\ Consume
  /\ \E data \in ControlData : StepFails(StateFeedback, StepInput, data)
  /\ Fail
  /\ UNCHANGED <<supervisor, runtime, outer, runtime_steps, skipped>>

CapturedBy(timing) == IF timing = "Healthy" THEN CaptureReady(supervisor) ELSE supervisor

\* step_raw to its end.  The authority decided on the state before this step's
\* estimate was reported to the supervisor; the answer shows the state after.
\* The velocity loop may fail with the runtime's step already taken.
StepRaw ==
  /\ consumed # Nothing
  /\ Consume
  /\ \E data \in ControlData :
       LET decision == StepDecision(StateFeedback, StepInput, data)
       IN  /\ ~StepFails(StateFeedback, StepInput, data)
           /\ runtime' = ControlStep(runtime, StateFeedback, StepInput, data,
                                    to_bridge.sample_index)
           /\ supervisor' = ObserveControlHealth(CapturedBy(Registered.health), "Valid",
                                                 data.reaction_wheel)
           /\ \E result \in OuterResults(outer, OUTER_LOOP_DECIMATION,
                                      decision.hold_integrator) :
                /\ outer' = result.outer
                /\ IF result.ok THEN Respond(supervisor'.state, runtime'.applied) ELSE Fail
  /\ runtime_steps' = runtime_steps + 1
  /\ UNCHANGED skipped

Controller == SendSample \/ TakeResponse \/ CleanUp \/ Terminate \/ LeaveMain

Bridge == EndOfInput \/ RefuseWire \/ FailObservation \/ SkipUnready \/ FailStep \/ StepRaw

Over == controller \in {"quit", "raised"} /\ UNCHANGED vars

Next == Controller \/ Bridge \/ Over

Spec == Init /\ [][Next]_vars

\* Either process runs unless it waits for the other.
FairSpec == Spec /\ WF_vars(Controller) /\ WF_vars(Bridge)

-----------------------------------------------------------------------------
(* Properties                                                               *)

Efforts == Nat \cup {NoEffort}

TypeOK ==
  /\ mapping_ok \in BOOLEAN
  /\ controller \in {"stepping", "waiting", "closing", "quit", "raised"}
  /\ sample_index \in 0 .. MaxSamples /\ motors \in Efforts
  /\ to_bridge # NoLine =>
       to_bridge \in [sample_index : Nat, timestamp : Nat]
  /\ to_controller # NoLine =>
       to_controller \in [sample_index : Nat, operating_state : OperatingState,
                          sensor_timing : SensorTimingHealth,
                          actuation : {"apply", "revoke"}, effort : Efforts]
  /\ bridge \in {"running", "0", "1", "terminated"}
  /\ supervisor \in Supervisors /\ sensor_timing \in Monitors(Nat)
  /\ runtime \in [applied : Efforts, integral : Nat]
  /\ outer \in [divider : 0 .. OUTER_LOOP_DECIMATION - 1, integral : Nat]
  /\ consumed \in Nat \cup {Nothing}
  /\ runtime_steps \in Nat /\ skipped \in Nat

\* Whenever the loop is about to step the simulation, the torque it steps with
\* is the input the bridge's observer will assume, and every sample so far was
\* taken exactly once.
PlantAsRemembered ==
  controller = "stepping" =>
    /\ motors = runtime.applied
    /\ consumed = sample_index - 1
    /\ runtime_steps + skipped = sample_index

\* An answer that applies an effort shows a closed-loop state and healthy timing,
\* although the authority decided before the state was updated, and it is never
\* one of the first two (test startup_requires_fresh_encoder_and_timing_evidence_
\* before_authority).
AppliedInClosedLoop ==
  to_controller # NoLine /\ to_controller.actuation = "apply" =>
    /\ to_controller.operating_state \in ClosedLoopStates
    /\ to_controller.sensor_timing = "Healthy"
    /\ to_controller.sample_index >= 2

\* The two processes never disagree about the plant.
InLoop == TypeOK /\ PlantAsRemembered /\ AppliedInClosedLoop

\* However the run ends, and wherever the bridge fails, the motors are left at
\* rest and the bridge has exited.
EndsAtRest ==
  <>[](controller \in {"quit", "raised"} /\ motors = NoEffort /\ bridge # "running")
=============================================================================
