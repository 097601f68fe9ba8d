------------------------- MODULE WebotsBridge_proofs -------------------------
(***************************************************************************)
(* Theorems about WebotsBridge, for every timing policy, control period,   *)
(* decimation and length of the experiment: the two processes agree about  *)
(* the plant, and the motors are at rest once the loop is left.            *)
(***************************************************************************)
EXTENDS WebotsBridge, TLAPS

-----------------------------------------------------------------------------
(* The calls of the monitor, the supervisor and the authority.             *)

\* A classification is one of the health values.
LEMMA ClassifyElapsedType ==
  ASSUME NEW elapsed \in Int
  PROVE  ClassifyElapsed(elapsed) \in SensorTimingHealth
BY DEF ClassifyElapsed, SensorTimingHealth

\* The calls of the monitor return a monitor, whatever the stamps are.
LEMMA MonitorCalls ==
  ASSUME NEW Stamp \in SUBSET Int, NEW m \in Monitors(Stamp), NEW at \in Stamp
  PROVE  /\ OnEvent(m, at) \in Monitors(Stamp)
         /\ PollMonitor(m, at) \in Monitors(Stamp)
<1>1. SaturatingSub(at, m.reference) \in Int
  <2>1. m.reference \in Stamp
    BY DEF Monitors
  <2>2. at \in Int /\ m.reference \in Int
    BY <2>1
  <2> QED BY <2>2 DEF SaturatingSub
<1>2. ClassifyElapsed(SaturatingSub(at, m.reference)) \in SensorTimingHealth
  BY <1>1, ClassifyElapsedType
<1>3. "Startup" \in SensorTimingHealth
  BY DEF SensorTimingHealth
<1>4. OnEvent(m, at) \in Monitors(Stamp)
  BY <1>2, <1>3 DEF OnEvent, Monitors
<1>5. PollMonitor(m, at) \in Monitors(Stamp)
  BY <1>2, <1>3 DEF PollMonitor, Monitors
<1> QED BY <1>4, <1>5

\* Latching known faults returns a supervisor, and it is in Fault.
LEMMA LatchFaultsType ==
  ASSUME NEW s \in Supervisors, NEW faults \in SUBSET RuntimeFaults
  PROVE  LatchFaults(s, faults) \in Supervisors
BY DEF LatchFaults, Supervisors, OperatingState

\* The calls of the supervisor return a supervisor.
LEMMA SupervisorCallsType ==
  ASSUME NEW s \in Supervisors, NEW timing, NEW health, NEW wheel \in ReactionWheelAuthority
  PROVE  /\ BootComplete(s) \in Supervisors
         /\ HardwareCheckPassed(s) \in Supervisors
         /\ RequestBalance(s) \in Supervisors
         /\ CaptureReady(s) \in Supervisors
         /\ ObserveIndependentHealth(s, timing, health) \in Supervisors
         /\ ObserveControlHealth(s, "Valid", wheel) \in Supervisors
<1>1. /\ BootComplete(s) \in Supervisors
      /\ HardwareCheckPassed(s) \in Supervisors
      /\ RequestBalance(s) \in Supervisors
      /\ CaptureReady(s) \in Supervisors
  BY DEF BootComplete, HardwareCheckPassed, RequestBalance, CaptureReady, Supervisors, OperatingState
<1>2. Timeouts(timing, health) \in SUBSET RuntimeFaults
  BY DEF Timeouts, RuntimeFaults
<1>3. ObserveIndependentHealth(s, timing, health) \in Supervisors
  BY <1>2, LatchFaultsType DEF ObserveIndependentHealth
<1>4. LatchFaults(s, {"REACTION_WHEEL_EXHAUSTED"}) \in Supervisors
  BY LatchFaultsType DEF RuntimeFaults
<1>5. /\ [s EXCEPT !.state = "Balancing"] \in Supervisors
      /\ [s EXCEPT !.state = "MomentumLimited"] \in Supervisors
  BY DEF Supervisors, OperatingState
<1>6. ObserveControlHealth(s, "Valid", wheel) \in Supervisors
  BY <1>4, <1>5 DEF ObserveControlHealth, ReactionWheelAuthority
<1> QED BY <1>1, <1>3, <1>6

-----------------------------------------------------------------------------
(* The invariant.                                                           *)

Quiet == to_bridge = NoLine /\ to_controller = NoLine

\* Both sides know of the same samples, and of the same torque.
InStep ==
  /\ motors = runtime.applied
  /\ consumed = sample_index - 1
  /\ runtime_steps + skipped = sample_index

\* The bridge has run the path on the sample the controller waits for, and its
\* answer carries what the runtime remembers.
Answered ==
  /\ to_controller.sample_index = sample_index
  /\ to_controller.effort = runtime.applied
  /\ to_controller.actuation = "apply" <=> runtime.applied # NoEffort
  /\ consumed = sample_index
  /\ runtime_steps + skipped = sample_index + 1

\* Where the line is: a sample is on its way or its answer is, or neither,
\* because the loop is stepping, the bridge has failed or the loop is left.
Exchange ==
  /\ controller = "stepping" => bridge = "running" /\ Quiet /\ InStep
  /\ controller = "waiting" => sample_index < MaxSamples
  /\ controller = "waiting" =>
       \/ /\ bridge = "running" /\ to_controller = NoLine /\ InStep
          /\ to_bridge = [sample_index |-> sample_index,
                          timestamp |-> (sample_index + 1) * CONTROL_PERIOD]
       \/ bridge = "running" /\ to_bridge = NoLine /\ to_controller # NoLine /\ Answered
       \/ bridge # "running" /\ Quiet
  /\ controller \in {"closing", "quit", "raised"} => Quiet /\ motors = NoEffort
  /\ controller \in {"quit", "raised"} => bridge # "running"

\* No authority before the third sample: the first primes the encoders, the
\* second finds the supervisor in its capture window.
Unarmed == consumed < 1 => supervisor.state = "CaptureWindow" /\ supervisor.faults = {}
NoEarlyEffort == consumed < 2 => runtime.applied = NoEffort

IInv == TypeOK /\ Exchange /\ Unarmed /\ NoEarlyEffort /\ AppliedInClosedLoop

-----------------------------------------------------------------------------
(* The operators the path is made of.                                       *)

\* What the authority takes for an effort.
LEMMA AuthorizedFacts ==
  ASSUME NEW input, NEW data, StepDecision(StateFeedback, input, data).authorized
  PROVE  /\ input.operating_state \in ClosedLoopStates
         /\ input.timing = "Healthy"
         /\ data.reaction_wheel # "Exhausted"
BY DEF StepDecision, EvaluateDemand, Evaluate, Denied, Reported, DenyingReasons

\* The divider stays in its range.
LEMMA OuterLoopType ==
  ASSUME NEW before \in [divider : 0 .. OUTER_LOOP_DECIMATION - 1, integral : Nat], NEW hold,
         NEW result \in OuterResults(before, OUTER_LOOP_DECIMATION, hold)
  PROVE  result.outer \in [divider : 0 .. OUTER_LOOP_DECIMATION - 1, integral : Nat]
<1>1. OUTER_LOOP_DECIMATION \in Nat \ {0}
  BY WebotsBridgeConstants
<1>2. CASE OuterDue(before, OUTER_LOOP_DECIMATION)
  <2>1. PICK update \in VelocityUpdates(before.integral, hold) :
          result = [ok |-> update.ok, outer |-> [divider |-> 0, integral |-> update.integral]]
    BY <1>2 DEF OuterResults
  <2>2. update.integral \in Nat
    BY DEF VelocityUpdates
  <2> QED BY <1>1, <2>1, <2>2
<1>3. CASE ~OuterDue(before, OUTER_LOOP_DECIMATION)
  <2>1. result.outer = [before EXCEPT !.divider = @ + 1]
    BY <1>3 DEF OuterResults
  <2> QED BY <1>1, <1>3, <2>1 DEF OuterDue
<1> QED BY <1>2, <1>3

\* What a step does to the supervisor: a wheel that is not exhausted leaves it in
\* the closed loop.
LEMMA StepSupervisor ==
  ASSUME NEW s \in Supervisors, NEW timing, NEW wheel \in ReactionWheelAuthority
  PROVE  LET t == ObserveControlHealth(IF timing = "Healthy" THEN CaptureReady(s) ELSE s,
                                       "Valid", wheel)
         IN  /\ t \in Supervisors
             /\ s.state \in ClosedLoopStates /\ wheel # "Exhausted" =>
                  t.state \in ClosedLoopStates
<1> DEFINE c == IF timing = "Healthy" THEN CaptureReady(s) ELSE s
<1>1. c \in Supervisors
  BY SupervisorCallsType
<1>2. s.state \in ClosedLoopStates => c = s
  BY DEF CaptureReady, ClosedLoopStates
<1>3. ObserveControlHealth(c, "Valid", wheel) \in Supervisors
  BY <1>1, SupervisorCallsType
<1>4. ASSUME s.state \in ClosedLoopStates, wheel # "Exhausted"
      PROVE  ObserveControlHealth(s, "Valid", wheel).state \in ClosedLoopStates
  <2>1. ObserveControlHealth(s, "Valid", wheel) \in
          {[s EXCEPT !.state = "Balancing"], [s EXCEPT !.state = "MomentumLimited"]}
    BY <1>4 DEF ObserveControlHealth, ReactionWheelAuthority
  <2> QED BY <2>1 DEF Supervisors, ClosedLoopStates
<1> QED BY <1>2, <1>3, <1>4

\* A line on its way is a sample.
LEMMA LineFacts ==
  ASSUME TypeOK, Reading
  PROVE  /\ to_bridge.sample_index \in Nat /\ to_bridge.timestamp \in Nat
         /\ Registered \in Monitors(Nat)
<1>1. to_bridge.sample_index \in Nat /\ to_bridge.timestamp \in Nat
  BY DEF TypeOK, Reading
<1>2. sensor_timing \in Monitors(Nat) /\ Nat \in SUBSET Int
  BY DEF TypeOK
<1>3. OnEvent(sensor_timing, to_bridge.timestamp) \in Monitors(Nat)
  BY <1>1, <1>2, MonitorCalls
<1> QED BY <1>1, <1>3 DEF Registered

\* An answer is well typed, and it is not the empty line.
LEMMA AnswerType ==
  ASSUME TypeOK, Reading, NEW state \in OperatingState, NEW effort \in Efforts
  PROVE  /\ Answer(state, effort) \in
              [sample_index : Nat, operating_state : OperatingState,
               sensor_timing : SensorTimingHealth,
               actuation : {"apply", "revoke"}, effort : Efforts]
         /\ Answer(state, effort) # NoLine
<1>1. to_bridge.sample_index \in Nat /\ Registered.health \in SensorTimingHealth
  BY LineFacts DEF Monitors
<1>2. to_bridge.sample_index # Nothing
  BY <1>1 DEF Nothing
<1> QED BY <1>1, <1>2 DEF Answer, NoLine

-----------------------------------------------------------------------------
(* The invariant holds.                                                     *)

LEMMA InitIInv == Init => IInv
<1> SUFFICES ASSUME Init PROVE IInv
  OBVIOUS
<1>1. NewMonitor(0) \in Monitors(Nat)
  BY DEF NewMonitor, Monitors, SensorTimingHealth
<1>2. supervisor = [state |-> "CaptureWindow", faults |-> {}]
  BY DEF Init, NewSupervisor, BootComplete, HardwareCheckPassed, RequestBalance
<1>3. supervisor \in Supervisors
  BY <1>2 DEF Supervisors, OperatingState
<1>4. runtime = [applied |-> NoEffort, integral |-> 0] /\ NoEffort \in Efforts
  BY DEF Init, NewControlRuntime, Efforts
<1>5. outer = [divider |-> 0, integral |-> 0]
  BY DEF Init, NewOuterLoop
<1>6. TypeOK
  BY <1>1, <1>3, <1>4, <1>5, WebotsBridgeConstants DEF Init, TypeOK, Nothing
<1>7. Exchange
  BY <1>4 DEF Init, Exchange, Quiet, InStep, Nothing
<1> QED BY <1>2, <1>4, <1>6, <1>7 DEF Init, IInv, Unarmed, NoEarlyEffort, AppliedInClosedLoop

\* What the controller does leaves the path alone.
LEMMA ControllerIInv ==
  ASSUME IInv, Controller
  PROVE  IInv'
<1>1. production' = production /\ mapping_ok' = mapping_ok
  BY DEF Controller, SendSample, TakeResponse, CleanUp, Terminate, LeaveMain
<1>2. Unarmed' /\ NoEarlyEffort'
  BY <1>1 DEF IInv, Unarmed, NoEarlyEffort, production
<1>3. CASE SendSample
  <2> DEFINE line == [sample_index |-> sample_index,
                      timestamp |-> (sample_index + 1) * CONTROL_PERIOD]
  <2>1. /\ to_bridge' = line /\ to_controller = NoLine /\ to_controller' = NoLine
        /\ InStep /\ controller' = "waiting" /\ bridge = "running"
        /\ sample_index < MaxSamples
        /\ UNCHANGED <<sample_index, motors, bridge>>
    BY <1>3 DEF SendSample, IInv, Exchange, Quiet
  <2>2. sample_index \in Nat /\ line.timestamp \in Nat
    BY WebotsBridgeConstants DEF IInv, TypeOK
  <2>3. TypeOK'
    BY <1>1, <2>1, <2>2 DEF IInv, TypeOK, production
  <2>4. Exchange'
    BY <1>1, <2>1 DEF Exchange, InStep, production
  <2> QED BY <1>2, <2>1, <2>3, <2>4 DEF IInv, AppliedInClosedLoop
<1>4. CASE TakeResponse
  <2>1. /\ Answered /\ to_bridge = NoLine /\ bridge = "running" /\ to_controller # NoLine
        /\ motors' = IF to_controller.actuation = "apply"
                     THEN to_controller.effort ELSE NoEffort
        /\ sample_index' = sample_index + 1 /\ controller' = "stepping"
        /\ to_controller' = NoLine /\ UNCHANGED <<to_bridge, bridge>>
    BY <1>4 DEF TakeResponse, IInv, Exchange, Quiet
  <2>2. motors' = runtime.applied /\ runtime.applied \in Efforts
    BY <2>1 DEF Answered, IInv, TypeOK
  <2>3. sample_index \in Nat /\ sample_index < MaxSamples /\ MaxSamples \in Nat
    BY <1>4, WebotsBridgeConstants DEF TakeResponse, IInv, Exchange, TypeOK
  <2>4. TypeOK'
    BY <1>1, <2>1, <2>2, <2>3 DEF IInv, TypeOK, production
  <2>5. Exchange'
    BY <1>1, <2>1, <2>2, <2>3 DEF Exchange, Quiet, InStep, Answered, production
  <2> QED BY <1>2, <2>1, <2>4, <2>5 DEF IInv, AppliedInClosedLoop
<1>5. CASE CleanUp
  <2>1. Quiet /\ controller' = "closing" /\ motors' = NoEffort
        /\ UNCHANGED <<sample_index, to_bridge, to_controller, bridge>>
    BY <1>5 DEF CleanUp, LoopEnds, IInv, Exchange, Quiet, Answered
  <2>2. TypeOK'
    BY <1>1, <2>1 DEF IInv, TypeOK, production, Efforts
  <2>3. Exchange'
    BY <2>1 DEF Exchange, Quiet
  <2> QED BY <1>2, <2>1, <2>2, <2>3 DEF IInv, AppliedInClosedLoop, Quiet
<1>6. CASE Terminate
  <2>1. /\ Quiet /\ controller = "closing" /\ motors = NoEffort /\ bridge' = "terminated"
        /\ UNCHANGED <<controller, sample_index, motors, to_bridge, to_controller>>
    BY <1>6 DEF Terminate, client, IInv, Exchange
  <2>2. TypeOK'
    BY <1>1, <2>1 DEF IInv, TypeOK, production
  <2>3. Exchange'
    BY <2>1 DEF Exchange, Quiet
  <2> QED BY <1>2, <2>1, <2>2, <2>3 DEF IInv, AppliedInClosedLoop, Quiet
<1>7. CASE LeaveMain
  <2>1. /\ Quiet /\ controller' \in {"quit", "raised"} /\ motors = NoEffort
        /\ bridge # "running" /\ UNCHANGED <<sample_index, motors, to_bridge, to_controller, bridge>>
    BY <1>7 DEF LeaveMain, IInv, Exchange
  <2>2. TypeOK'
    BY <1>1, <2>1 DEF IInv, TypeOK, production
  <2>3. Exchange'
    BY <2>1 DEF Exchange, Quiet
  <2> QED BY <1>2, <2>1, <2>2, <2>3 DEF IInv, AppliedInClosedLoop, Quiet
<1> QED BY <1>3, <1>4, <1>5, <1>6, <1>7 DEF Controller

\* What holds where the bridge has a line to read.
LEMMA ReadingFacts ==
  ASSUME IInv, Reading
  PROVE  /\ controller = "waiting" /\ bridge = "running" /\ to_controller = NoLine /\ InStep
         /\ to_bridge.sample_index = sample_index /\ sample_index \in Nat
         /\ consumed = sample_index - 1
  BY DEF IInv, Exchange, Reading, Quiet, InStep, TypeOK

\* A failing bridge leaves nothing on its way.
LEMMA FailExchange ==
  ASSUME IInv, Reading, Fail
  PROVE  Exchange'
<1>1. controller = "waiting" /\ to_controller = NoLine
  BY ReadingFacts
<1>2. /\ controller' = "waiting" /\ sample_index' = sample_index /\ to_controller' = NoLine
      /\ to_bridge' = NoLine /\ bridge' = "1"
  BY <1>1 DEF Fail, client
<1>3. sample_index < MaxSamples
  BY <1>1 DEF IInv, Exchange
<1> QED BY <1>2, <1>3 DEF Exchange, Quiet

\* Neither the lines nor the controller are touched in a failing step, and none
\* of the path's facts is at stake while nothing is computed.
LEMMA FailIInv ==
  ASSUME IInv, Reading, Fail, UNCHANGED <<supervisor, runtime, outer, runtime_steps, skipped>>,
         consumed' \in {consumed, to_bridge.sample_index},
         sensor_timing' \in {sensor_timing, Registered},
         consumed' = consumed \/ consumed # Nothing
  PROVE  IInv'
<1>1. to_bridge.sample_index \in Nat /\ Registered \in Monitors(Nat)
  BY LineFacts DEF IInv
<1>2. to_controller' = NoLine /\ to_bridge' = NoLine
  BY ReadingFacts DEF Fail
<1>3. TypeOK'
  BY <1>1, <1>2 DEF Fail, client, IInv, TypeOK
<1>4. Unarmed'
  BY ReadingFacts DEF Unarmed, IInv, TypeOK, Nothing
<1>5. NoEarlyEffort'
  BY ReadingFacts DEF NoEarlyEffort, IInv, TypeOK, Nothing
<1> QED BY <1>2, <1>3, <1>4, <1>5, FailExchange DEF IInv, AppliedInClosedLoop

\* What one step of the path leaves: its state is typed, the sample is consumed,
\* and an effort is remembered only for it, from a closed loop that stays closed,
\* on healthy timing, from the third sample on.
LEMMA StepRawFacts ==
  ASSUME IInv, StepRaw
  PROVE  /\ Reading /\ consumed' = sample_index /\ sample_index >= 1
         /\ sensor_timing' = Registered
         /\ supervisor' \in Supervisors
         /\ runtime' \in [applied : Efforts, integral : Nat]
         /\ outer' \in [divider : 0 .. OUTER_LOOP_DECIMATION - 1, integral : Nat]
         /\ runtime'.applied # NoEffort =>
              /\ sample_index >= 2 /\ supervisor'.state \in ClosedLoopStates
              /\ Registered.health = "Healthy"
         /\ (Respond(supervisor'.state, runtime'.applied) \/ Fail)
         /\ runtime_steps' = runtime_steps + 1 /\ skipped' = skipped
<1>1. /\ Reading /\ consumed' = to_bridge.sample_index /\ sensor_timing' = Registered
      /\ consumed # Nothing
  BY DEF StepRaw, Consume
<1>2. /\ to_bridge.sample_index = sample_index /\ sample_index \in Nat
      /\ consumed = sample_index - 1 /\ sample_index >= 1
  BY <1>1, ReadingFacts DEF Nothing
<1>3. PICK data \in ControlData :
        /\ runtime' = ControlStep(runtime, StateFeedback, StepInput, data,
                                  to_bridge.sample_index)
        /\ supervisor' = ObserveControlHealth(CapturedBy(Registered.health), "Valid",
                                              data.reaction_wheel)
        /\ \E hold : \E result \in OuterResults(outer, OUTER_LOOP_DECIMATION, hold) :
             /\ outer' = result.outer
             /\ IF result.ok THEN Respond(supervisor'.state, runtime'.applied) ELSE Fail
  BY Zenon DEF StepRaw
<1>4. /\ runtime \in [applied : Efforts, integral : Nat] /\ supervisor \in Supervisors
      /\ outer \in [divider : 0 .. OUTER_LOOP_DECIMATION - 1, integral : Nat]
      /\ data.reaction_wheel \in ReactionWheelAuthority
  BY DEF IInv, TypeOK, ControlData
<1>5. /\ runtime' \in [applied : Efforts, integral : Nat]
      /\ \/ runtime'.applied = NoEffort
         \/ /\ supervisor.state \in ClosedLoopStates /\ Registered.health = "Healthy"
            /\ data.reaction_wheel # "Exhausted"
  <2> DEFINE decision == StepDecision(StateFeedback, StepInput, data)
  <2>1. /\ runtime'.applied = IF decision.authorized THEN to_bridge.sample_index ELSE NoEffort
        /\ runtime'.integral \in Nat
        /\ runtime' = [applied |-> runtime'.applied, integral |-> runtime'.integral]
    BY <1>3, <1>4 DEF ControlStep
  <2>2. to_bridge.sample_index \in Efforts /\ NoEffort \in Efforts
    BY <1>2 DEF Efforts
  <2>3. decision.authorized => /\ supervisor.state \in ClosedLoopStates
                               /\ Registered.health = "Healthy"
                               /\ data.reaction_wheel # "Exhausted"
    BY AuthorizedFacts DEF StepInput
  <2> QED BY <2>1, <2>2, <2>3
<1>6. /\ supervisor' \in Supervisors
      /\ supervisor.state \in ClosedLoopStates /\ data.reaction_wheel # "Exhausted" =>
           supervisor'.state \in ClosedLoopStates
  BY <1>3, <1>4, StepSupervisor DEF CapturedBy
<1>7. outer' \in [divider : 0 .. OUTER_LOOP_DECIMATION - 1, integral : Nat]
  BY <1>3, <1>4, OuterLoopType
<1>8. supervisor.state \in ClosedLoopStates => sample_index >= 2
  BY <1>2 DEF IInv, Unarmed, ClosedLoopStates
<1> QED BY <1>1, <1>2, <1>3, <1>5, <1>6, <1>7, <1>8 DEF StepRaw

LEMMA BridgeIInv ==
  ASSUME IInv, Bridge
  PROVE  IInv'
<1>1. CASE EndOfInput
  <2>1. /\ UNCHANGED <<mapping_ok, client, to_bridge, to_controller, production>>
        /\ bridge' = "0" /\ controller = "closing"
    BY <1>1 DEF EndOfInput
  <2>2. TypeOK'
    BY <2>1 DEF IInv, TypeOK, client, production
  <2>3. Exchange'
    BY <2>1 DEF IInv, Exchange, Quiet, client
  <2> QED BY <2>1, <2>2, <2>3
          DEF IInv, Unarmed, NoEarlyEffort, AppliedInClosedLoop, production
<1>2. CASE RefuseWire
  BY <1>2, FailIInv DEF RefuseWire, production
<1>3. CASE FailObservation
  BY <1>3, FailIInv DEF FailObservation, Consume
<1>4. CASE SkipUnready
  <2>1. /\ Reading /\ consumed = Nothing /\ consumed' = to_bridge.sample_index
        /\ sensor_timing' = Registered /\ skipped' = skipped + 1
        /\ Respond(supervisor.state, NoEffort)
        /\ UNCHANGED <<supervisor, runtime, outer, runtime_steps>>
    BY <1>4 DEF SkipUnready, Consume
  <2> DEFINE answer == Answer(supervisor.state, NoEffort)
  <2>2. /\ to_controller' = answer /\ to_bridge' = NoLine
        /\ UNCHANGED <<mapping_ok, controller, sample_index, motors, bridge>>
    BY <2>1 DEF Respond, client
  <2>3. /\ answer # NoLine
        /\ answer \in [sample_index : Nat, operating_state : OperatingState,
                       sensor_timing : SensorTimingHealth,
                       actuation : {"apply", "revoke"}, effort : Efforts]
    <3>1. supervisor.state \in OperatingState /\ NoEffort \in Efforts
      BY DEF IInv, TypeOK, Supervisors, Efforts
    <3> QED BY <2>1, <3>1, AnswerType DEF IInv
  <2>4. /\ controller = "waiting" /\ bridge = "running" /\ InStep /\ consumed' = 0
        /\ sample_index = 0 /\ to_bridge.sample_index = 0
    BY <2>1, ReadingFacts DEF Nothing
  <2>5. to_bridge.sample_index \in Nat /\ Registered \in Monitors(Nat)
    BY <2>1, LineFacts DEF IInv
  <2>6. TypeOK'
    BY <2>1, <2>2, <2>3, <2>5 DEF IInv, TypeOK
  <2>7. runtime.applied = NoEffort
    BY <2>1 DEF IInv, NoEarlyEffort, Nothing
  <2>8. answer.sample_index = 0 /\ answer.effort = NoEffort /\ answer.actuation = "revoke"
    BY <2>4 DEF Answer
  <2>9. Exchange'
    <3>1. Answered'
      BY <2>1, <2>2, <2>4, <2>7, <2>8 DEF Answered, InStep, IInv, TypeOK
    <3>2. sample_index < MaxSamples
      BY <2>4 DEF IInv, Exchange
    <3> QED BY <2>2, <2>3, <2>4, <3>1, <3>2 DEF Exchange
  <2> QED BY <2>1, <2>2, <2>4, <2>6, <2>7, <2>8, <2>9
          DEF IInv, Unarmed, NoEarlyEffort, AppliedInClosedLoop, Nothing
<1>5. CASE FailStep
  BY <1>5, FailIInv DEF FailStep, Consume
<1>6. CASE StepRaw
  <2>1. /\ Reading /\ consumed' = sample_index /\ sample_index >= 1
        /\ sensor_timing' = Registered
        /\ supervisor' \in Supervisors
        /\ runtime' \in [applied : Efforts, integral : Nat]
        /\ outer' \in [divider : 0 .. OUTER_LOOP_DECIMATION - 1, integral : Nat]
        /\ runtime'.applied # NoEffort =>
             /\ sample_index >= 2 /\ supervisor'.state \in ClosedLoopStates
             /\ Registered.health = "Healthy"
        /\ runtime_steps' = runtime_steps + 1 /\ skipped' = skipped
    BY <1>6, StepRawFacts
  <2>2. /\ controller = "waiting" /\ bridge = "running" /\ to_controller = NoLine /\ InStep
        /\ to_bridge.sample_index = sample_index /\ sample_index \in Nat
    BY <2>1, ReadingFacts
  <2>3. Registered \in Monitors(Nat)
    BY <2>1, LineFacts DEF IInv
  <2>4. /\ Unarmed' /\ NoEarlyEffort'
    BY <2>1, <2>2 DEF Unarmed, NoEarlyEffort
  <2>5. CASE Fail
    <3>1. TypeOK'
      BY <2>1, <2>2, <2>3, <2>5 DEF Fail, client, IInv, TypeOK
    <3>2. to_controller' = NoLine
      BY <2>2, <2>5 DEF Fail
    <3> QED BY <2>1, <2>4, <2>5, <3>1, <3>2, FailExchange DEF IInv, AppliedInClosedLoop
  <2>6. CASE Respond(supervisor'.state, runtime'.applied)
    <3> DEFINE answer == Answer(supervisor'.state, runtime'.applied)
    <3>1. /\ to_controller' = answer /\ to_bridge' = NoLine
          /\ UNCHANGED <<mapping_ok, controller, sample_index, motors, bridge>>
      BY <2>6 DEF Respond, client
    <3>2. supervisor'.state \in OperatingState /\ runtime'.applied \in Efforts
      BY <2>1 DEF Supervisors
    <3>3. /\ answer # NoLine
          /\ answer \in [sample_index : Nat, operating_state : OperatingState,
                         sensor_timing : SensorTimingHealth,
                         actuation : {"apply", "revoke"}, effort : Efforts]
      BY <2>1, <3>2, AnswerType DEF IInv
    <3>4. /\ answer.sample_index = sample_index /\ answer.effort = runtime'.applied
          /\ answer.actuation = "apply" <=> runtime'.applied # NoEffort
          /\ answer.operating_state = supervisor'.state
          /\ answer.sensor_timing = Registered.health
      BY <2>2 DEF Answer
    <3>5. TypeOK'
      BY <2>1, <2>3, <3>1, <3>3 DEF IInv, TypeOK
    <3>6. Answered'
      BY <2>1, <2>2, <3>1, <3>4 DEF Answered, InStep, IInv, TypeOK
    <3>7. Exchange'
      <4>1. sample_index < MaxSamples
        BY <2>2 DEF IInv, Exchange
      <4> QED BY <2>2, <3>1, <3>3, <3>6, <4>1 DEF Exchange
    <3>8. AppliedInClosedLoop'
      BY <2>1, <3>1, <3>4 DEF AppliedInClosedLoop
    <3> QED BY <2>4, <3>5, <3>7, <3>8 DEF IInv
  <2> QED BY <1>6, <2>5, <2>6, StepRawFacts
<1> QED BY <1>1, <1>2, <1>3, <1>4, <1>5, <1>6 DEF Bridge

-----------------------------------------------------------------------------
(* The theorems.                                                            *)

\* The invariant holds in every state, whatever the timing policy and the bounds.
THEOREM Invariance == Spec => []IInv
<1>1. IInv /\ [Next]_vars => IInv'
  <2> SUFFICES ASSUME IInv, [Next]_vars PROVE IInv'
    OBVIOUS
  <2>1. CASE Controller
    BY <2>1, ControllerIInv
  <2>2. CASE Bridge
    BY <2>2, BridgeIInv
  <2>3. CASE UNCHANGED vars
    BY <2>3 DEF vars, client, production, IInv, TypeOK, Exchange, Quiet, InStep, Answered,
                Unarmed, NoEarlyEffort, AppliedInClosedLoop
  <2> QED BY <2>1, <2>2, <2>3 DEF Next, Over
<1> QED BY InitIInv, <1>1, PTL DEF Spec

\* The torque the simulation steps with is the input the bridge's observer will
\* assume, every sample was taken once, and an effort is applied only for a closed
\* loop on healthy timing (Webots' run_closed_loop against step_raw).
THEOREM InTheLoop == Spec => []InLoop
<1>1. IInv => InLoop
  BY DEF IInv, InLoop, Exchange, InStep, PlantAsRemembered
<1> QED BY <1>1, Invariance, PTL

\* Once the loop is left, however it was, the motors are at rest, and main is not
\* left before the bridge has exited: the safety half of EndsAtRest.
THEOREM LeavesAtRest ==
  Spec => [](/\ controller \in {"closing", "quit", "raised"} => motors = NoEffort
             /\ controller \in {"quit", "raised"} => bridge # "running")
<1>1. IInv => /\ controller \in {"closing", "quit", "raised"} => motors = NoEffort
              /\ controller \in {"quit", "raised"} => bridge # "running"
  BY DEF IInv, Exchange
<1> QED BY <1>1, Invariance, PTL
=============================================================================
