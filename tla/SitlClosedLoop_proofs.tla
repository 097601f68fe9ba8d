----------------------- MODULE SitlClosedLoop_proofs ------------------------
(***************************************************************************)
(* Theorems about a SITL run, for every scenario, timing policy and        *)
(* outer-loop decimation: types, the remembered input, the neutral fault,  *)
(* the integrators, the refinement of ActuationGate; and from a second     *)
(* invariant, of the timetable: the schedule, the age of what is used, the *)
(* evidence, and what a closed loop needs of the sensor.                   *)
(***************************************************************************)
EXTENDS SitlClosedLoop, TLAPS

-----------------------------------------------------------------------------
(* The calls of the monitor, the supervisor and the authority.             *)

\* A classification is one of the health values.
LEMMA ClassifyElapsedType ==
  ASSUME NEW elapsed \in Int
  PROVE  ClassifyElapsed(elapsed) \in SensorTimingHealth
BY DEF ClassifyElapsed, SensorTimingHealth

\* The calls of the monitor return a monitor, whatever the stamps are.
LEMMA MonitorCalls ==
  ASSUME NEW Stamp \in SUBSET Int, NEW m \in Monitors(Stamp), NEW at \in Stamp
  PROVE  /\ OnEvent(m, at) \in Monitors(Stamp)
         /\ PollMonitor(m, at) \in Monitors(Stamp)
<1>1. SaturatingSub(at, m.reference) \in Int
  <2>1. m.reference \in Stamp
    BY DEF Monitors
  <2>2. at \in Int /\ m.reference \in Int
    BY <2>1
  <2> QED BY <2>2 DEF SaturatingSub
<1>2. ClassifyElapsed(SaturatingSub(at, m.reference)) \in SensorTimingHealth
  BY <1>1, ClassifyElapsedType
<1>3. "Startup" \in SensorTimingHealth
  BY DEF SensorTimingHealth
<1>4. OnEvent(m, at) \in Monitors(Stamp)
  BY <1>2, <1>3 DEF OnEvent, Monitors
<1>5. PollMonitor(m, at) \in Monitors(Stamp)
  BY <1>2, <1>3 DEF PollMonitor, Monitors
<1> QED BY <1>4, <1>5

\* Latching known faults returns a supervisor, and it is in Fault.
LEMMA LatchFaultsType ==
  ASSUME NEW s \in Supervisors, NEW faults \in SUBSET RuntimeFaults
  PROVE  LatchFaults(s, faults) \in Supervisors
BY DEF LatchFaults, Supervisors, OperatingState

\* The calls of the supervisor return a supervisor.
LEMMA SupervisorCallsType ==
  ASSUME NEW s \in Supervisors, NEW timing, NEW health, NEW wheel \in ReactionWheelAuthority
  PROVE  /\ BootComplete(s) \in Supervisors
         /\ HardwareCheckPassed(s) \in Supervisors
         /\ RequestBalance(s) \in Supervisors
         /\ CaptureReady(s) \in Supervisors
         /\ ObserveIndependentHealth(s, timing, health) \in Supervisors
         /\ ObserveControlHealth(s, "Valid", wheel) \in Supervisors
<1>1. /\ BootComplete(s) \in Supervisors
      /\ HardwareCheckPassed(s) \in Supervisors
      /\ RequestBalance(s) \in Supervisors
      /\ CaptureReady(s) \in Supervisors
  BY DEF BootComplete, HardwareCheckPassed, RequestBalance, CaptureReady, Supervisors, OperatingState
<1>2. Timeouts(timing, health) \in SUBSET RuntimeFaults
  BY DEF Timeouts, RuntimeFaults
<1>3. ObserveIndependentHealth(s, timing, health) \in Supervisors
  BY <1>2, LatchFaultsType DEF ObserveIndependentHealth
<1>4. LatchFaults(s, {"REACTION_WHEEL_EXHAUSTED"}) \in Supervisors
  BY LatchFaultsType DEF RuntimeFaults
<1>5. /\ [s EXCEPT !.state = "Balancing"] \in Supervisors
      /\ [s EXCEPT !.state = "MomentumLimited"] \in Supervisors
  BY DEF Supervisors, OperatingState
<1>6. ObserveControlHealth(s, "Valid", wheel) \in Supervisors
  BY <1>4, <1>5 DEF ObserveControlHealth, ReactionWheelAuthority
<1> QED BY <1>1, <1>3, <1>6

\* What the authority's decision tells of the context it was taken in.
LEMMA AuthorityFacts ==
  ASSUME NEW context, NEW commands
  PROVE  LET decision == Evaluate(context, commands)
         IN  /\ decision.authorized \in BOOLEAN
             /\ decision.authorized => /\ context.operating_state \in ClosedLoopStates
                                       /\ context.reaction_wheel # "Exhausted"
             /\ ~decision.constrained => context.reaction_wheel # "Warning"
             /\ ~decision.hold_integrator <=> decision.authorized /\ ~decision.constrained
<1>1. ~Denied(context, commands) => /\ context.operating_state \in ClosedLoopStates
                                   /\ context.reaction_wheel # "Exhausted"
  BY DEF Denied, Reported, DenyingReasons
<1>2. ~Constrained(context, commands) => context.reaction_wheel # "Warning"
  BY DEF Constrained, Reported, ConstrainingReasons
<1>3. /\ Denied(context, commands) \in BOOLEAN
      /\ Constrained(context, commands) \in BOOLEAN
  BY DEF Denied, Constrained
<1> QED BY <1>1, <1>2, <1>3 DEF Evaluate

-----------------------------------------------------------------------------
USE SensorTimingLimits, SitlScenarioBounds, ProductionPathConfig

-----------------------------------------------------------------------------
(* The operators the handlers are made of.                                  *)

\* What one call of the control runtime returns and decides.
LEMMA ControlStepFacts ==
  ASSUME NEW r \in [applied : Indices, integral : Nat], NEW input,
         NEW data \in ControlData, NEW request \in Indices
  PROVE  LET decision == StepDecision(controller, input, data)
             after == ControlStep(r, controller, input, data, request)
         IN  /\ after \in [applied : Indices, integral : Nat]
             /\ decision.authorized \in BOOLEAN
             /\ after.applied = IF decision.authorized THEN request ELSE NoEffort
             /\ decision.authorized => /\ input.operating_state \in ClosedLoopStates
                                       /\ data.reaction_wheel # "Exhausted"
             /\ ~decision.constrained => data.reaction_wheel # "Warning"
             /\ ~decision.hold_integrator => decision.authorized /\ ~decision.constrained
             /\ after.integral # r.integral => decision.authorized /\ ~decision.constrained
<1> DEFINE saturated == IF IntegratorAdvances(controller, input, data)
                        THEN data.candidate_saturated ELSE data.request_saturated
           decision == EvaluateDemand(input, data, saturated)
           after == ControlStep(r, controller, input, data, request)
<1>1. decision = StepDecision(controller, input, data)
  BY DEF StepDecision
<1>2. /\ decision.authorized \in BOOLEAN
      /\ decision.authorized => /\ input.operating_state \in ClosedLoopStates
                                /\ data.reaction_wheel # "Exhausted"
      /\ ~decision.constrained => data.reaction_wheel # "Warning"
      /\ ~decision.hold_integrator => decision.authorized /\ ~decision.constrained
  BY AuthorityFacts DEF EvaluateDemand
<1>3. /\ after.applied = IF StepDecision(controller, input, data).authorized
                         THEN request ELSE NoEffort
      /\ after.integral = IF IntegratorAdvances(controller, input, data)
                          THEN r.integral + 1 ELSE r.integral
      /\ after = [applied |-> after.applied, integral |-> after.integral]
  BY DEF ControlStep
<1>4. after \in [applied : Indices, integral : Nat]
  <2>1. NoEffort \in Indices
    BY DEF NoEffort, Indices, None
  <2>2. after.applied \in Indices /\ after.integral \in Nat
    BY <1>3, <2>1
  <2> QED BY <1>3, <2>2
<1>5. after.integral # r.integral => decision.authorized /\ ~decision.constrained
  BY <1>3 DEF IntegratorAdvances, FullyUnconstrained
<1> QED BY <1>1, <1>2, <1>3, <1>4, <1>5

\* What a complete step does to the supervisor.
LEMMA StepSupervisor ==
  ASSUME TypeOK, NEW wheel \in ReactionWheelAuthority
  PROVE  LET s == ObserveControlHealth(Captured(supervisor), "Valid", wheel)
         IN  /\ s \in Supervisors
             /\ Faulted => s.state = "Fault"
             /\ ClosedLoop => s.state \in ClosedLoopStates \/ s.state = "Fault"
             /\ ClosedLoop /\ wheel = "Nominal" => s.state = "Balancing"
             /\ ClosedLoop /\ wheel # "Exhausted" => s.state \in ClosedLoopStates
             /\ s.state = "Fault" => Faulted \/ wheel = "Exhausted"
<1>1. supervisor \in Supervisors
  BY DEF TypeOK
<1>2. /\ Captured(supervisor) \in Supervisors
      /\ Faulted => Captured(supervisor).state = "Fault"
      /\ ClosedLoop => Captured(supervisor) = supervisor
      /\ Captured(supervisor).state = "Fault" => Faulted
  BY <1>1, SupervisorCallsType
  DEF Captured, CaptureReady, Faulted, ClosedLoop, ClosedLoopStates, Supervisors
<1> DEFINE c == Captured(supervisor)
<1> HIDE DEF c
<1>3. ObserveControlHealth(c, "Valid", wheel) \in Supervisors
  BY <1>2, SupervisorCallsType DEF c
<1>4. CASE c.state \notin ClosedLoopStates
  <2>1. ObserveControlHealth(c, "Valid", wheel) = c
    BY <1>4 DEF ObserveControlHealth
  <2> QED BY <1>2, <1>3, <1>4, <2>1 DEF c, ClosedLoop
<1>5. CASE c.state \in ClosedLoopStates
  <2> DEFINE s == ObserveControlHealth(c, "Valid", wheel)
  <2>1. /\ wheel = "Nominal" => s = [c EXCEPT !.state = "Balancing"]
        /\ wheel = "Warning" => s = [c EXCEPT !.state = "MomentumLimited"]
        /\ wheel = "Exhausted" => s = LatchFaults(c, {"REACTION_WHEEL_EXHAUSTED"})
    BY <1>5 DEF ObserveControlHealth
  <2>2. /\ wheel = "Nominal" => s.state = "Balancing"
        /\ wheel = "Warning" => s.state = "MomentumLimited"
        /\ wheel = "Exhausted" => s.state = "Fault"
    BY <1>2, <2>1 DEF c, Supervisors, LatchFaults
  <2>3. c.state # "Fault"
    BY <1>5 DEF ClosedLoopStates
  <2> QED BY <1>2, <1>3, <2>2, <2>3 DEF c, ReactionWheelAuthority, ClosedLoopStates
<1> QED BY <1>4, <1>5 DEF c

\* A step that is complete or not leaves the counters natural numbers.
LEMMA CountedType ==
  ASSUME count \in [Counters -> Nat], NEW counters
  PROVE  Counted(counters) \in [Counters -> Nat]
BY DEF Counted

\* The events of a scenario, and the commit that is scheduled with every
\* opportunity of the runtime.
LEMMA ScheduleFacts ==
  ASSUME NEW s \in Scenarios
  PROVE  /\ Schedule(s) \in SUBSET [at : Instant, kind : EventKind]
         /\ \A event \in Schedule(s) : event.kind = "ProductionRuntime" =>
              [at |-> event.at, kind |-> "ActuationCommit"] \in Schedule(s)
<1>1. s.duration \in 0 .. MaxDuration
  BY DEF Scenarios
<1>2. 0 .. s.duration \subseteq Instant
  BY <1>1 DEF Instant
<1>3. Schedule(s) \in SUBSET [at : Instant, kind : EventKind]
  BY <1>2 DEF Schedule
<1>4. Instants("ProductionRuntime", s) = Instants("ActuationCommit", s)
  BY DEF Instants
<1>5. "ActuationCommit" \in EventKind
  BY DEF EventKind
<1> QED BY <1>3, <1>4, <1>5 DEF Schedule

\* An event that is dispatched leaves the queue and the commit of the instant
\* alone, unless it is that commit, and then no opportunity is left.
LEMMA DispatchFacts ==
  ASSUME IInv, NEW kind \in EventKind, Dispatch(kind)
  PROVE  /\ Running
         /\ slice' \in SUBSET EventKind
         /\ \A event \in queue' : event.kind = "ProductionRuntime" =>
              [at |-> event.at, kind |-> "ActuationCommit"] \in queue'
         /\ "ProductionRuntime" \in slice' => "ActuationCommit" \in slice'
         /\ kind # "ActuationCommit" /\ "ActuationCommit" \in slice =>
              "ActuationCommit" \in slice'
         /\ kind = "ProductionRuntime" => "ActuationCommit" \in slice'
<1>1. Running /\ kind \in slice /\ slice' = slice \ {kind} /\ queue' = queue
  BY DEF Dispatch
<1>2. "ProductionRuntime" \in slice => "ActuationCommit" \in slice
  BY DEF IInv, CommitFollows
<1>3. kind = "ActuationCommit" => "ProductionRuntime" \notin slice
  <2>1. \A other \in slice : Phase(kind) <= Phase(other)
    BY DEF Dispatch
  <2>2. Phase("ActuationCommit") = 4 /\ Phase("ProductionRuntime") = 3
    BY DEF Phase
  <2> QED BY <2>1, <2>2
<1> QED BY <1>1, <1>2, <1>3 DEF IInv, TypeOK, CommitFollows

-----------------------------------------------------------------------------
(* The invariant holds initially and is preserved by every step.            *)

LEMMA InitIInv == Init => IInv
<1> SUFFICES ASSUME Init PROVE IInv
  OBVIOUS
<1>1. NewMonitor(0) \in Monitors(Instant)
  BY DEF NewMonitor, Monitors, SensorTimingHealth, Instant
<1>2. RequestBalance(HardwareCheckPassed(BootComplete(NewSupervisor))) \in Supervisors
  <2>1. NewSupervisor \in Supervisors
    BY DEF NewSupervisor, Supervisors, OperatingState
  <2>2. "Nominal" \in ReactionWheelAuthority
    BY DEF ReactionWheelAuthority
  <2> QED BY <2>1, <2>2, SupervisorCallsType
<1>3. /\ Schedule(scenario) \in SUBSET [at : Instant, kind : EventKind]
      /\ \A event \in Schedule(scenario) : event.kind = "ProductionRuntime" =>
           [at |-> event.at, kind |-> "ActuationCommit"] \in Schedule(scenario)
  BY ScheduleFacts DEF Init
<1>4. TypeOK
  BY <1>1, <1>2, <1>3
  DEF Init, TypeOK, Instant, Indices, None, NoEffort, NewControlRuntime, NewOuterLoop,
      NoSample, NoObservation, NoActuation, EncoderChannelStatus, Counters
<1>5. CommitFollows
  BY <1>3 DEF Init, CommitFollows, NoActuation
<1>6. ObservationOrder
  BY DEF Init, ObservationOrder, NoObservation, NoSample, None, NewControlRuntime
<1>7. CommandRemembered
  <2>1. RequestBalance(HardwareCheckPassed(BootComplete(NewSupervisor))).state # "Fault"
    BY DEF NewSupervisor, BootComplete, HardwareCheckPassed, RequestBalance
  <2> QED BY <2>1 DEF Init, CommandRemembered, Commanded, NewControlRuntime, NoActuation, NoEffort
<1> QED BY <1>4, <1>5, <1>6, <1>7 DEF IInv

\* A slice is only taken when the last one is done, and so nothing is pending.
LEMMA NextSliceIInv ==
  ASSUME IInv, NextSlice
  PROVE  IInv'
<1>1. PICK first \in queue : TakeSlice(first.at) /\ AdvanceWorld(first.at)
  BY DEF NextSlice
<1>2. Running /\ slice = {} /\ pending_actuation.kind = "none"
  BY DEF NextSlice, IInv, CommitFollows
<1>3. UNCHANGED <<scenario, controller, sensor_timing, pending_raw, delivered, supervisor,
                  runtime, outer, pending_actuation, consumed>>
  BY DEF NextSlice, observing, control
<1>4. first.at \in Instant /\ queue' \in SUBSET [at : Instant, kind : EventKind]
  BY <1>1 DEF IInv, TypeOK, TakeSlice
<1>5. slice' \in SUBSET EventKind
  BY <1>1 DEF IInv, TypeOK, TakeSlice
<1>6. /\ world' \in [time : Instant, next_index : Nat, effort : Indices]
      /\ world'.next_index = world.next_index /\ world'.effort = world.effort
      /\ count' \in [Counters -> Nat]
      /\ status' \in {"running", "PhysicalAdvance"}
  BY <1>1, <1>2, <1>4, CountedType DEF IInv, TypeOK, AdvanceWorld, Running
<1>7. TypeOK'
  BY <1>1, <1>3, <1>4, <1>5, <1>6 DEF IInv, TypeOK, TakeSlice, NumericalErrors
<1>8. CommitFollows'
  <2>1. \A event \in queue' : event.kind = "ProductionRuntime" =>
          [at |-> event.at, kind |-> "ActuationCommit"] \in queue'
    BY <1>1 DEF IInv, CommitFollows, TakeSlice
  <2>2. "ProductionRuntime" \in slice' => "ActuationCommit" \in slice'
    <3>1. SUFFICES ASSUME "ProductionRuntime" \in slice' PROVE "ActuationCommit" \in slice'
      OBVIOUS
    <3>2. PICK event \in queue : event.at = first.at /\ event.kind = "ProductionRuntime"
      BY <1>1, <3>1 DEF TakeSlice
    <3>3. [at |-> event.at, kind |-> "ActuationCommit"] \in queue
      BY <3>2 DEF IInv, CommitFollows
    <3> QED BY <1>1, <3>2, <3>3 DEF TakeSlice
  <2> QED BY <1>2, <1>3, <2>1, <2>2 DEF CommitFollows
<1>9. ObservationOrder'
  BY <1>3, <1>6 DEF IInv, ObservationOrder
<1>10. CommandRemembered'
  BY <1>2, <1>3, <1>6 DEF IInv, CommandRemembered, Commanded, Faulted, ClosedLoop
<1> QED BY <1>7, <1>8, <1>9, <1>10 DEF IInv

LEMMA SampleSensorIInv ==
  ASSUME IInv, SampleSensor
  PROVE  IInv'
<1>1. UNCHANGED <<scenario, controller, now, queue, supervisor, runtime, outer,
                  pending_actuation, consumed, delivered>>
  BY DEF SampleSensor, Dispatch, control, observing
<1>2. /\ Running
      /\ slice' \in SUBSET EventKind
      /\ \A event \in queue' : event.kind = "ProductionRuntime" =>
           [at |-> event.at, kind |-> "ActuationCommit"] \in queue'
      /\ "ProductionRuntime" \in slice' => "ActuationCommit" \in slice'
      /\ "ActuationCommit" \in slice => "ActuationCommit" \in slice'
  <2>1. "SensorSample" \in EventKind /\ Dispatch("SensorSample")
    BY DEF EventKind, SampleSensor
  <2> QED BY <2>1, DispatchFacts
<1>3. CommitFollows'
  BY <1>1, <1>2 DEF IInv, CommitFollows
<1>4. CASE status' \in {"SensorSampleAlreadyPending", "World"}
  <2>1. UNCHANGED <<world, sensor_timing, pending_raw, count>>
    BY <1>4, <1>2 DEF SampleSensor, observing, Running
  <2>2. TypeOK'
    BY <1>1, <1>2, <1>4, <2>1 DEF IInv, TypeOK, ScheduleErrors, NumericalErrors
  <2> QED BY <1>1, <1>3, <1>4, <2>1, <2>2
          DEF IInv, ObservationOrder, CommandRemembered, Running
<1>5. CASE status' \notin {"SensorSampleAlreadyPending", "World"}
  <2>1. /\ pending_raw = NoSample
        /\ pending_raw' = [index |-> world.next_index, at |-> now]
        /\ world' = [world EXCEPT !.next_index = @ + 1]
        /\ sensor_timing' = OnEvent(sensor_timing, now)
        /\ count' = Counted({"samples"})
        /\ status' = status
    BY <1>5 DEF SampleSensor, SampleWorld
  <2>2. /\ world' \in [time : Instant, next_index : Nat, effort : Indices]
        /\ world'.next_index = world.next_index + 1 /\ world'.effort = world.effort
        /\ world.next_index \in Nat
    BY <2>1 DEF IInv, TypeOK
  <2>3. sensor_timing' \in Monitors(Instant)
    <3>1. Instant \in SUBSET Int
      BY DEF Instant
    <3> QED BY <2>1, <3>1, MonitorCalls DEF IInv, TypeOK
  <2>4. pending_raw' \in [index : Indices, at : Instant]
    BY <2>1, <2>2 DEF IInv, TypeOK, Indices
  <2>5. TypeOK'
    BY <1>1, <1>2, <2>1, <2>2, <2>3, <2>4, CountedType DEF IInv, TypeOK
  <2>6. ObservationOrder'
    <3>1. delivered.index \in Indices /\ delivered.index < world.next_index
      BY DEF IInv, TypeOK, ObservationOrder
    <3>2. delivered.index < world'.next_index /\ delivered.index <= world.next_index
      BY <2>2, <3>1 DEF Indices, None
    <3> QED BY <1>1, <2>1, <2>2, <3>2 DEF IInv, ObservationOrder
  <2>7. CommandRemembered'
    BY <1>1, <2>1, <2>2 DEF IInv, CommandRemembered, Commanded, Running, Faulted, ClosedLoop
  <2> QED BY <1>3, <2>5, <2>6, <2>7 DEF IInv
<1> QED BY <1>4, <1>5

LEMMA DeliverObservationIInv ==
  ASSUME IInv, DeliverObservation
  PROVE  IInv'
<1>1. UNCHANGED <<scenario, controller, now, queue, world, sensor_timing, supervisor, runtime,
                  outer, pending_actuation, consumed>>
  BY DEF DeliverObservation, Dispatch, control, observing
<1>2. /\ Running
      /\ slice' \in SUBSET EventKind
      /\ \A event \in queue' : event.kind = "ProductionRuntime" =>
           [at |-> event.at, kind |-> "ActuationCommit"] \in queue'
      /\ "ProductionRuntime" \in slice' => "ActuationCommit" \in slice'
      /\ "ActuationCommit" \in slice => "ActuationCommit" \in slice'
  <2>1. "ObservationDelivery" \in EventKind /\ Dispatch("ObservationDelivery")
    BY DEF EventKind, DeliverObservation
  <2> QED BY <2>1, DispatchFacts
<1>3. CommitFollows'
  BY <1>1, <1>2 DEF IInv, CommitFollows
<1>4. CASE pending_raw = NoSample
  <2>1. /\ status' = "ObservationDeliveryWithoutSample"
        /\ UNCHANGED <<pending_raw, delivered, count>>
    BY <1>4 DEF DeliverObservation, observing
  <2>2. TypeOK'
    BY <1>1, <1>2, <2>1 DEF IInv, TypeOK, ScheduleErrors
  <2> QED BY <1>1, <1>3, <2>1, <2>2 DEF IInv, ObservationOrder, CommandRemembered, Running
<1>5. CASE pending_raw # NoSample
  <2>1. /\ delivered'.index = pending_raw.index
        /\ delivered' \in [index : Indices, at : Instant, encoders : EncoderChannelStatus]
        /\ delivered'.encoders = "Primed" => pending_raw.index = 0
    BY <1>5 DEF DeliverObservation, IInv, TypeOK
  <2>2. pending_raw' = NoSample /\ count' = Counted({"delivered"}) /\ status' = status
    BY <1>5 DEF DeliverObservation
  <2>3. TypeOK'
    <3>1. NoSample \in [index : Indices, at : Instant]
      BY DEF NoSample, Indices, Instant
    <3> QED BY <1>1, <1>2, <2>1, <2>2, <3>1, CountedType DEF IInv, TypeOK
  <2>4. ObservationOrder'
    <3>1. /\ pending_raw.index \in Nat /\ delivered.index <= pending_raw.index
          /\ pending_raw.index < world.next_index
          /\ consumed <= delivered.index
          /\ consumed \in Indices /\ delivered.index \in Indices
      BY <1>5 DEF IInv, TypeOK, ObservationOrder
    <3>2. consumed <= pending_raw.index
      BY <3>1 DEF Indices, None
    <3>3. consumed = None => runtime.applied = NoEffort
      BY DEF IInv, ObservationOrder
    <3> QED BY <1>1, <2>1, <2>2, <3>1, <3>2, <3>3 DEF ObservationOrder
  <2>5. CommandRemembered'
    BY <1>1, <2>2 DEF IInv, CommandRemembered, Commanded, Running, Faulted, ClosedLoop
  <2> QED BY <1>3, <2>3, <2>4, <2>5 DEF IInv
<1> QED BY <1>4, <1>5

\* A handler that ends the run, or that has no effect, changes nothing the
\* invariant speaks of.
LEMMA EndingIInv ==
  ASSUME IInv, NEW kind \in EventKind, Dispatch(kind), kind # "ActuationCommit",
         UNCHANGED <<world, observing, control>>, consumed' \in {consumed, delivered.index},
         count' \in [Counters -> Nat],
         status' \in {"EncoderRejected", "ControlRuntime"} \cup StarvationErrors
           \/ (status' = status /\ consumed' = consumed)
  PROVE  IInv'
<1>1. /\ Running
      /\ slice' \in SUBSET EventKind
      /\ \A event \in queue' : event.kind = "ProductionRuntime" =>
           [at |-> event.at, kind |-> "ActuationCommit"] \in queue'
      /\ "ProductionRuntime" \in slice' => "ActuationCommit" \in slice'
      /\ "ActuationCommit" \in slice => "ActuationCommit" \in slice'
  BY DispatchFacts
<1>2. UNCHANGED <<scenario, controller, now, queue, world, sensor_timing, supervisor, runtime,
                  outer, pending_raw, delivered, pending_actuation>>
  BY DEF Dispatch, observing, control
<1>3. TypeOK'
  BY <1>1, <1>2 DEF IInv, TypeOK, NumericalErrors
<1>4. CommitFollows'
  BY <1>1, <1>2 DEF IInv, CommitFollows
<1>5. ObservationOrder'
  BY <1>2 DEF IInv, ObservationOrder, TypeOK, Indices, None
<1>6. CommandRemembered'
  BY <1>1, <1>2 DEF IInv, CommandRemembered, Commanded, Running, Faulted, ClosedLoop,
     StarvationErrors
<1> QED BY <1>3, <1>4, <1>5, <1>6 DEF IInv

\* The runtime has taken the delivered observation: its decision is pending, the
\* world is as it was, and what the runtime remembers is what will be committed.
LEMMA DecidedIInv ==
  ASSUME IInv, Dispatch("ProductionRuntime"), UNCHANGED <<status, world, observing>>,
         consumed' = delivered.index, count' \in [Counters -> Nat],
         supervisor' \in Supervisors, runtime' \in [applied : Indices, integral : Nat],
         outer' \in [divider : 0 .. OUTER_LOOP_DECIMATION - 1, integral : Nat],
         pending_actuation' \in [kind : {"apply", "revoke"}, effort : Indices],
         runtime'.applied = pending_actuation'.effort,
         delivered.index # None,
         pending_actuation'.kind = "apply" => ClosedLoop' /\ runtime'.applied # NoEffort,
         pending_actuation'.kind = "revoke" => runtime'.applied = NoEffort
  PROVE  IInv'
<1>1. /\ Running
      /\ slice' \in SUBSET EventKind
      /\ \A event \in queue' : event.kind = "ProductionRuntime" =>
           [at |-> event.at, kind |-> "ActuationCommit"] \in queue'
      /\ "ActuationCommit" \in slice'
  <2>1. "ProductionRuntime" \in EventKind
    BY DEF EventKind
  <2> QED BY <2>1, DispatchFacts
<1>2. UNCHANGED <<scenario, controller, now, queue, sensor_timing, pending_raw, delivered>>
  BY DEF Dispatch, observing
<1>3. TypeOK'
  BY <1>1, <1>2 DEF IInv, TypeOK
<1>4. CommitFollows'
  BY <1>1 DEF CommitFollows
<1>5. ObservationOrder'
  BY <1>2 DEF IInv, ObservationOrder, TypeOK, Indices, None
<1>6. CommandRemembered'
  BY DEF CommandRemembered, Commanded, Faulted, ClosedLoop, ClosedLoopStates
<1> QED BY <1>3, <1>4, <1>5, <1>6 DEF IInv

\* The first sample only primes the encoders; the runtime has not run yet.
LEMMA SkipUnreadyIInv ==
  ASSUME IInv, SkipUnready
  PROVE  IInv'
<1>1. consumed = None
  <2>1. delivered.index = 0 /\ consumed # 0 /\ consumed <= delivered.index
    BY DEF SkipUnready, Fresh, IInv, ObservationOrder
  <2> QED BY <2>1 DEF IInv, TypeOK, Indices
<1>2. runtime.applied = NoEffort
  BY <1>1 DEF IInv, ObservationOrder
<1>3. /\ pending_actuation' = [kind |-> "revoke", effort |-> NoEffort]
      /\ UNCHANGED <<supervisor, runtime, outer>> /\ UNCHANGED <<status, world, observing>>
      /\ consumed' = delivered.index /\ delivered.index # None
      /\ Dispatch("ProductionRuntime")
      /\ count' = Counted({"skipped"})
  BY DEF SkipUnready, Fresh
<1>4. count' \in [Counters -> Nat]
  BY <1>3, CountedType DEF IInv, TypeOK
<1>5. pending_actuation' \in [kind : {"apply", "revoke"}, effort : Indices]
  BY <1>3 DEF NoEffort, Indices, None
<1> QED BY <1>2, <1>3, <1>4, <1>5, DecidedIInv DEF IInv, TypeOK

\* The divider stays in its range, and the integral moves only unless held.
LEMMA OuterLoopFacts ==
  ASSUME NEW before \in [divider : 0 .. OUTER_LOOP_DECIMATION - 1, integral : Nat], NEW hold,
         NEW result \in OuterResults(before, OUTER_LOOP_DECIMATION, hold)
  PROVE  /\ result.outer \in [divider : 0 .. OUTER_LOOP_DECIMATION - 1, integral : Nat]
         /\ result.outer.integral # before.integral => ~hold
<1>1. OUTER_LOOP_DECIMATION \in Nat \ {0}
  BY ProductionPathConfig
<1>2. CASE OuterDue(before, OUTER_LOOP_DECIMATION)
  <2>1. PICK update \in VelocityUpdates(before.integral, hold) :
          result = [ok |-> update.ok, outer |-> [divider |-> 0, integral |-> update.integral]]
    BY <1>2 DEF OuterResults
  <2>2. update.integral \in Nat /\ (update.integral # before.integral => ~hold)
    BY DEF VelocityUpdates
  <2> QED BY <1>1, <2>1, <2>2
<1>3. CASE ~OuterDue(before, OUTER_LOOP_DECIMATION)
  <2>1. result.outer = [before EXCEPT !.divider = @ + 1]
    BY <1>3 DEF OuterResults
  <2> QED BY <1>1, <1>3, <2>1 DEF OuterDue
<1> QED BY <1>2, <1>3

\* What a step that does not fail decides, and what it does to the supervisor,
\* the runtime and the outer loop.
LEMMA RunStepFacts ==
  ASSUME IInv, RunStep
  PROVE  /\ supervisor' \in Supervisors
         /\ runtime' \in [applied : Indices, integral : Nat]
         /\ outer' \in [divider : 0 .. OUTER_LOOP_DECIMATION - 1, integral : Nat]
         /\ Faulted => Faulted'
         /\ ClosedLoop => ClosedLoop' \/ Faulted'
         /\ \/ /\ pending_actuation' = [kind |-> "apply", effort |-> delivered.index]
               /\ runtime'.applied = delivered.index
               /\ ClosedLoop /\ ClosedLoop'
               /\ status' = status
            \/ /\ pending_actuation' = [kind |-> "revoke", effort |-> NoEffort]
               /\ runtime'.applied = NoEffort
               /\ status' = status
            \/ status' = "VelocityLoop" /\ UNCHANGED pending_actuation
         /\ runtime'.integral # runtime.integral \/ outer'.integral # outer.integral =>
              ClosedLoop /\ supervisor'.state = "Balancing" /\ runtime'.applied = delivered.index
<1>1. PICK data \in ControlData :
        LET decision == StepDecision(controller, StepInput, data)
        IN  /\ runtime' = ControlStep(runtime, controller, StepInput, data, delivered.index)
            /\ supervisor' = ObserveControlHealth(Captured(supervisor), "Valid",
                                                  data.reaction_wheel)
            /\ \E result \in OuterResults(outer, OUTER_LOOP_DECIMATION,
                                       decision.hold_integrator) :
                 /\ outer' = result.outer
                 /\ IF result.ok
                    THEN /\ pending_actuation' =
                              IF decision.authorized
                              THEN [kind |-> "apply", effort |-> delivered.index]
                              ELSE [kind |-> "revoke", effort |-> NoEffort]
                         /\ UNCHANGED status
                    ELSE status' = "VelocityLoop" /\ UNCHANGED pending_actuation
  BY DEF RunStep
<1> DEFINE decision == StepDecision(controller, StepInput, data)
<1>2. TypeOK /\ delivered.index \in Indices /\ runtime \in [applied : Indices, integral : Nat]
  BY DEF IInv, TypeOK
<1>3. /\ runtime' \in [applied : Indices, integral : Nat]
      /\ decision.authorized \in BOOLEAN
      /\ runtime'.applied = IF decision.authorized THEN delivered.index ELSE NoEffort
      /\ decision.authorized => ClosedLoop /\ data.reaction_wheel # "Exhausted"
      /\ ~decision.constrained => data.reaction_wheel # "Warning"
      /\ ~decision.hold_integrator => decision.authorized /\ ~decision.constrained
      /\ runtime'.integral # runtime.integral => decision.authorized /\ ~decision.constrained
  <2>1. StepInput.operating_state = supervisor.state
    BY DEF StepInput
  <2> QED BY <1>1, <1>2, <2>1, ControlStepFacts DEF ClosedLoop
<1> HIDE DEF decision
<1>4. data.reaction_wheel \in ReactionWheelAuthority
  BY DEF ControlData
<1>5. /\ supervisor' \in Supervisors
      /\ Faulted => supervisor'.state = "Fault"
      /\ ClosedLoop => supervisor'.state \in ClosedLoopStates \/ supervisor'.state = "Fault"
      /\ ClosedLoop /\ data.reaction_wheel = "Nominal" => supervisor'.state = "Balancing"
      /\ ClosedLoop /\ data.reaction_wheel # "Exhausted" =>
           supervisor'.state \in ClosedLoopStates
  BY <1>1, <1>2, <1>4, StepSupervisor
<1>6. /\ outer' \in [divider : 0 .. OUTER_LOOP_DECIMATION - 1, integral : Nat]
      /\ outer'.integral # outer.integral => ~decision.hold_integrator
  <2>1. outer \in [divider : 0 .. OUTER_LOOP_DECIMATION - 1, integral : Nat]
    BY <1>2 DEF TypeOK
  <2>2. PICK result \in OuterResults(outer, OUTER_LOOP_DECIMATION,
                                    decision.hold_integrator) : outer' = result.outer
    BY <1>1 DEF decision
  <2> QED BY <2>1, <2>2, OuterLoopFacts
<1>7. runtime'.integral # runtime.integral \/ outer'.integral # outer.integral =>
        ClosedLoop /\ supervisor'.state = "Balancing" /\ runtime'.applied = delivered.index
  BY <1>3, <1>4, <1>5, <1>6 DEF ReactionWheelAuthority
<1>8. \/ /\ pending_actuation' = [kind |-> "apply", effort |-> delivered.index]
         /\ runtime'.applied = delivered.index
         /\ ClosedLoop /\ ClosedLoop'
         /\ status' = status
      \/ /\ pending_actuation' = [kind |-> "revoke", effort |-> NoEffort]
         /\ runtime'.applied = NoEffort
         /\ status' = status
      \/ status' = "VelocityLoop" /\ UNCHANGED pending_actuation
  <2>1. ClosedLoop' <=> supervisor'.state \in ClosedLoopStates
    BY DEF ClosedLoop
  <2> QED BY <1>1, <1>3, <1>5, <2>1 DEF decision
<1> QED BY <1>3, <1>5, <1>6, <1>7, <1>8 DEF Faulted, ClosedLoop

\* A step's decision is pending until the commit of the same instant; if the
\* velocity loop fails the run is over.
LEMMA RunStepIInv ==
  ASSUME IInv, RunStep
  PROVE  IInv'
<1>1. /\ supervisor' \in Supervisors
      /\ runtime' \in [applied : Indices, integral : Nat]
      /\ outer' \in [divider : 0 .. OUTER_LOOP_DECIMATION - 1, integral : Nat]
      /\ \/ /\ pending_actuation' = [kind |-> "apply", effort |-> delivered.index]
            /\ runtime'.applied = delivered.index
            /\ ClosedLoop'
            /\ status' = status
         \/ /\ pending_actuation' = [kind |-> "revoke", effort |-> NoEffort]
            /\ runtime'.applied = NoEffort
            /\ status' = status
         \/ status' = "VelocityLoop" /\ UNCHANGED pending_actuation
  BY RunStepFacts
<1>2. /\ Dispatch("ProductionRuntime") /\ UNCHANGED <<world, observing>>
      /\ consumed' = delivered.index /\ delivered.index # None
      /\ count' = Counted({"steps"})
  BY DEF RunStep, Fresh
<1>3. count' \in [Counters -> Nat]
  BY <1>2, CountedType DEF IInv, TypeOK
<1>4. delivered.index \in Indices /\ NoEffort \in Indices /\ delivered.index # NoEffort
  BY <1>2 DEF IInv, TypeOK, Indices, NoEffort, None
<1>5. CASE status' = status
  <2>1. /\ pending_actuation' \in [kind : {"apply", "revoke"}, effort : Indices]
        /\ runtime'.applied = pending_actuation'.effort
        /\ pending_actuation'.kind = "apply" => ClosedLoop' /\ runtime'.applied # NoEffort
        /\ pending_actuation'.kind = "revoke" => runtime'.applied = NoEffort
        /\ status' = status
    <3>1. status # "VelocityLoop"
      BY <1>2 DEF Dispatch, Running
    <3> QED BY <1>1, <1>4, <1>5, <3>1
  <2> QED BY <1>1, <1>2, <1>3, <2>1, DecidedIInv
<1>6. CASE status' = "VelocityLoop" /\ UNCHANGED pending_actuation
  <2>1. /\ slice' \in SUBSET EventKind
        /\ \A event \in queue' : event.kind = "ProductionRuntime" =>
             [at |-> event.at, kind |-> "ActuationCommit"] \in queue'
        /\ "ProductionRuntime" \in slice' => "ActuationCommit" \in slice'
    <3>1. "ProductionRuntime" \in EventKind
      BY DEF EventKind
    <3> QED BY <1>2, <3>1, DispatchFacts
  <2>2. UNCHANGED <<scenario, controller, now, queue, world, sensor_timing, pending_raw,
                    delivered, pending_actuation>>
    BY <1>2, <1>6 DEF Dispatch, observing
  <2>3. TypeOK'
    BY <1>1, <1>2, <1>3, <1>4, <1>6, <2>1, <2>2 DEF IInv, TypeOK, NumericalErrors
  <2>4. CommitFollows'
    BY <1>6, <2>1 DEF CommitFollows, Running
  <2>5. ObservationOrder'
    BY <1>2, <2>2 DEF IInv, ObservationOrder, TypeOK, Indices, None
  <2>6. CommandRemembered'
    BY <1>6 DEF CommandRemembered, Running
  <2> QED BY <2>3, <2>4, <2>5, <2>6 DEF IInv
<1> QED BY <1>1, <1>5, <1>6

\* A missed opportunity discards the observation and changes nothing else.
LEMMA MissIInv ==
  ASSUME IInv, MissRuntimeOpportunity
  PROVE  IInv'
<1>1. /\ Dispatch("RuntimeOpportunityMissed") /\ UNCHANGED <<status, world, observing, control>>
      /\ consumed' \in {consumed, delivered.index}
      /\ consumed' # consumed => delivered.index # None
      /\ count' \in [Counters -> Nat]
  BY CountedType DEF MissRuntimeOpportunity, Fresh, IInv, TypeOK
<1>2. /\ Running
      /\ slice' \in SUBSET EventKind
      /\ \A event \in queue' : event.kind = "ProductionRuntime" =>
           [at |-> event.at, kind |-> "ActuationCommit"] \in queue'
      /\ "ProductionRuntime" \in slice' => "ActuationCommit" \in slice'
      /\ "ActuationCommit" \in slice => "ActuationCommit" \in slice'
  <2>1. "RuntimeOpportunityMissed" \in EventKind
    BY DEF EventKind
  <2> QED BY <1>1, <2>1, DispatchFacts
<1>3. UNCHANGED <<scenario, controller, now, queue, world, sensor_timing, supervisor, runtime,
                  outer, pending_raw, delivered, pending_actuation, status>>
  BY <1>1 DEF Dispatch, observing, control
<1>4. TypeOK'
  BY <1>1, <1>2, <1>3 DEF IInv, TypeOK
<1>5. CommitFollows'
  BY <1>2, <1>3 DEF IInv, CommitFollows
<1>6. ObservationOrder'
  BY <1>1, <1>3 DEF IInv, ObservationOrder, TypeOK, Indices, None
<1>7. CommandRemembered'
  BY <1>3 DEF IInv, CommandRemembered, Commanded, Running, Faulted, ClosedLoop
<1> QED BY <1>4, <1>5, <1>6, <1>7 DEF IInv

\* The commit gives the world what was pending.
LEMMA CommitActuationIInv ==
  ASSUME IInv, CommitActuation
  PROVE  IInv'
<1>1. /\ Dispatch("ActuationCommit") /\ UNCHANGED <<observing, supervisor, runtime, outer, consumed>>
      /\ pending_actuation' = NoActuation
  BY DEF CommitActuation
<1>2. /\ Running
      /\ slice' \in SUBSET EventKind
      /\ \A event \in queue' : event.kind = "ProductionRuntime" =>
           [at |-> event.at, kind |-> "ActuationCommit"] \in queue'
      /\ "ProductionRuntime" \in slice' => "ActuationCommit" \in slice'
  <2>1. "ActuationCommit" \in EventKind
    BY DEF EventKind
  <2> QED BY <1>1, <2>1, DispatchFacts
<1>3. UNCHANGED <<scenario, controller, now, queue, sensor_timing, supervisor, runtime,
                  outer, pending_raw, delivered, consumed>>
  BY <1>1 DEF Dispatch, observing
<1>4. NoActuation \in [kind : {"none", "apply", "revoke"}, effort : Indices]
  BY DEF NoActuation, NoEffort, Indices, None
<1>5. CommitFollows'
  BY <1>1, <1>2 DEF CommitFollows, NoActuation
<1>6. CASE pending_actuation.kind = "none"
  <2>1. status' = "ActuationCommitWithoutRuntime" /\ UNCHANGED <<world, count>>
    BY <1>6 DEF CommitActuation
  <2>2. TypeOK'
    BY <1>1, <1>2, <1>3, <1>4, <2>1 DEF IInv, TypeOK, ScheduleErrors
  <2> QED BY <1>3, <1>5, <2>1, <2>2 DEF IInv, ObservationOrder, CommandRemembered, Running
<1>7. CASE pending_actuation.kind # "none"
  <2>1. /\ world' = [world EXCEPT !.effort = pending_actuation.effort]
        /\ UNCHANGED status
        /\ count' \in [Counters -> Nat]
    BY <1>7, CountedType DEF CommitActuation, Actuate, IInv, TypeOK
  <2>2. /\ world' \in [time : Instant, next_index : Nat, effort : Indices]
        /\ world'.effort = pending_actuation.effort
        /\ world'.next_index = world.next_index
    BY <2>1 DEF IInv, TypeOK
  <2>3. TypeOK'
    BY <1>1, <1>2, <1>3, <1>4, <2>1, <2>2 DEF IInv, TypeOK
  <2>4. ObservationOrder'
    BY <1>3, <2>2 DEF IInv, ObservationOrder
  <2>5. CommandRemembered'
    BY <1>1, <1>2, <1>3, <1>7, <2>1, <2>2
    DEF IInv, CommandRemembered, Commanded, Running, NoActuation, Faulted, ClosedLoop
  <2> QED BY <1>5, <2>3, <2>4, <2>5 DEF IInv
<1> QED BY <1>6, <1>7

\* Every step preserves the invariant.
LEMMA StepIInv == IInv /\ [Next]_vars => IInv'
<1> SUFFICES ASSUME IInv, [Next]_vars PROVE IInv'
  OBVIOUS
<1>1. CASE UNCHANGED vars
  BY <1>1 DEF vars, scheduler, observing, control, IInv, TypeOK, CommitFollows, ObservationOrder,
     CommandRemembered, Commanded, Running, Faulted, ClosedLoop
<1>2. CASE Finish
  <2>1. status' = "finished" /\ UNCHANGED <<scenario, controller, now, queue, slice, world,
          sensor_timing, supervisor, runtime, outer, pending_raw, delivered, consumed,
          pending_actuation, count>>
    BY <1>2 DEF Finish, scheduler, observing, control
  <2> QED BY <2>1 DEF IInv, TypeOK, CommitFollows, ObservationOrder, CommandRemembered, Running
<1>3. CASE StartScenario \/ RefuseObservation \/ FailStep
  <2>1. count' \in [Counters -> Nat]
    BY <1>3 DEF StartScenario, RefuseObservation, FailStep, IInv, TypeOK
  <2>2. CASE StartScenario
    <3>1. "ScenarioStart" \in EventKind
      BY DEF EventKind
    <3> QED BY <2>1, <2>2, <3>1, EndingIInv DEF StartScenario
  <2>3. "ProductionRuntime" \in EventKind
    BY DEF EventKind
  <2>4. CASE RefuseObservation
    BY <2>1, <2>3, <2>4, EndingIInv DEF RefuseObservation, StarvationErrors
  <2>5. CASE FailStep
    BY <2>1, <2>3, <2>5, EndingIInv DEF FailStep
  <2> QED BY <1>3, <2>2, <2>4, <2>5
<1> QED BY <1>1, <1>2, <1>3, NextSliceIInv, SampleSensorIInv, DeliverObservationIInv,
           SkipUnreadyIInv, RunStepIInv, MissIInv, CommitActuationIInv
        DEF Next, Step, Over

\* The invariant that carries the safety properties below holds throughout.
THEOREM Invariance == Spec => []IInv
BY InitIInv, StepIInv, PTL DEF Spec

\* Every state of a run is well typed.
THEOREM TypeCorrect == Spec => []TypeOK
BY Invariance, PTL DEF IInv

-----------------------------------------------------------------------------
(* Safety                                                                   *)

\* The invariant implies that the estimator remembers what the plant got.
LEMMA IInvRemembered == IInv => RememberedInputApplied
BY DEF IInv, CommandRemembered, Commanded, RememberedInputApplied, NoActuation

\* Whatever was denied, skipped or missed: the estimator predicts with the input
\* the plant has really been given.
THEOREM RememberedInput == Spec => []RememberedInputApplied
BY Invariance, IInvRemembered, PTL

\* The invariant implies that a faulted run drives nothing between instants.
LEMMA IInvNeutral == IInv => FaultNeutralizes
BY DEF IInv, CommitFollows, CommandRemembered, Commanded, FaultNeutralizes, Settled

\* A fault is neutralized within the instant that latched it.
THEOREM FaultNeutral == Spec => []FaultNeutralizes
BY Invariance, IInvNeutral, PTL

\* Neither integrator winds up on a step that is denied, saturated or limited.
THEOREM IntegratorsHeld == Spec => NoWindup
<1>1. IInv /\ [Next]_vars =>
        [/\ runtime'.integral # runtime.integral =>
              ClosedLoop /\ supervisor'.state = "Balancing" /\ runtime'.applied = consumed'
         /\ outer'.integral # outer.integral =>
              ClosedLoop /\ supervisor'.state = "Balancing" /\ runtime'.applied = consumed']_vars
  <2> SUFFICES ASSUME IInv, Next
               PROVE  runtime'.integral # runtime.integral \/ outer'.integral # outer.integral =>
                        ClosedLoop /\ supervisor'.state = "Balancing"
                        /\ runtime'.applied = consumed'
    OBVIOUS
  <2>1. CASE RunStep
    <3>1. consumed' = delivered.index
      BY <2>1 DEF RunStep
    <3> QED BY <2>1, <3>1, RunStepFacts
  <2>2. CASE UNCHANGED <<runtime, outer>>
    BY <2>2
  <2> QED BY <2>1, <2>2
          DEF Next, Step, Over, vars, control, NextSlice, Finish, StartScenario, SampleSensor,
              DeliverObservation, RefuseObservation, SkipUnready, FailStep,
              MissRuntimeOpportunity, CommitActuation
<1> QED BY <1>1, Invariance, PTL DEF Spec, NoWindup

-----------------------------------------------------------------------------
(* A run implements ActuationGate.                                          *)

\* A run starts armed, with the loop open and nothing driven.
LEMMA GateInit == Init => Gate!Init
<1> SUFFICES ASSUME Init PROVE Gate!Init
  OBVIOUS
<1>1. supervisor.state = "CaptureWindow"
  BY DEF Init, NewSupervisor, BootComplete, HardwareCheckPassed, RequestBalance
<1>2. GateMode = "disarmed"
  BY <1>1 DEF GateMode, ClosedLoop, Faulted, ClosedLoopStates
<1>3. (world.effort # NoEffort) = FALSE
  BY DEF Init
<1> QED BY <1>2, <1>3 DEF Gate!Init

\* Only a step of the runtime changes the operating state, and only a commit
\* what is driven.
LEMMA GateStep == IInv /\ [Next]_vars => [Gate!Next]_(Gate!vars)
<1> SUFFICES ASSUME IInv, [Next]_vars PROVE [Gate!Next]_(Gate!vars)
  OBVIOUS
<1>1. CASE UNCHANGED <<supervisor, world.effort>>
  BY <1>1 DEF Gate!vars, GateMode, ClosedLoop, Faulted
<1>2. CASE RunStep
  <2>1. /\ Faulted => Faulted'
        /\ ClosedLoop => ClosedLoop' \/ Faulted'
        /\ world' = world
    BY <1>2, RunStepFacts DEF RunStep
  <2>2. /\ GateMode = "live" <=> ClosedLoop
        /\ GateMode = "latched" <=> Faulted
        /\ GateMode \in {"live", "latched", "disarmed"}
    BY DEF GateMode, ClosedLoop, Faulted, ClosedLoopStates
  <2>3. /\ GateMode' = "live" <=> ClosedLoop'
        /\ GateMode' = "latched" <=> Faulted'
        /\ GateMode' \in {"live", "latched", "disarmed"}
    BY DEF GateMode, ClosedLoop, Faulted, ClosedLoopStates
  <2>4. \/ GateMode' = GateMode
        \/ GateMode = "disarmed" /\ GateMode' = "live"
        \/ GateMode # "latched" /\ GateMode' = "latched"
    BY <2>1, <2>2, <2>3
  <2> QED BY <2>1, <2>4 DEF Gate!vars, Gate!Next, Gate!GoLive, Gate!Latch
<1>3. CASE CommitActuation
  <2>1. GateMode' = GateMode
    BY <1>3 DEF CommitActuation, GateMode, ClosedLoop, Faulted
  <2>2. CASE pending_actuation.kind = "none"
    BY <1>1, <1>3, <2>2 DEF CommitActuation
  <2>3. CASE pending_actuation.kind # "none"
    <3>1. world'.effort = pending_actuation.effort
      BY <1>3, <2>3 DEF CommitActuation, Actuate, IInv, TypeOK
    <3>2. Running
      BY <1>3 DEF CommitActuation, Dispatch
    <3>3. CASE pending_actuation.kind = "apply"
      <4>1. ClosedLoop /\ pending_actuation.effort # NoEffort
        BY <3>2, <3>3 DEF IInv, CommandRemembered, Commanded
      <4>2. GateMode = "live"
        BY <4>1 DEF GateMode, ClosedLoop, Faulted, ClosedLoopStates
      <4>3. world'.effort # NoEffort
        BY <3>1, <4>1
      <4>4. (world.effort # NoEffort)' = TRUE
        BY <4>3 DEF NoEffort
      <4> QED BY <2>1, <4>2, <4>4 DEF Gate!Next, Gate!Drive
    <3>4. CASE pending_actuation.kind = "revoke"
      <4>1. pending_actuation.effort = NoEffort
        BY <3>2, <3>4 DEF IInv, CommandRemembered, Commanded
      <4>2. (world.effort # NoEffort)' = FALSE
        BY <3>1, <4>1 DEF NoEffort
      <4> QED BY <2>1, <4>2 DEF Gate!Next, Gate!Neutralize
    <3> QED BY <2>3, <3>3, <3>4 DEF IInv, TypeOK
  <2> QED BY <2>2, <2>3
<1>4. CASE NextSlice \/ SampleSensor
  <2>1. supervisor' = supervisor /\ world'.effort = world.effort
    BY <1>4 DEF NextSlice, SampleSensor, AdvanceWorld, SampleWorld, control, IInv, TypeOK
  <2> QED BY <1>1, <2>1
<1>5. CASE UNCHANGED <<supervisor, world>>
  BY <1>1, <1>5
<1> QED BY <1>2, <1>3, <1>4, <1>5
        DEF Next, Step, Over, vars, control, Finish, StartScenario, DeliverObservation,
            RefuseObservation, SkipUnready, FailStep, MissRuntimeOpportunity

\* Refinement: the simulated actuators are driven only while the loop is closed.
THEOREM Refinement == Spec => ImplementsGate
BY GateInit, GateStep, Invariance, PTL DEF Spec, ImplementsGate, Gate!Spec

-----------------------------------------------------------------------------
(* The timetable: where the two grids of events and the counters stand.     *)

\* The first slice has been taken.
Begun == count["slices"] # 0

\* The kinds of event a scenario schedules for an instant.
Due(at) == {kind \in EventKind : at \in Instants(kind, scenario)}

\* Ahead lie the events later than now, and of the events of this instant
\* whatever comes after the first one left.
Timetable ==
  /\ world.time = now
  /\ ~Begun => now = 0 /\ slice = {} /\ queue = Schedule(scenario)
  /\ Begun => /\ now <= scenario.duration
              /\ queue = {event \in Schedule(scenario) : event.at > now}
              /\ slice \subseteq Due(now)
              /\ \A kind \in slice : \A other \in Due(now) :
                   Phase(kind) < Phase(other) => other \in slice

\* The next event of a period comes at a multiple of it: at this instant if it
\* is due and left, and else within the period ahead.
NextOnGrid(number, period, left) ==
  /\ left => now = number * period
  /\ ~left /\ Begun => now < number * period /\ number * period <= now + period
  /\ ~Begun => number = 0

Opportunities == count["steps"] + count["skipped"] + count["missed"]

\* Samples are taken, and opportunities of the runtime met, on their grids.
OnGrids ==
  /\ NextOnGrid(world.next_index, scenario.sensor_period, "SensorSample" \in slice)
  /\ NextOnGrid(Opportunities, scenario.runtime_period,
                "ProductionRuntime" \in slice \/ "RuntimeOpportunityMissed" \in slice)

\* A sample is pending only between the two sensor events of one instant, and
\* every sample before it has been delivered.
Delivering ==
  /\ pending_raw # NoSample <=>
       "ObservationDelivery" \in slice /\ "SensorSample" \notin slice
  /\ IF pending_raw = NoSample
     THEN delivered.index = world.next_index - 1
     ELSE /\ pending_raw = [index |-> world.next_index - 1, at |-> now]
          /\ now = (world.next_index - 1) * scenario.sensor_period
          /\ delivered.index = world.next_index - 2
  /\ delivered.index # None => delivered.at = delivered.index * scenario.sensor_period

\* An observation is unused as long as no opportunity has come after it.
Freshness ==
  delivered.index # None =>
    (Fresh <=> delivered.at > (Opportunities - 1) * scenario.runtime_period)

\* The counters account for each other.
Counting ==
  /\ count["samples"] = world.next_index
  /\ count["delivered"] = delivered.index + 1
  /\ Handled + Waiting <= count["delivered"]
  /\ scenario.sensor_period >= scenario.runtime_period =>
       Handled + Waiting = count["delivered"]
  /\ count["advances"] = IF Begun THEN count["slices"] - 1 ELSE 0
  /\ "ActuationCommit" \in slice /\ "ProductionRuntime" \notin slice <=>
       pending_actuation.kind # "none"
  /\ count["authorized"] + count["revoked"]
       + (IF pending_actuation.kind = "none" THEN 0 ELSE 1) = Admitted

\* The timing monitor saw every sample so far, and the loop is closed only on its
\* verdict.
Cadence ==
  /\ sensor_timing.seen <=> world.next_index > 0
  /\ sensor_timing.seen =>
       sensor_timing.reference = (world.next_index - 1) * scenario.sensor_period
  /\ sensor_timing.health = "Healthy" =>
       scenario.sensor_period < LATE_AFTER /\ sensor_timing.cadence_verified
  /\ ClosedLoopNeedsSensor

\* A run that ends by itself passes, and none ends out of order.
EndsWell ==
  /\ status \notin ScheduleErrors
  /\ scenario.sensor_period <= scenario.runtime_period => status \notin StarvationErrors
  /\ status = "finished" => Pass

TInv ==
  /\ IInv
  /\ Running => Timetable /\ OnGrids /\ Delivering /\ Freshness /\ Counting
  /\ Cadence /\ EndsWell

-----------------------------------------------------------------------------
(* Multiples of a period.                                                   *)

LEMMA MultiplesOnGrid ==
  ASSUME NEW k \in Nat, NEW p \in Nat \ {0}
  PROVE  (k * p) % p = 0
OBVIOUS

LEMMA GridIsMultiples ==
  ASSUME NEW x \in Nat, NEW p \in Nat \ {0}, x % p = 0
  PROVE  \E k \in Nat : x = k * p
BY SMTT(30)

\* In the period before a multiple of it only its end is on the grid.
LEMMA OnGridAtEnd ==
  ASSUME NEW x \in Nat, NEW p \in Nat \ {0}, NEW k \in Nat, (k - 1) * p < x, x <= k * p
  PROVE  x % p = 0 <=> x = k * p
<1>1. ASSUME x % p = 0 PROVE x = k * p
  <2>1. PICK q \in Nat : x = q * p
    BY <1>1, GridIsMultiples
  <2>2. (k - 1) * p < q * p /\ q * p <= k * p
    BY <2>1
  <2>3. q >= k
    <3>1. ASSUME q < k PROVE FALSE
      <4>1. q <= k - 1 /\ k - 1 \in Nat
        BY <3>1
      <4>2. q * p <= (k - 1) * p
        BY <4>1
      <4> QED BY <2>2, <4>2
    <3> QED BY <3>1
  <2> QED BY <2>1, <2>2, <2>3
<1> QED BY <1>1, MultiplesOnGrid

LEMMA MultipleBefore ==
  ASSUME NEW k \in Nat, NEW p \in Nat \ {0}
  PROVE  (k - 1) * p = k * p - p /\ k * p \in Nat
OBVIOUS

\* The number of periods in a duration.
LEMMA PeriodsIn ==
  ASSUME NEW d \in Nat, NEW p \in Nat \ {0}, NEW k \in Nat, k * p > d, k * p <= d + p
  PROVE  d \div p + 1 = k
<1>1. (k - 1) * p <= d /\ d < (k - 1) * p + p
  OBVIOUS
<1>2. k - 1 \in Nat
  OBVIOUS
<1> DEFINE j == k - 1
<1>3. d \div p = j
  <2>1. j \in Nat /\ j * p <= d /\ d < j * p + p
    BY <1>1, <1>2
  <2> HIDE DEF j
  <2> QED BY <2>1
<1> QED BY <1>3

\* From one instant to the next: if no multiple was passed, the next one is still
\* the next one, and it is reached exactly on the grid.
LEMMA GridAdvances ==
  ASSUME NEW k \in Nat, NEW p \in Nat \ {0}, NEW t \in Nat, NEW u \in Nat, NEW d \in Nat,
         t < u, u <= d, t < k * p, k * p <= t + p, k * p <= d => u <= k * p
  PROVE  /\ u % p = 0 <=> u = k * p
         /\ u % p # 0 => u < k * p
         /\ k * p <= u + p
<1>1. u <= k * p /\ (k - 1) * p < u /\ k * p <= u + p
  OBVIOUS
<1>2. u % p = 0 <=> u = k * p
  BY <1>1, OnGridAtEnd
<1>3. k * p \in Nat
  OBVIOUS
<1> QED BY <1>1, <1>2, <1>3

-----------------------------------------------------------------------------
(* The events of an instant.                                                *)

LEMMA PhaseFacts ==
  /\ Phase("ScenarioStart") = 0 /\ Phase("SensorSample") = 1
  /\ Phase("ObservationDelivery") = 2 /\ Phase("ProductionRuntime") = 3
  /\ Phase("RuntimeOpportunityMissed") = 3 /\ Phase("ActuationCommit") = 4
BY DEF Phase

\* Which kinds of event an instant has.
LEMMA DueFacts ==
  ASSUME scenario \in Scenarios, NEW at \in 0 .. scenario.duration
  PROVE  /\ "SensorSample" \in Due(at) <=> at % scenario.sensor_period = 0
         /\ "ObservationDelivery" \in Due(at) <=> at % scenario.sensor_period = 0
         /\ "ProductionRuntime" \in Due(at) \/ "RuntimeOpportunityMissed" \in Due(at) <=>
              at % scenario.runtime_period = 0
         /\ "ProductionRuntime" \in Due(at) <=> "ActuationCommit" \in Due(at)
         /\ ~("ProductionRuntime" \in Due(at) /\ "RuntimeOpportunityMissed" \in Due(at))
         /\ "ScenarioStart" \in Due(0)
<1>1. /\ Instants("SensorSample", scenario) = Grid(scenario.duration, scenario.sensor_period)
      /\ Instants("ObservationDelivery", scenario) =
           Grid(scenario.duration, scenario.sensor_period)
      /\ Instants("ProductionRuntime", scenario) =
           Grid(scenario.duration, scenario.runtime_period) \ scenario.missed
      /\ Instants("ActuationCommit", scenario) =
           Grid(scenario.duration, scenario.runtime_period) \ scenario.missed
      /\ Instants("RuntimeOpportunityMissed", scenario) =
           Grid(scenario.duration, scenario.runtime_period) \cap scenario.missed
      /\ Instants("ScenarioStart", scenario) = {0}
  BY DEF Instants
<1>2. {"SensorSample", "ObservationDelivery", "ProductionRuntime", "ActuationCommit",
       "RuntimeOpportunityMissed", "ScenarioStart"} \subseteq EventKind
  BY DEF EventKind
<1>3. \A kind \in EventKind : kind \in Due(at) <=> at \in Instants(kind, scenario)
  BY DEF Due
<1>4. at \in Grid(scenario.duration, scenario.sensor_period) <=> at % scenario.sensor_period = 0
  BY DEF Grid
<1>5. at \in Grid(scenario.duration, scenario.runtime_period) <=>
        at % scenario.runtime_period = 0
  BY DEF Grid
<1>6. /\ "SensorSample" \in Due(at) <=> at % scenario.sensor_period = 0
      /\ "ObservationDelivery" \in Due(at) <=> at % scenario.sensor_period = 0
  BY <1>1, <1>2, <1>3, <1>4
<1>7. /\ "ProductionRuntime" \in Due(at) <=>
           at % scenario.runtime_period = 0 /\ at \notin scenario.missed
      /\ "ActuationCommit" \in Due(at) <=>
           at % scenario.runtime_period = 0 /\ at \notin scenario.missed
      /\ "RuntimeOpportunityMissed" \in Due(at) <=>
           at % scenario.runtime_period = 0 /\ at \in scenario.missed
  BY <1>1, <1>2, <1>3, <1>5
<1>8. "ScenarioStart" \in Due(0)
  BY <1>1, <1>2 DEF Due
<1> QED BY <1>6, <1>7, <1>8

\* The types of what the timetable speaks of.
LEMMA Numbers ==
  ASSUME TypeOK
  PROVE  /\ scenario \in Scenarios /\ scenario.duration \in Nat
         /\ scenario.sensor_period \in Nat \ {0} /\ scenario.runtime_period \in Nat \ {0}
         /\ now \in Nat /\ world.next_index \in Nat
         /\ \A name \in Counters : count[name] \in Nat
         /\ Opportunities \in Nat /\ Handled \in Nat /\ Admitted \in Nat
         /\ Waiting \in {0, 1}
         /\ delivered.index \in Nat \cup {-1} /\ consumed \in Nat \cup {-1}
         /\ pending_raw.index \in Nat \cup {-1}
<1>1. scenario \in Scenarios /\ scenario.duration \in 0 .. MaxDuration
      /\ scenario.sensor_period \in SensorPeriods /\ scenario.runtime_period \in RuntimePeriods
  BY DEF TypeOK, Scenarios
<1>2. \A name \in Counters : count[name] \in Nat
  BY DEF TypeOK
<1>3. Opportunities \in Nat /\ Handled \in Nat /\ Admitted \in Nat
  BY <1>2 DEF Opportunities, Handled, Admitted, Counters
<1>4. /\ now \in Nat /\ world.next_index \in Nat
      /\ delivered.index \in Nat \cup {-1} /\ consumed \in Nat \cup {-1}
      /\ pending_raw.index \in Nat \cup {-1}
  BY DEF TypeOK, Instant, Indices, None
<1>5. Waiting \in {0, 1}
  BY DEF Waiting
<1>6. /\ scenario \in Scenarios /\ scenario.duration \in Nat
      /\ scenario.sensor_period \in Nat \ {0} /\ scenario.runtime_period \in Nat \ {0}
  <2>1. 0 .. MaxDuration \subseteq Nat
    BY SitlScenarioBounds
  <2> QED BY <1>1, <2>1, SitlScenarioBounds
<1> QED BY <1>2, <1>3, <1>4, <1>5, <1>6

\* What counting does to each counter.
LEMMA CountedFacts ==
  ASSUME NEW counters, count' = Counted(counters), NEW name \in Counters
  PROVE  count'[name] = IF name \in counters THEN count[name] + 1 ELSE count[name]
BY DEF Counted

\* The schedule has just the events that are due.
LEMMA ScheduleDue ==
  ASSUME scenario \in Scenarios
  PROVE  /\ \A event \in Schedule(scenario) :
              event.at \in 0 .. scenario.duration /\ event.kind \in Due(event.at)
         /\ \A at \in 0 .. scenario.duration : \A kind \in Due(at) :
              [at |-> at, kind |-> kind] \in Schedule(scenario)
BY DEF Schedule, Due

\* A new slice holds all the events of the earliest instant with any.
LEMMA NextSliceTimes ==
  ASSUME TInv, NextSlice
  PROVE  /\ Running /\ slice = {} /\ Timetable
         /\ now' \in 0 .. scenario.duration /\ slice' = Due(now')
         /\ queue' = {event \in Schedule(scenario) : event.at > now'}
         /\ Begun => /\ now' > now
                     /\ \A at \in 0 .. scenario.duration :
                          at > now /\ Due(at) # {} => now' <= at
         /\ ~Begun => now' = 0
<1>1. PICK first \in queue :
        (\A event \in queue : first.at <= event.at) /\ TakeSlice(first.at)
  BY DEF NextSlice
<1>2. Running /\ slice = {} /\ Timetable /\ scenario \in Scenarios /\ now \in Nat
      /\ scenario.duration \in Nat
  BY Numbers DEF NextSlice, TInv, IInv
<1>3. queue \subseteq Schedule(scenario)
  BY <1>2 DEF Timetable
<1>4. first.at \in 0 .. scenario.duration
  BY <1>1, <1>2, <1>3, ScheduleDue
<1>5. /\ now' = first.at
      /\ slice' = {event.kind : event \in {e \in queue : e.at = first.at}}
      /\ queue' = {event \in queue : event.at # first.at}
  BY <1>1 DEF TakeSlice
<1>6. Begun => /\ first.at > now
               /\ \A at \in 0 .. scenario.duration : at > now /\ Due(at) # {} => first.at <= at
  <2> SUFFICES ASSUME Begun
               PROVE  /\ first.at > now
                      /\ \A at \in 0 .. scenario.duration :
                           at > now /\ Due(at) # {} => first.at <= at
    OBVIOUS
  <2>1. queue = {event \in Schedule(scenario) : event.at > now}
    BY <1>2 DEF Timetable
  <2>2. ASSUME NEW at \in 0 .. scenario.duration, at > now, Due(at) # {}
        PROVE  first.at <= at
    <3>1. PICK kind \in Due(at) : [at |-> at, kind |-> kind] \in Schedule(scenario)
      BY <1>2, <2>2, ScheduleDue
    <3>2. [at |-> at, kind |-> kind] \in queue
      BY <2>1, <2>2, <3>1
    <3> QED BY <1>1, <3>2
  <2> QED BY <1>1, <2>1, <2>2
<1>7. ~Begun => queue = Schedule(scenario) /\ first.at = 0
  <2> SUFFICES ASSUME ~Begun PROVE queue = Schedule(scenario) /\ first.at = 0
    OBVIOUS
  <2>1. queue = Schedule(scenario)
    BY <1>2 DEF Timetable
  <2>2. 0 \in 0 .. scenario.duration /\ "ScenarioStart" \in Due(0)
    BY <1>2, DueFacts
  <2>3. [at |-> 0, kind |-> "ScenarioStart"] \in queue
    BY <1>2, <2>1, <2>2, ScheduleDue
  <2>4. first.at <= 0
    BY <1>1, <2>3
  <2> QED BY <1>4, <2>1, <2>4
<1>8. slice' = Due(now')
  <2>1. \A e \in queue : e.at = first.at => e.kind \in Due(first.at)
    BY <1>2, <1>3, ScheduleDue
  <2>2. \A kind \in Due(first.at) : [at |-> first.at, kind |-> kind] \in queue
    <3>1. \A kind \in Due(first.at) : [at |-> first.at, kind |-> kind] \in Schedule(scenario)
      BY <1>2, <1>4, ScheduleDue
    <3> QED BY <1>2, <1>6, <1>7, <3>1 DEF Timetable
  <2>3. slice' = Due(first.at)
    <3>1. \A kind \in slice' : kind \in Due(first.at)
      BY <1>5, <2>1
    <3>2. ASSUME NEW kind \in Due(first.at) PROVE kind \in slice'
      <4>1. [at |-> first.at, kind |-> kind] \in {e \in queue : e.at = first.at}
        BY <2>2
      <4>2. [at |-> first.at, kind |-> kind].kind = kind
        OBVIOUS
      <4> QED BY <1>5, <4>1, <4>2
    <3> QED BY <3>1, <3>2
  <2> QED BY <1>5, <2>3
<1>9. queue' = {event \in Schedule(scenario) : event.at > now'}
  <2>1. \A event \in queue : event.at \in Nat /\ first.at <= event.at
    BY <1>1, <1>2, <1>3, ScheduleDue
  <2>2. \A event \in Schedule(scenario) : event.at > first.at => event \in queue
    BY <1>2, <1>4, <1>6, <1>7, ScheduleDue DEF Timetable
  <2>3. \A event \in queue : event.at # first.at <=> event.at > first.at
    BY <1>4, <2>1
  <2> QED BY <1>3, <1>5, <2>2, <2>3
<1> QED BY <1>2, <1>4, <1>5, <1>6, <1>7, <1>8, <1>9

\* Across an instant's boundary the next event of a period stays the next one.
LEMMA NextOnGridAdvances ==
  ASSUME TInv, NextSlice, NEW number \in Nat, NEW period \in Nat \ {0},
         NextOnGrid(number, period, FALSE),
         \A at \in 0 .. scenario.duration : at % period = 0 => Due(at) # {}
  PROVE  /\ now' % period = 0 => now' = number * period
         /\ now' % period # 0 => now' < number * period /\ number * period <= now' + period
<1>1. now \in Nat /\ scenario.duration \in Nat /\ now' \in 0 .. scenario.duration
  BY Numbers, NextSliceTimes DEF TInv, IInv
<1>2. CASE Begun
  <2>1. now < now' /\ now < number * period /\ number * period <= now + period
    BY <1>2, NextSliceTimes DEF NextOnGrid
  <2>2. number * period <= scenario.duration => now' <= number * period
    <3>1. number * period \in Nat /\ (number * period) % period = 0
      BY MultiplesOnGrid
    <3> QED BY <1>1, <1>2, <2>1, <3>1, NextSliceTimes
  <2>3. now' \in Nat /\ now' <= scenario.duration
    BY <1>1
  <2>4. /\ now' % period = 0 <=> now' = number * period
        /\ now' % period # 0 => now' < number * period
        /\ number * period <= now' + period
    BY <1>1, <2>1, <2>2, <2>3, GridAdvances
  <2> QED BY <2>4
<1>3. CASE ~Begun
  <2>1. now' = 0 /\ number = 0
    BY <1>3, NextSliceTimes DEF NextOnGrid
  <2>2. (0 * period) % period = 0 /\ 0 * period = 0
    BY MultiplesOnGrid
  <2> QED BY <2>1, <2>2
<1> QED BY <1>2, <1>3

LEMMA NextSliceTInv ==
  ASSUME TInv, NextSlice
  PROVE  TInv'
<1>1. PICK first \in queue : TakeSlice(first.at) /\ AdvanceWorld(first.at)
  BY DEF NextSlice
<1>2. /\ UNCHANGED <<scenario, sensor_timing, pending_raw, delivered, supervisor,
                     pending_actuation, consumed>>
      /\ now' = first.at /\ world'.next_index = world.next_index
  BY <1>1 DEF NextSlice, observing, control, TakeSlice, AdvanceWorld, TInv, IInv, TypeOK
<1>3. IInv'
  BY StepIInv DEF TInv, Next, Step
<1>4. Cadence'
  BY <1>2 DEF TInv, Cadence, ClosedLoopNeedsSensor, ClosedLoop
<1>5. status' \in {"running", "PhysicalAdvance"}
  BY <1>1 DEF NextSlice, AdvanceWorld, Running
<1>6. EndsWell'
  BY <1>5 DEF EndsWell, ScheduleErrors, StarvationErrors
<1>7. CASE status' = "PhysicalAdvance"
  BY <1>3, <1>4, <1>6, <1>7 DEF TInv, Running
<1>8. CASE status' = "running"
  <2>1. /\ Timetable /\ OnGrids /\ Delivering /\ Freshness /\ Counting
        /\ Running /\ slice = {} /\ slice' = Due(now') /\ now' \in 0 .. scenario.duration
    BY NextSliceTimes DEF TInv
  <2>2. /\ count' = Counted({"slices"}) \/ count' = Counted({"slices", "advances"})
        /\ world'.time = now'
        /\ count' = Counted({"slices", "advances"}) <=> now' > now
    <3>1. first.at \in Nat /\ now \in Nat
      BY <1>2, <2>1, Numbers DEF TInv, IInv
    <3>2. "slices" \in Counters /\ "advances" \in Counters
      BY DEF Counters
    <3>3. Counted({"slices"}) # Counted({"slices", "advances"})
      <4>1. count["advances"] \in Nat
        BY <3>2, Numbers DEF TInv, IInv
      <4> QED BY <3>2, <4>1 DEF Counted
    <3>4. world.time = now /\ world \in [time : Instant, next_index : Nat, effort : Indices]
      BY <2>1 DEF Timetable, TInv, IInv, TypeOK
    <3> QED BY <1>1, <1>2, <1>8, <3>1, <3>3, <3>4 DEF AdvanceWorld, Running
  <2>3. /\ count'["slices"] = count["slices"] + 1 /\ count["slices"] \in Nat
        /\ count'["advances"] = IF now' > now THEN count["advances"] + 1 ELSE count["advances"]
        /\ \A name \in Counters \ {"slices", "advances"} : count'[name] = count[name]
    <3>1. "slices" \in Counters /\ "advances" \in Counters
      BY DEF Counters
    <3> QED BY <2>2, <3>1, CountedFacts, Numbers DEF TInv, IInv
  <2>4. Opportunities' = Opportunities /\ Handled' = Handled /\ Admitted' = Admitted
        /\ Waiting' = Waiting /\ Fresh' = Fresh
    BY <1>2, <2>3 DEF Opportunities, Handled, Admitted, Waiting, Fresh, Counters
  <2>5. Begun'
    BY <2>3 DEF Begun
  <2>6. Timetable'
    <3>1. queue' = {event \in Schedule(scenario) : event.at > now'}
      BY NextSliceTimes
    <3> QED BY <1>2, <2>1, <2>2, <2>5, <3>1 DEF Timetable, Due
  <2>7. /\ scenario \in Scenarios /\ world.next_index \in Nat /\ Opportunities \in Nat
        /\ scenario.sensor_period \in Nat \ {0} /\ scenario.runtime_period \in Nat \ {0}
    BY Numbers DEF TInv, IInv
  <2>8. /\ "SensorSample" \in slice' <=> now' % scenario.sensor_period = 0
        /\ "ObservationDelivery" \in slice' <=> now' % scenario.sensor_period = 0
        /\ "ProductionRuntime" \in slice' \/ "RuntimeOpportunityMissed" \in slice' <=>
             now' % scenario.runtime_period = 0
        /\ "ProductionRuntime" \in slice' <=> "ActuationCommit" \in slice'
    BY <2>1, <2>7, DueFacts
  <2>9. OnGrids'
    <3>1. /\ NextOnGrid(world.next_index, scenario.sensor_period, FALSE)
          /\ NextOnGrid(Opportunities, scenario.runtime_period, FALSE)
      BY <2>1 DEF OnGrids, NextOnGrid
    <3>2. \A at \in 0 .. scenario.duration :
            at % scenario.sensor_period = 0 \/ at % scenario.runtime_period = 0 => Due(at) # {}
      BY <2>7, DueFacts
    <3>3. /\ now' % scenario.sensor_period = 0 =>
               now' = world.next_index * scenario.sensor_period
          /\ now' % scenario.sensor_period # 0 =>
               /\ now' < world.next_index * scenario.sensor_period
               /\ world.next_index * scenario.sensor_period <= now' + scenario.sensor_period
      BY <2>7, <3>1, <3>2, NextOnGridAdvances
    <3>4. /\ now' % scenario.runtime_period = 0 =>
               now' = Opportunities * scenario.runtime_period
          /\ now' % scenario.runtime_period # 0 =>
               /\ now' < Opportunities * scenario.runtime_period
               /\ Opportunities * scenario.runtime_period <= now' + scenario.runtime_period
      BY <2>7, <3>1, <3>2, NextOnGridAdvances
    <3> QED BY <1>2, <2>4, <2>5, <2>8, <3>3, <3>4 DEF OnGrids, NextOnGrid
  <2>10. Delivering'
    <3>1. pending_raw = NoSample
      BY <2>1 DEF Delivering
    <3> QED BY <1>2, <2>1, <2>8, <3>1 DEF Delivering
  <2>11. Freshness'
    BY <1>2, <2>1, <2>4 DEF Freshness
  <2>12. Counting'
    <3>1. pending_actuation.kind = "none"
      BY <2>1 DEF Counting
    <3>2. count'["advances"] = count'["slices"] - 1
      <4>1. now' > now <=> Begun
        BY NextSliceTimes DEF Timetable
      <4> QED BY <2>1, <2>3, <4>1 DEF Counting, Begun
    <3>3. \A name \in {"samples", "delivered", "authorized", "revoked"} :
            count'[name] = count[name]
      BY <2>3 DEF Counters
    <3> QED BY <1>2, <2>1, <2>4, <2>5, <2>8, <3>1, <3>2, <3>3 DEF Counting
  <2> QED BY <1>3, <1>4, <1>6, <2>6, <2>9, <2>10, <2>11, <2>12 DEF TInv
<1> QED BY <1>5, <1>7, <1>8

\* An event that is dispatched is the first one left of its instant, and the
\* timetable stays.
LEMMA TimetableKept ==
  ASSUME TInv, NEW kind \in EventKind, Dispatch(kind), count'["slices"] = count["slices"],
         world'.time = world.time
  PROVE  /\ Running /\ Begun /\ Begun' /\ Timetable' /\ UNCHANGED <<scenario, now, queue>>
         /\ now \in 0 .. scenario.duration /\ kind \in Due(now)
         /\ kind \in slice /\ slice' = slice \ {kind}
         /\ \A other \in slice : Phase(kind) <= Phase(other)
         /\ \A other \in Due(now) : Phase(kind) < Phase(other) => other \in slice'
<1>1. /\ Running /\ kind \in slice /\ slice' = slice \ {kind}
      /\ \A other \in slice : Phase(kind) <= Phase(other)
      /\ UNCHANGED <<scenario, now, queue>>
  BY DEF Dispatch
<1>2. Timetable /\ now \in Nat /\ scenario.duration \in Nat
  BY <1>1, Numbers DEF TInv, IInv
<1>3. Begun
  BY <1>1, <1>2 DEF Timetable
<1>4. /\ slice \subseteq Due(now) /\ now <= scenario.duration
      /\ \A k \in slice : \A other \in Due(now) : Phase(k) < Phase(other) => other \in slice
  BY <1>2, <1>3 DEF Timetable
<1>5. \A other \in Due(now) : Phase(kind) < Phase(other) => other \in slice'
  <2>1. Phase(kind) \in Int
    BY PhaseFacts DEF EventKind
  <2>2. \A other \in Due(now) : Phase(kind) < Phase(other) => other \in slice /\ other # kind
    BY <1>1, <1>4, <2>1
  <2> QED BY <1>1, <2>2
<1>6. Begun'
  BY <1>3 DEF Begun
<1>7. \A k \in slice' : \A other \in Due(now) : Phase(k) < Phase(other) => other \in slice'
  <2> SUFFICES ASSUME NEW k \in slice', NEW other \in Due(now), Phase(k) < Phase(other)
               PROVE  other \in slice'
    OBVIOUS
  <2>1. k \in slice /\ other \in slice /\ Phase(kind) <= Phase(k)
    BY <1>1, <1>4
  <2>2. k \in EventKind /\ other \in EventKind
    BY <1>4, <2>1 DEF Due
  <2>3. Phase(kind) \in Int /\ Phase(k) \in Int /\ Phase(other) \in Int
    BY <2>2, PhaseFacts DEF EventKind
  <2>4. Phase(kind) < Phase(other)
    BY <2>1, <2>3
  <2> QED BY <1>5, <2>4
<1>8. Timetable'
  <2>1. world'.time = now
    BY <1>2 DEF Timetable
  <2> QED BY <1>1, <1>2, <1>3, <1>4, <1>6, <1>7, <2>1 DEF Timetable, Due
<1> QED BY <1>1, <1>2, <1>3, <1>4, <1>5, <1>6, <1>8

\* The kinds that are due together, and the order they come in.
LEMMA DispatchOrder ==
  ASSUME TInv, Running, Begun
  PROVE  /\ "SensorSample" \in slice => "ObservationDelivery" \in slice
         /\ "SensorSample" \in Due(now) <=> "ObservationDelivery" \in Due(now)
         /\ "ProductionRuntime" \in slice => "RuntimeOpportunityMissed" \notin slice
         /\ "ProductionRuntime" \in Due(now) \/ "RuntimeOpportunityMissed" \in Due(now) <=>
              now % scenario.runtime_period = 0
<1>1. Timetable /\ scenario \in Scenarios /\ now \in 0 .. scenario.duration
  BY Numbers DEF TInv, IInv, Timetable
<1>2. slice \subseteq Due(now)
  BY <1>1 DEF Timetable
<1>3. "SensorSample" \in slice => "ObservationDelivery" \in slice
  BY <1>1, <1>2, DueFacts, PhaseFacts DEF Timetable
<1> QED BY <1>1, <1>2, <1>3, DueFacts

\* The monitor's verdicts, where it is not fed.
LEMMA CadenceKept ==
  ASSUME TInv, UNCHANGED <<scenario, sensor_timing>>, world'.next_index = world.next_index,
         ClosedLoop' => ClosedLoop \/ sensor_timing.health = "Healthy"
  PROVE  Cadence'
BY DEF TInv, Cadence, ClosedLoopNeedsSensor, ClosedLoop

\* A handler that ends the run.
LEMMA EndingTInv ==
  ASSUME TInv, IInv', UNCHANGED <<scenario, sensor_timing>>,
         world'.next_index = world.next_index,
         ClosedLoop' => ClosedLoop \/ sensor_timing.health = "Healthy",
         status' \in {"EncoderRejected"} \cup NumericalErrors \cup StarvationErrors,
         scenario.sensor_period <= scenario.runtime_period => status' \notin StarvationErrors
  PROVE  TInv'
<1>1. EndsWell'
  BY DEF EndsWell, ScheduleErrors, StarvationErrors, NumericalErrors
<1>2. ~Running'
  BY DEF Running, NumericalErrors, StarvationErrors
<1> QED BY <1>1, <1>2, CadenceKept DEF TInv

\* The marker of the start.
LEMMA StartScenarioTInv ==
  ASSUME TInv, StartScenario
  PROVE  TInv'
<1>1. /\ Dispatch("ScenarioStart") /\ "ScenarioStart" \in EventKind
      /\ UNCHANGED <<status, world, sensor_timing, pending_raw, delivered, supervisor, runtime,
                     outer, pending_actuation, consumed, count>>
  BY DEF StartScenario, EventKind, observing, control
<1>2. IInv'
  BY StepIInv DEF TInv, Next, Step, StartScenario
<1>3. /\ Running /\ Begun /\ Begun' /\ Timetable' /\ UNCHANGED <<scenario, now, queue>>
      /\ slice' = slice \ {"ScenarioStart"}
  BY <1>1, TimetableKept
<1>4. OnGrids' /\ Delivering' /\ Freshness' /\ Counting'
  BY <1>1, <1>3 DEF TInv, OnGrids, NextOnGrid, Opportunities, Delivering, Freshness, Fresh,
                    Counting, Handled, Waiting, Admitted
<1>5. Cadence'
  BY <1>1, <1>3, CadenceKept DEF ClosedLoop
<1>6. EndsWell'
  BY <1>1, <1>3 DEF TInv, EndsWell, Running
<1> QED BY <1>2, <1>3, <1>4, <1>5, <1>6 DEF TInv

\* No sample can be pending when the next one is taken.
LEMMA SampleSensorTInv ==
  ASSUME TInv, SampleSensor
  PROVE  TInv'
<1>1. /\ Dispatch("SensorSample") /\ "SensorSample" \in EventKind
      /\ UNCHANGED <<scenario, delivered, supervisor, pending_actuation, consumed, now, queue>>
      /\ Running /\ "SensorSample" \in slice
  BY DEF SampleSensor, EventKind, observing, control, Dispatch
<1>2. IInv'
  BY StepIInv DEF TInv, Next, Step
<1>3. /\ OnGrids /\ Delivering /\ Freshness /\ Counting
      /\ pending_raw = NoSample
  BY <1>1 DEF TInv, Delivering
<1>4. CASE status' = "World" /\ UNCHANGED <<world, observing, count>>
  BY <1>1, <1>2, <1>4, EndingTInv DEF observing, ClosedLoop, NumericalErrors, StarvationErrors
<1>5. CASE /\ SampleWorld /\ sensor_timing' = OnEvent(sensor_timing, now)
           /\ count' = Counted({"samples"}) /\ UNCHANGED status
  <2>1. /\ now \in Nat /\ world.next_index \in Nat /\ scenario.sensor_period \in Nat \ {0}
        /\ Opportunities \in Nat /\ scenario.runtime_period \in Nat \ {0}
        /\ delivered.index \in Nat \cup {-1}
    BY Numbers DEF TInv, IInv
  <2>2. /\ pending_raw' = [index |-> world.next_index, at |-> now]
        /\ world'.next_index = world.next_index + 1 /\ world'.time = world.time
    BY <1>5 DEF SampleWorld, TInv, IInv, TypeOK
  <2>3. /\ count'["samples"] = count["samples"] + 1
        /\ \A name \in Counters \ {"samples"} : count'[name] = count[name]
        /\ count'["slices"] = count["slices"]
    BY <1>5, CountedFacts DEF Counters
  <2>4. /\ Begun /\ Begun' /\ Timetable' /\ slice' = slice \ {"SensorSample"}
        /\ "ObservationDelivery" \in slice
    BY <1>1, <2>2, <2>3, TimetableKept, DispatchOrder
  <2>5. /\ Opportunities' = Opportunities /\ Handled' = Handled /\ Admitted' = Admitted
        /\ Waiting' = Waiting /\ Fresh' = Fresh
    BY <1>1, <2>3 DEF Opportunities, Handled, Admitted, Waiting, Fresh, Counters
  <2>6. now = world.next_index * scenario.sensor_period
    BY <1>1, <1>3 DEF OnGrids, NextOnGrid
  <2>7. OnGrids'
    <3>1. /\ now < (world.next_index + 1) * scenario.sensor_period
          /\ (world.next_index + 1) * scenario.sensor_period <= now + scenario.sensor_period
      BY <2>1, <2>6
    <3> QED BY <1>1, <1>3, <2>2, <2>4, <2>5, <3>1 DEF OnGrids, NextOnGrid
  <2>8. Delivering'
    <3>1. pending_raw' # NoSample
      BY <2>1, <2>2 DEF NoSample, None
    <3>2. /\ world'.next_index - 1 = world.next_index
          /\ world'.next_index - 2 = world.next_index - 1
      BY <2>1, <2>2
    <3> QED BY <1>1, <1>3, <2>2, <2>4, <2>6, <3>1, <3>2 DEF Delivering
  <2>9. Freshness'
    BY <1>1, <1>3, <2>5 DEF Freshness
  <2>10. Counting'
    <3>1. \A name \in {"delivered", "authorized", "revoked", "slices", "advances"} :
            count'[name] = count[name]
      BY <2>3 DEF Counters
    <3>2. count'["samples"] = world'.next_index
      BY <1>3, <2>2, <2>3 DEF Counting
    <3> QED BY <1>1, <1>3, <2>4, <2>5, <3>1, <3>2 DEF Counting, Begun
  <2>11. Cadence'
    <3> DEFINE before == world.next_index - 1
    <3>1. /\ sensor_timing'.seen /\ sensor_timing'.reference = now
          /\ sensor_timing'.cadence_verified <=>
               sensor_timing.cadence_verified \/ sensor_timing.seen
          /\ sensor_timing'.health = IF sensor_timing.seen
               THEN ClassifyElapsed(SaturatingSub(now, sensor_timing.reference))
               ELSE "Startup"
      BY <1>5 DEF OnEvent, TInv, IInv, TypeOK, Monitors
    <3>2. sensor_timing.seen =>
            SaturatingSub(now, sensor_timing.reference) = scenario.sensor_period
      <4>1. ASSUME sensor_timing.seen
            PROVE  /\ sensor_timing.reference = before * scenario.sensor_period
                   /\ now - before * scenario.sensor_period = scenario.sensor_period
                   /\ now >= before * scenario.sensor_period
        BY <2>1, <2>6, <4>1 DEF TInv, Cadence
      <4> QED BY <4>1 DEF SaturatingSub
    <3>3. sensor_timing'.health = "Healthy" =>
            scenario.sensor_period < LATE_AFTER /\ sensor_timing'.cadence_verified
      BY <2>1, <3>1, <3>2 DEF ClassifyElapsed
    <3>4. world'.next_index > 0 /\ world'.next_index - 1 = world.next_index
      BY <2>1, <2>2
    <3>5. ClosedLoopNeedsSensor'
      BY <1>1, <3>1 DEF TInv, Cadence, ClosedLoopNeedsSensor, ClosedLoop
    <3> QED BY <1>1, <2>6, <3>1, <3>3, <3>4, <3>5 DEF Cadence
  <2>12. EndsWell'
    BY <1>1, <1>5 DEF TInv, EndsWell, Running
  <2> QED BY <1>2, <2>4, <2>7, <2>8, <2>9, <2>10, <2>11, <2>12 DEF TInv
<1> QED BY <1>3, <1>4, <1>5 DEF SampleSensor

\* A delivery finds the sample of its instant, and on a sensor that is not the
\* faster one, every observation before it handled.
LEMMA DeliverObservationTInv ==
  ASSUME TInv, DeliverObservation
  PROVE  TInv'
<1>1. /\ Dispatch("ObservationDelivery") /\ "ObservationDelivery" \in EventKind
      /\ UNCHANGED <<scenario, world, sensor_timing, supervisor, pending_actuation, consumed,
                     now, queue>>
      /\ Running /\ "ObservationDelivery" \in slice
  BY DEF DeliverObservation, EventKind, observing, control, Dispatch
<1>2. IInv'
  BY StepIInv DEF TInv, Next, Step
<1>3. OnGrids /\ Delivering /\ Freshness /\ Counting
  BY <1>1 DEF TInv
<1>4. "SensorSample" \notin slice
  BY <1>1, PhaseFacts DEF Dispatch
<1>5. /\ pending_raw # NoSample
      /\ delivered'.index = pending_raw.index /\ delivered'.at = pending_raw.at
      /\ pending_raw' = NoSample /\ count' = Counted({"delivered"}) /\ UNCHANGED status
  BY <1>1, <1>3, <1>4 DEF DeliverObservation, Delivering
<1>6. /\ now \in Nat /\ world.next_index \in Nat /\ scenario.sensor_period \in Nat \ {0}
      /\ Opportunities \in Nat /\ scenario.runtime_period \in Nat \ {0}
      /\ delivered.index \in Nat \cup {-1} /\ consumed \in Nat \cup {-1}
      /\ Handled \in Nat /\ Waiting \in {0, 1} /\ \A name \in Counters : count[name] \in Nat
  BY Numbers DEF TInv, IInv
<1>7. /\ count'["delivered"] = count["delivered"] + 1
      /\ \A name \in Counters \ {"delivered"} : count'[name] = count[name]
      /\ count'["slices"] = count["slices"]
  BY <1>5, CountedFacts DEF Counters
<1>8. /\ Begun /\ Begun' /\ Timetable' /\ slice' = slice \ {"ObservationDelivery"}
      /\ \A other \in Due(now) : Phase("ObservationDelivery") < Phase(other) => other \in slice'
  BY <1>1, <1>7, TimetableKept
<1>9. /\ Opportunities' = Opportunities /\ Handled' = Handled /\ Admitted' = Admitted
  BY <1>1, <1>7 DEF Opportunities, Handled, Admitted, Counters
<1>10. /\ delivered'.index = world.next_index - 1 /\ delivered'.at = now
       /\ now = (world.next_index - 1) * scenario.sensor_period
       /\ delivered.index = world.next_index - 2
  BY <1>3, <1>5 DEF Delivering
<1>11. delivered'.index # None
  BY <1>6, <1>10 DEF None
<1>12. OnGrids'
  BY <1>1, <1>3, <1>8, <1>9 DEF OnGrids, NextOnGrid
<1>13. Delivering'
  BY <1>1, <1>5, <1>8, <1>10 DEF Delivering
<1> DEFINE ahead == Opportunities * scenario.runtime_period
<1>14. (Opportunities - 1) * scenario.runtime_period = ahead - scenario.runtime_period
       /\ ahead \in Nat
  BY <1>6, MultipleBefore
<1>15. now <= ahead /\ ahead < now + scenario.runtime_period
  <2>1. CASE "ProductionRuntime" \in slice \/ "RuntimeOpportunityMissed" \in slice
    BY <1>3, <1>6, <2>1 DEF OnGrids, NextOnGrid
  <2>2. CASE ~("ProductionRuntime" \in slice \/ "RuntimeOpportunityMissed" \in slice)
    <3>1. now < ahead /\ ahead <= now + scenario.runtime_period
      BY <1>3, <1>8, <2>2 DEF OnGrids, NextOnGrid
    <3>2. now % scenario.runtime_period # 0
      BY <1>1, <1>8, <2>2, PhaseFacts, DispatchOrder
    <3>3. ahead # now + scenario.runtime_period
      <4>1. ASSUME ahead = now + scenario.runtime_period PROVE FALSE
        <5>1. now = (Opportunities - 1) * scenario.runtime_period
          BY <1>6, <1>14, <4>1
        <5>2. Opportunities - 1 \in Nat
          <6>1. ASSUME Opportunities = 0 PROVE FALSE
            BY <1>6, <3>1, <6>1
          <6> QED BY <1>6, <6>1
        <5> QED BY <1>6, <3>2, <5>1, <5>2, MultiplesOnGrid
      <4> QED BY <4>1
    <3> HIDE DEF ahead
    <3> QED BY <1>6, <1>14, <3>1, <3>3
  <2> QED BY <2>1, <2>2
<1>16. Fresh'
  <2>1. consumed <= delivered.index
    BY DEF TInv, IInv, ObservationOrder
  <2>2. delivered'.index # consumed
    BY <1>6, <1>10, <2>1
  <2> QED BY <1>1, <1>11, <2>2 DEF Fresh
<1>17. Freshness'
  <2>1. delivered'.at > ahead - scenario.runtime_period
    <3> HIDE DEF ahead
    <3> QED BY <1>6, <1>10, <1>14, <1>15
  <2> QED BY <1>1, <1>9, <1>14, <1>16, <2>1 DEF Freshness
<1>18. scenario.sensor_period >= scenario.runtime_period => Waiting = 0
  <2> SUFFICES ASSUME scenario.sensor_period >= scenario.runtime_period, Fresh PROVE FALSE
    BY DEF Waiting
  <2>1. delivered.index # None /\ delivered.at > ahead - scenario.runtime_period
    BY <1>3, <1>14 DEF Fresh, Freshness
  <2>2. delivered.at = delivered.index * scenario.sensor_period
    BY <1>3, <2>1 DEF Delivering
  <2>3. delivered.at = now - scenario.sensor_period
    BY <1>6, <1>10, <2>2
  <2> HIDE DEF ahead
  <2> QED BY <1>6, <1>14, <1>15, <2>1, <2>3
<1>19. Counting'
  <2>1. Waiting' = 1
    BY <1>16 DEF Waiting
  <2>2. /\ Handled' + Waiting' <= count'["delivered"]
        /\ scenario.sensor_period >= scenario.runtime_period =>
             Handled' + Waiting' = count'["delivered"]
    <3>1. count["delivered"] \in Nat
      BY <1>6 DEF Counters
    <3> QED BY <1>3, <1>6, <1>7, <1>9, <1>18, <2>1, <3>1 DEF Counting
  <2>3. \A name \in {"samples", "authorized", "revoked", "slices", "advances"} :
          count'[name] = count[name]
    BY <1>7 DEF Counters
  <2>4. count'["delivered"] = delivered'.index + 1
    BY <1>3, <1>6, <1>7, <1>10 DEF Counting
  <2> QED BY <1>1, <1>3, <1>8, <1>9, <2>2, <2>3, <2>4 DEF Counting, Begun
<1>20. Cadence'
  BY <1>1, CadenceKept DEF ClosedLoop
<1>21. EndsWell'
  BY <1>1, <1>5 DEF TInv, EndsWell, Running
<1> QED BY <1>2, <1>8, <1>12, <1>13, <1>17, <1>19, <1>20, <1>21 DEF TInv

\* At an opportunity of the runtime the newest sample has been delivered.
LEMMA OpportunityFacts ==
  ASSUME TInv, NEW kind \in {"ProductionRuntime", "RuntimeOpportunityMissed"}, Dispatch(kind)
  PROVE  /\ pending_raw = NoSample /\ delivered.index # None
         /\ delivered.at \in Nat /\ delivered.at <= now
         /\ now < delivered.at + scenario.sensor_period
         /\ now = Opportunities * scenario.runtime_period
         /\ Fresh <=> delivered.at > now - scenario.runtime_period
         /\ slice' = slice \ {kind} /\ UNCHANGED <<scenario, now, queue>>
         /\ Begun /\ Running
         /\ "ProductionRuntime" \notin slice' /\ "RuntimeOpportunityMissed" \notin slice'
<1>1. /\ Running /\ kind \in slice /\ slice' = slice \ {kind}
      /\ UNCHANGED <<scenario, now, queue>>
      /\ "SensorSample" \notin slice /\ "ObservationDelivery" \notin slice
  BY PhaseFacts DEF Dispatch
<1>2. OnGrids /\ Delivering /\ Freshness /\ Timetable
  BY <1>1 DEF TInv
<1>3. Begun
  BY <1>1, <1>2 DEF Timetable
<1>4. /\ now \in Nat /\ world.next_index \in Nat /\ scenario.sensor_period \in Nat \ {0}
      /\ Opportunities \in Nat /\ scenario.runtime_period \in Nat \ {0}
      /\ delivered.index \in Nat \cup {-1}
  BY Numbers DEF TInv, IInv
<1>5. /\ pending_raw = NoSample /\ delivered.index = world.next_index - 1
      /\ now < world.next_index * scenario.sensor_period
      /\ world.next_index * scenario.sensor_period <= now + scenario.sensor_period
      /\ now = Opportunities * scenario.runtime_period
  BY <1>1, <1>2, <1>3 DEF Delivering, OnGrids, NextOnGrid
<1>6. delivered.index # None
  <2>1. ASSUME world.next_index = 0 PROVE FALSE
    BY <1>4, <1>5, <2>1
  <2> QED BY <1>4, <1>5, <2>1 DEF None
<1>7. /\ delivered.at = world.next_index * scenario.sensor_period - scenario.sensor_period
      /\ delivered.at = delivered.index * scenario.sensor_period
      /\ delivered.index \in Nat
  BY <1>2, <1>4, <1>5, <1>6 DEF Delivering, None
<1>8. /\ delivered.at \in Nat /\ delivered.at <= now
      /\ now < delivered.at + scenario.sensor_period
  BY <1>4, <1>5, <1>7
<1>9. Fresh <=> delivered.at > now - scenario.runtime_period
  <2>1. (Opportunities - 1) * scenario.runtime_period = now - scenario.runtime_period
    BY <1>4, <1>5
  <2> QED BY <1>2, <1>6, <2>1 DEF Freshness
<1>10. "ProductionRuntime" \notin slice' /\ "RuntimeOpportunityMissed" \notin slice'
  BY <1>1, <1>3, DispatchOrder
<1> QED BY <1>1, <1>3, <1>5, <1>6, <1>8, <1>9, <1>10

\* An opportunity, used or missed, takes the fresh observation with it.
LEMMA OpportunityTInv ==
  ASSUME TInv, IInv', NEW kind \in {"ProductionRuntime", "RuntimeOpportunityMissed"},
         Dispatch(kind), UNCHANGED <<status, world, sensor_timing, pending_raw, delivered>>,
         consumed' = IF Fresh THEN delivered.index ELSE consumed,
         Opportunities' = Opportunities + 1, Handled' = Handled + Waiting,
         \A name \in {"samples", "delivered", "slices", "advances"} : count'[name] = count[name],
         "ActuationCommit" \in slice' <=> pending_actuation'.kind # "none",
         count'["authorized"] + count'["revoked"]
           + (IF pending_actuation'.kind = "none" THEN 0 ELSE 1) = Admitted',
         ClosedLoop' => ClosedLoop \/ sensor_timing.health = "Healthy"
  PROVE  TInv'
<1>1. /\ pending_raw = NoSample /\ delivered.index # None
      /\ delivered.at \in Nat /\ delivered.at <= now
      /\ now = Opportunities * scenario.runtime_period
      /\ slice' = slice \ {kind} /\ UNCHANGED <<scenario, now, queue>>
      /\ Running /\ Begun
      /\ "ProductionRuntime" \notin slice' /\ "RuntimeOpportunityMissed" \notin slice'
  BY OpportunityFacts
<1>2. kind \in EventKind
  BY DEF EventKind
<1>3. Timetable' /\ Begun'
  BY <1>2, TimetableKept
<1>4. OnGrids /\ Delivering /\ Freshness /\ Counting
  BY <1>1 DEF TInv
<1>5. /\ now \in Nat /\ Opportunities \in Nat /\ scenario.runtime_period \in Nat \ {0}
      /\ Handled \in Nat
  BY Numbers DEF TInv, IInv
<1>6. /\ now < (Opportunities + 1) * scenario.runtime_period
      /\ (Opportunities + 1) * scenario.runtime_period <= now + scenario.runtime_period
  BY <1>1, <1>5
<1>7. OnGrids'
  BY <1>1, <1>3, <1>4, <1>6 DEF OnGrids, NextOnGrid
<1>8. Delivering'
  BY <1>1, <1>4 DEF Delivering
<1>9. ~Fresh'
  BY DEF Fresh
<1>10. Freshness'
  <2>1. (Opportunities' - 1) * scenario.runtime_period = now
    BY <1>1, <1>5
  <2> QED BY <1>1, <1>9, <2>1 DEF Freshness
<1>11. Counting'
  <2>1. Waiting' = 0
    BY <1>9 DEF Waiting
  <2>2. Handled' + Waiting' = Handled + Waiting
    BY <1>5, <2>1, Numbers DEF TInv, IInv
  <2> QED BY <1>1, <1>3, <1>4, <2>2 DEF Counting, Begun
<1>12. Cadence'
  BY <1>1, CadenceKept
<1>13. EndsWell'
  BY <1>1 DEF TInv, EndsWell, Running
<1> QED BY <1>3, <1>7, <1>8, <1>10, <1>11, <1>12, <1>13 DEF TInv

LEMMA MissTInv ==
  ASSUME TInv, MissRuntimeOpportunity
  PROVE  TInv'
<1> DEFINE kind == "RuntimeOpportunityMissed"
<1>1. /\ Dispatch(kind)
      /\ UNCHANGED <<status, world, sensor_timing, pending_raw, delivered, supervisor,
                     pending_actuation>>
      /\ consumed' = IF Fresh THEN delivered.index ELSE consumed
      /\ count' = Counted(IF Fresh THEN {"missed", "discarded"} ELSE {"missed"})
  BY DEF MissRuntimeOpportunity, observing, control
<1>2. IInv'
  BY StepIInv DEF TInv, Next, Step
<1>3. /\ count'["missed"] = count["missed"] + 1
      /\ count'["discarded"] = count["discarded"] + Waiting
      /\ \A name \in Counters \ {"missed", "discarded"} : count'[name] = count[name]
  <2>1. \A name \in Counters : count[name] \in Nat
    BY Numbers DEF TInv, IInv
  <2> QED BY <1>1, <2>1, CountedFacts DEF Counters, Waiting
<1>4. /\ Opportunities' = Opportunities + 1 /\ Handled' = Handled + Waiting
      /\ Admitted' = Admitted
  <2>1. \A name \in Counters : count[name] \in Nat
    BY Numbers DEF TInv, IInv
  <2> QED BY <1>3, <2>1, Numbers
          DEF Opportunities, Handled, Admitted, Counters, TInv, IInv
<1>5. /\ Running /\ slice' = slice \ {kind} /\ "ProductionRuntime" \notin slice'
  BY <1>1, OpportunityFacts
<1>6. Counting
  BY <1>5 DEF TInv
<1>7. /\ "ActuationCommit" \in slice' <=> pending_actuation'.kind # "none"
      /\ count'["authorized"] + count'["revoked"]
           + (IF pending_actuation'.kind = "none" THEN 0 ELSE 1) = Admitted'
  BY <1>1, <1>3, <1>4, <1>5, <1>6 DEF Counting, Counters
<1>8. \A name \in {"samples", "delivered", "slices", "advances"} : count'[name] = count[name]
  BY <1>3 DEF Counters
<1> QED BY <1>1, <1>2, <1>4, <1>7, <1>8, OpportunityTInv DEF ClosedLoop

\* A step that is complete has its decision committed in this instant.
LEMMA DecidedTInv ==
  ASSUME TInv, IInv', Dispatch("ProductionRuntime"), UNCHANGED <<status, world, observing>>,
         Fresh, consumed' = delivered.index, NEW name \in {"steps", "skipped"},
         count' = Counted({name}), pending_actuation'.kind # "none",
         ClosedLoop' => ClosedLoop \/ sensor_timing.health = "Healthy"
  PROVE  TInv'
<1>1. /\ Running /\ Begun /\ slice' = slice \ {"ProductionRuntime"} /\ UNCHANGED scenario
      /\ "ProductionRuntime" \in slice
  BY OpportunityFacts DEF Dispatch
<1>2. Counting /\ CommitFollows
  BY <1>1 DEF TInv, IInv
<1>3. \A n \in Counters : count[n] \in Nat
  BY Numbers DEF TInv, IInv
<1>4. count'[name] = count[name] + 1 /\ \A n \in Counters \ {name} : count'[n] = count[n]
  BY CountedFacts DEF Counters
<1>5. /\ Opportunities' = Opportunities + 1 /\ Handled' = Handled + 1
      /\ Admitted' = Admitted + 1
  BY <1>3, <1>4 DEF Opportunities, Handled, Admitted, Counters
<1>6. Waiting = 1
  BY DEF Waiting
<1>7. "ActuationCommit" \in slice' /\ pending_actuation.kind = "none"
  BY <1>1, <1>2 DEF CommitFollows, Counting
<1>8. count'["authorized"] + count'["revoked"]
        + (IF pending_actuation'.kind = "none" THEN 0 ELSE 1) = Admitted'
  <2>1. /\ count'["authorized"] = count["authorized"] /\ count["authorized"] \in Nat
        /\ count'["revoked"] = count["revoked"] /\ count["revoked"] \in Nat
    BY <1>3, <1>4 DEF Counters
  <2>2. Admitted \in Nat
    BY Numbers DEF TInv, IInv
  <2> QED BY <1>2, <1>5, <1>7, <2>1, <2>2 DEF Counting
<1>9. \A n \in {"samples", "delivered", "slices", "advances"} : count'[n] = count[n]
  BY <1>4 DEF Counters
<1>10. UNCHANGED <<sensor_timing, pending_raw, delivered>>
  BY DEF observing
<1> QED BY <1>5, <1>6, <1>7, <1>8, <1>9, <1>10, OpportunityTInv

LEMMA SkipUnreadyTInv ==
  ASSUME TInv, SkipUnready
  PROVE  TInv'
<1>1. IInv'
  BY StepIInv DEF TInv, Next, Step
<1>2. /\ Dispatch("ProductionRuntime") /\ UNCHANGED <<status, world, observing>>
      /\ Fresh /\ consumed' = delivered.index /\ count' = Counted({"skipped"})
      /\ pending_actuation'.kind = "revoke" /\ supervisor' = supervisor
  BY DEF SkipUnready
<1> QED BY <1>1, <1>2, DecidedTInv DEF ClosedLoop

LEMMA RunStepTInv ==
  ASSUME TInv, RunStep
  PROVE  TInv'
<1>1. IInv' /\ IInv /\ TypeOK
  BY StepIInv DEF TInv, Next, Step, IInv
<1>2. /\ Dispatch("ProductionRuntime") /\ UNCHANGED <<world, observing>>
      /\ Fresh /\ consumed' = delivered.index /\ count' = Counted({"steps"})
  BY DEF RunStep
<1>3. ClosedLoop' => ClosedLoop \/ sensor_timing.health = "Healthy"
  <2>1. PICK data \in ControlData :
          supervisor' = ObserveControlHealth(Captured(supervisor), "Valid", data.reaction_wheel)
    BY DEF RunStep
  <2> SUFFICES ASSUME ~ClosedLoop, sensor_timing.health # "Healthy" PROVE ~ClosedLoop'
    OBVIOUS
  <2>2. Captured(supervisor) = supervisor
    BY DEF Captured
  <2>3. supervisor' = supervisor
    BY <2>1, <2>2 DEF ObserveControlHealth, ClosedLoop
  <2> QED BY <2>3 DEF ClosedLoop
<1>4. CASE status' = status
  <2>1. status # "VelocityLoop"
    BY <1>2 DEF Dispatch, Running
  <2>2. pending_actuation'.kind # "none"
    BY <1>1, <1>4, <2>1, RunStepFacts
  <2> QED BY <1>1, <1>2, <1>3, <1>4, <2>2, DecidedTInv
<1>5. CASE status' = "VelocityLoop"
  BY <1>1, <1>2, <1>3, <1>5, EndingTInv
  DEF NumericalErrors, StarvationErrors, Dispatch, observing
<1> QED BY <1>1, <1>4, <1>5, RunStepFacts

\* The runtime is starved only by a slower sensor.
LEMMA RefuseObservationTInv ==
  ASSUME TInv, RefuseObservation
  PROVE  TInv'
<1>1. IInv'
  BY StepIInv DEF TInv, Next, Step
<1>2. /\ Dispatch("ProductionRuntime")
      /\ UNCHANGED <<scenario, world, sensor_timing, supervisor>>
      /\ \/ delivered.index = None /\ status' = "RuntimeWithoutObservation"
         \/ delivered.index # None /\ ~Fresh /\ status' = "RuntimeWithoutFreshObservation"
         \/ Fresh /\ delivered.encoders = "Rejected" /\ status' = "EncoderRejected"
  BY DEF RefuseObservation, observing, control, Dispatch
<1>3. /\ delivered.index # None
      /\ delivered.at \in Nat /\ now < delivered.at + scenario.sensor_period
      /\ Fresh <=> delivered.at > now - scenario.runtime_period
  BY <1>2, OpportunityFacts
<1>4. /\ now \in Nat /\ scenario.sensor_period \in Nat /\ scenario.runtime_period \in Nat
  BY Numbers DEF TInv, IInv
<1>5. scenario.sensor_period <= scenario.runtime_period => Fresh
  BY <1>3, <1>4
<1> QED BY <1>1, <1>2, <1>3, <1>5, EndingTInv DEF StarvationErrors, ClosedLoop

LEMMA FailStepTInv ==
  ASSUME TInv, FailStep
  PROVE  TInv'
<1>1. IInv'
  BY StepIInv DEF TInv, Next, Step
<1>2. /\ UNCHANGED <<scenario, world, sensor_timing, supervisor>>
      /\ status' = "ControlRuntime"
  BY DEF FailStep, observing, control, Dispatch
<1> QED BY <1>1, <1>2, EndingTInv DEF StarvationErrors, NumericalErrors, ClosedLoop

\* A commit finds what the runtime decided in this instant.
LEMMA CommitActuationTInv ==
  ASSUME TInv, CommitActuation
  PROVE  TInv'
<1>1. IInv'
  BY StepIInv DEF TInv, Next, Step
<1>2. /\ Dispatch("ActuationCommit") /\ "ActuationCommit" \in EventKind
      /\ UNCHANGED <<scenario, sensor_timing, pending_raw, delivered, supervisor, consumed, now>>
      /\ pending_actuation' = NoActuation
  BY DEF CommitActuation, observing, EventKind, Dispatch
<1>3. Running /\ "ActuationCommit" \in slice
  BY <1>2 DEF Dispatch
<1>4. "ProductionRuntime" \notin slice
  BY <1>2, PhaseFacts DEF Dispatch
<1>5. OnGrids /\ Delivering /\ Freshness /\ Counting
  BY <1>3 DEF TInv
<1>6. pending_actuation.kind # "none"
  BY <1>3, <1>4, <1>5 DEF Counting
<1>7. /\ world' = [world EXCEPT !.effort = pending_actuation.effort] /\ UNCHANGED status
      /\ \/ count' = Counted({"authorized"})
         \/ count' = Counted({"revoked"})
  BY <1>6 DEF CommitActuation, Actuate
<1>8. world'.time = world.time /\ world'.next_index = world.next_index
  BY <1>7 DEF TInv, IInv, TypeOK
<1>9. \A n \in Counters : count[n] \in Nat
  BY Numbers DEF TInv, IInv
<1>10. /\ count'["authorized"] + count'["revoked"]
             = count["authorized"] + count["revoked"] + 1
       /\ \A n \in Counters \ {"authorized", "revoked"} : count'[n] = count[n]
  <2>1. {"authorized", "revoked"} \subseteq Counters
    BY DEF Counters
  <2>2. CASE count' = Counted({"authorized"})
    BY <1>9, <2>1, <2>2, CountedFacts
  <2>3. CASE count' = Counted({"revoked"})
    BY <1>9, <2>1, <2>3, CountedFacts
  <2> QED BY <1>7, <2>2, <2>3
<1>11. \A n \in {"samples", "delivered", "slices", "advances", "steps", "skipped", "missed",
                "discarded"} : count'[n] = count[n]
  BY <1>10 DEF Counters
<1>12. /\ Begun /\ Begun' /\ Timetable' /\ slice' = slice \ {"ActuationCommit"}
  BY <1>2, <1>8, <1>11, TimetableKept
<1>13. /\ Opportunities' = Opportunities /\ Handled' = Handled /\ Admitted' = Admitted
       /\ Waiting' = Waiting /\ Fresh' = Fresh
  BY <1>2, <1>11 DEF Opportunities, Handled, Admitted, Waiting, Fresh
<1>14. OnGrids'
  BY <1>2, <1>5, <1>8, <1>12, <1>13 DEF OnGrids, NextOnGrid
<1>15. Delivering'
  BY <1>2, <1>5, <1>8, <1>12 DEF Delivering
<1>16. Freshness'
  BY <1>2, <1>5, <1>13 DEF Freshness
<1>17. Counting'
  <2>1. pending_actuation'.kind = "none" /\ "ActuationCommit" \notin slice'
    BY <1>2, <1>12 DEF NoActuation
  <2>2. /\ count["authorized"] \in Nat /\ count["revoked"] \in Nat /\ Admitted \in Nat
    BY <1>9, Numbers DEF Counters, TInv, IInv
  <2>3. count'["authorized"] + count'["revoked"] + 0 = Admitted'
    BY <1>5, <1>6, <1>10, <1>13, <2>2 DEF Counting
  <2> QED BY <1>2, <1>5, <1>8, <1>11, <1>12, <1>13, <2>1, <2>3 DEF Counting, Begun
<1>18. Cadence'
  BY <1>2, <1>8, CadenceKept DEF ClosedLoop
<1>19. EndsWell'
  BY <1>2, <1>3, <1>7 DEF TInv, EndsWell, Running
<1> QED BY <1>1, <1>12, <1>14, <1>15, <1>16, <1>17, <1>18, <1>19 DEF TInv

\* A run that comes to its end has met every event of both grids.
LEMMA FinishTInv ==
  ASSUME TInv, Finish
  PROVE  TInv'
<1>1. IInv'
  BY StepIInv DEF TInv, Next, Step
<1>2. /\ Running /\ slice = {} /\ queue = {} /\ status' = "finished"
      /\ UNCHANGED <<scenario, now, queue, slice, world, sensor_timing, pending_raw, delivered,
                     supervisor, consumed, pending_actuation, count>>
  BY DEF Finish, scheduler, observing, control
<1>3. Timetable /\ OnGrids /\ Delivering /\ Counting
  BY <1>2 DEF TInv
<1>4. /\ scenario \in Scenarios /\ scenario.duration \in Nat
      /\ scenario.sensor_period \in Nat \ {0} /\ scenario.runtime_period \in Nat \ {0}
      /\ now \in Nat /\ world.next_index \in Nat /\ Opportunities \in Nat
      /\ Admitted \in Nat /\ \A n \in Counters : count[n] \in Nat
  BY Numbers DEF TInv, IInv
<1>5. Begun
  <2>1. [at |-> 0, kind |-> "ScenarioStart"] \in Schedule(scenario)
    <3>1. 0 \in 0 .. scenario.duration
      BY <1>4
    <3> QED BY <1>4, <3>1, DueFacts, ScheduleDue
  <2> QED BY <1>2, <1>3, <2>1 DEF Timetable
<1>6. now <= scenario.duration
  BY <1>3, <1>5 DEF Timetable
<1>7. ASSUME NEW at \in 0 .. scenario.duration, at > now PROVE Due(at) = {}
  <2> SUFFICES ASSUME NEW kind \in Due(at) PROVE FALSE
    OBVIOUS
  <2>1. [at |-> at, kind |-> kind] \in Schedule(scenario)
    BY <1>4, ScheduleDue
  <2> QED BY <1>2, <1>3, <1>5, <1>7, <2>1 DEF Timetable
<1>8. ASSUME NEW number \in Nat, NEW period \in Nat \ {0}, NextOnGrid(number, period, FALSE),
             \A at \in 0 .. scenario.duration : at % period = 0 => Due(at) # {}
      PROVE  scenario.duration \div period + 1 = number
  <2>1. now < number * period /\ number * period <= now + period
    BY <1>5, <1>8 DEF NextOnGrid
  <2>2. number * period \in Nat /\ (number * period) % period = 0
    BY MultiplesOnGrid
  <2>3. number * period > scenario.duration
    BY <1>4, <1>7, <1>8, <2>1, <2>2
  <2>4. number * period <= scenario.duration + period
    BY <1>4, <1>6, <2>1, <2>2
  <2> QED BY <1>4, <2>3, <2>4, PeriodsIn
<1>9. \A at \in 0 .. scenario.duration :
        at % scenario.sensor_period = 0 \/ at % scenario.runtime_period = 0 => Due(at) # {}
  BY <1>4, DueFacts
<1>10. /\ NextOnGrid(world.next_index, scenario.sensor_period, FALSE)
       /\ NextOnGrid(Opportunities, scenario.runtime_period, FALSE)
  BY <1>2, <1>3 DEF OnGrids, NextOnGrid
<1>11. world.next_index = SensorSampleCount(scenario)
  BY <1>4, <1>8, <1>9, <1>10 DEF SensorSampleCount
<1>12. Opportunities = RuntimeOpportunityCount(scenario)
  BY <1>4, <1>8, <1>9, <1>10 DEF RuntimeOpportunityCount
<1>13. Pass
  <2>1. delivered.index = world.next_index - 1
    BY <1>2, <1>3 DEF Delivering
  <2>2. count["delivered"] = count["samples"]
    BY <1>3, <1>4, <2>1 DEF Counting
  <2>3. Admitted + count["missed"] = Opportunities
    BY <1>4 DEF Admitted, Opportunities, Counters
  <2>4. count["authorized"] + count["revoked"] = Admitted
    <3>1. pending_actuation.kind = "none"
      BY <1>2, <1>3 DEF Counting
    <3>2. count["authorized"] \in Nat /\ count["revoked"] \in Nat
      BY <1>4 DEF Counters
    <3> QED BY <1>3, <1>4, <3>1, <3>2 DEF Counting
  <2> QED BY <1>3, <1>5, <1>11, <1>12, <2>2, <2>3, <2>4 DEF Counting, Pass
<1>14. EndsWell'
  <2>1. Pass'
    BY <1>2, <1>13 DEF Pass, Admitted
  <2> QED BY <1>2, <2>1 DEF EndsWell, ScheduleErrors, StarvationErrors
<1>15. Cadence'
  BY <1>2, CadenceKept DEF ClosedLoop
<1> QED BY <1>1, <1>2, <1>14, <1>15 DEF TInv, Running

LEMMA InitTInv == Init => TInv
<1> SUFFICES ASSUME Init PROVE TInv
  OBVIOUS
<1>1. IInv
  BY InitIInv
<1>2. \A n \in Counters : count[n] = 0
  BY DEF Init
<1>3. ~Begun
  BY <1>2 DEF Begun, Counters
<1>4. Timetable
  BY <1>3 DEF Init, Timetable
<1>5. Opportunities = 0 /\ Handled = 0 /\ Admitted = 0 /\ world.next_index = 0
      /\ delivered.index = -1 /\ pending_raw = NoSample /\ slice = {}
      /\ pending_actuation.kind = "none" /\ Waiting = 0
  BY <1>2 DEF Init, Opportunities, Handled, Admitted, Counters, NoObservation, None,
              NoActuation, Waiting, Fresh
<1>6. OnGrids
  BY <1>3, <1>5 DEF OnGrids, NextOnGrid
<1>7. Delivering /\ Freshness
  BY <1>5 DEF Delivering, Freshness, None
<1>8. Counting
  <2>1. \A n \in {"samples", "delivered", "advances", "authorized", "revoked"} : count[n] = 0
    BY <1>2 DEF Counters
  <2> QED BY <1>3, <1>5, <2>1 DEF Counting
<1>9. ~ClosedLoop
  BY DEF Init, ClosedLoop, ClosedLoopStates, NewSupervisor, BootComplete, HardwareCheckPassed,
         RequestBalance
<1>10. Cadence
  BY <1>5, <1>9 DEF Init, NewMonitor, Cadence, ClosedLoopNeedsSensor
<1>11. EndsWell
  BY DEF Init, EndsWell, ScheduleErrors, StarvationErrors
<1> QED BY <1>1, <1>4, <1>6, <1>7, <1>8, <1>10, <1>11 DEF TInv

LEMMA StepTInv == TInv /\ [Next]_vars => TInv'
<1> SUFFICES ASSUME TInv, [Next]_vars PROVE TInv'
  OBVIOUS
<1>1. CASE UNCHANGED vars
  <2>1. IInv'
    BY <1>1, StepIInv DEF TInv
  <2>2. /\ UNCHANGED <<scenario, status, now, queue, slice, world, sensor_timing, supervisor,
                      pending_raw, delivered, pending_actuation, consumed, count>>
    BY <1>1 DEF vars, scheduler, observing, control
  <2>3. Begun' = Begun /\ Opportunities' = Opportunities /\ Handled' = Handled
        /\ Admitted' = Admitted /\ Waiting' = Waiting /\ Fresh' = Fresh
        /\ Pass' = Pass /\ Running' = Running
    BY <2>2 DEF Begun, Opportunities, Handled, Admitted, Waiting, Fresh, Pass, Running
  <2>4. Running' => Timetable'
    BY <2>2, <2>3 DEF TInv, Timetable, Due
  <2>5. Running' => OnGrids' /\ Delivering' /\ Freshness' /\ Counting'
    BY <2>2, <2>3 DEF TInv, OnGrids, NextOnGrid, Delivering, Freshness, Counting
  <2>6. Cadence' /\ EndsWell'
    BY <2>2, <2>3 DEF TInv, Cadence, ClosedLoopNeedsSensor, ClosedLoop, EndsWell
  <2> QED BY <2>1, <2>4, <2>5, <2>6 DEF TInv
<1> QED BY <1>1, NextSliceTInv, FinishTInv, StartScenarioTInv, SampleSensorTInv,
           DeliverObservationTInv, RefuseObservationTInv, SkipUnreadyTInv, FailStepTInv,
           RunStepTInv, MissTInv, CommitActuationTInv
        DEF Next, Step, Over

\* The timetable invariant holds throughout, whatever the two periods are.
THEOREM TimetableInvariance == Spec => []TInv
BY InitTInv, StepTInv, PTL DEF Spec

\* The schedule never brings the handlers out of order, and starves the runtime
\* only of a sensor that is slower.
THEOREM ScheduleIsSound == Spec => []ScheduleSound
<1>1. TInv => ScheduleSound
  BY DEF TInv, EndsWell, Timetable, ScheduleSound
<1> QED BY <1>1, TimetableInvariance, PTL

\* An observation about to be used is younger than a period of the runtime.
THEOREM NoBacklogEver == Spec => []NoBacklog
<1>1. TInv => NoBacklog
  <2> SUFFICES ASSUME TInv, Running, "ProductionRuntime" \in slice,
                      "ObservationDelivery" \notin slice, Fresh
               PROVE  now - delivered.at < scenario.runtime_period
    BY DEF NoBacklog
  <2>1. OnGrids /\ Delivering /\ Freshness
    BY DEF TInv
  <2>2. /\ now \in Nat /\ Opportunities \in Nat /\ scenario.runtime_period \in Nat \ {0}
        /\ delivered.at \in Int
    BY Numbers DEF TInv, IInv, TypeOK, Instant
  <2>3. now = Opportunities * scenario.runtime_period
    BY <2>1 DEF OnGrids, NextOnGrid
  <2>4. delivered.at > (Opportunities - 1) * scenario.runtime_period
    BY <2>1 DEF Fresh, Freshness
  <2> QED BY <2>2, <2>3, <2>4, MultipleBefore
<1> QED BY <1>1, TimetableInvariance, PTL

\* The evidence accounts for every observation and every opportunity once, and a
\* run that comes to its end passes its own summary.
THEOREM EvidenceIsSound == Spec => []EvidenceSound
<1>1. TInv => EvidenceSound
  BY DEF TInv, Counting, EndsWell, EvidenceSound, ObservedOnce, Settled
<1> QED BY <1>1, TimetableInvariance, PTL

\* The loop is closed only on a sensor that keeps the late limit, with its cadence
\* verified.
THEOREM LoopNeedsSensor == Spec => []ClosedLoopNeedsSensor
<1>1. TInv => ClosedLoopNeedsSensor
  BY DEF TInv, Cadence
<1> QED BY <1>1, TimetableInvariance, PTL
=============================================================================
