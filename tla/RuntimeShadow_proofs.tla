------------------------ MODULE RuntimeShadow_proofs ------------------------
(***************************************************************************)
(* Proofs about the runtime-shadow target, for every timing policy,        *)
(* decimation and task budget the assumptions allow.                       *)
(***************************************************************************)
EXTENDS RuntimeShadow, TLAPS

-----------------------------------------------------------------------------
(* The calls of the monitor, the supervisor and the authority.             *)

\* A classification is one of the health values.
LEMMA ClassifyElapsedType ==
  ASSUME NEW elapsed \in Int
  PROVE  ClassifyElapsed(elapsed) \in SensorTimingHealth
BY DEF ClassifyElapsed, SensorTimingHealth

\* The calls of the monitor return a monitor, whatever the stamps are.
LEMMA MonitorCalls ==
  ASSUME NEW Stamp \in SUBSET Int, NEW m \in Monitors(Stamp), NEW at \in Stamp
  PROVE  /\ OnEvent(m, at) \in Monitors(Stamp)
         /\ PollMonitor(m, at) \in Monitors(Stamp)
<1>1. SaturatingSub(at, m.reference) \in Int
  <2>1. m.reference \in Stamp
    BY DEF Monitors
  <2>2. at \in Int /\ m.reference \in Int
    BY <2>1
  <2> QED BY <2>2 DEF SaturatingSub
<1>2. ClassifyElapsed(SaturatingSub(at, m.reference)) \in SensorTimingHealth
  BY <1>1, ClassifyElapsedType
<1>3. "Startup" \in SensorTimingHealth
  BY DEF SensorTimingHealth
<1>4. OnEvent(m, at) \in Monitors(Stamp)
  BY <1>2, <1>3 DEF OnEvent, Monitors
<1>5. PollMonitor(m, at) \in Monitors(Stamp)
  BY <1>2, <1>3 DEF PollMonitor, Monitors
<1> QED BY <1>4, <1>5

\* Latching known faults returns a supervisor, and it is in Fault.
LEMMA LatchFaultsType ==
  ASSUME NEW s \in Supervisors, NEW faults \in SUBSET RuntimeFaults
  PROVE  LatchFaults(s, faults) \in Supervisors
BY DEF LatchFaults, Supervisors, OperatingState

\* The calls of the supervisor return a supervisor.
LEMMA SupervisorCallsType ==
  ASSUME NEW s \in Supervisors, NEW timing, NEW health, NEW wheel \in ReactionWheelAuthority
  PROVE  /\ BootComplete(s) \in Supervisors
         /\ HardwareCheckPassed(s) \in Supervisors
         /\ RequestBalance(s) \in Supervisors
         /\ CaptureReady(s) \in Supervisors
         /\ ObserveIndependentHealth(s, timing, health) \in Supervisors
         /\ ObserveControlHealth(s, "Valid", wheel) \in Supervisors
<1>1. /\ BootComplete(s) \in Supervisors
      /\ HardwareCheckPassed(s) \in Supervisors
      /\ RequestBalance(s) \in Supervisors
      /\ CaptureReady(s) \in Supervisors
  BY DEF BootComplete, HardwareCheckPassed, RequestBalance, CaptureReady, Supervisors, OperatingState
<1>2. Timeouts(timing, health) \in SUBSET RuntimeFaults
  BY DEF Timeouts, RuntimeFaults
<1>3. ObserveIndependentHealth(s, timing, health) \in Supervisors
  BY <1>2, LatchFaultsType DEF ObserveIndependentHealth
<1>4. LatchFaults(s, {"REACTION_WHEEL_EXHAUSTED"}) \in Supervisors
  BY LatchFaultsType DEF RuntimeFaults
<1>5. /\ [s EXCEPT !.state = "Balancing"] \in Supervisors
      /\ [s EXCEPT !.state = "MomentumLimited"] \in Supervisors
  BY DEF Supervisors, OperatingState
<1>6. ObserveControlHealth(s, "Valid", wheel) \in Supervisors
  BY <1>4, <1>5 DEF ObserveControlHealth, ReactionWheelAuthority
<1> QED BY <1>1, <1>3, <1>6

\* supervised state it latches when either health is Timeout.
LEMMA IndependentHealthFacts ==
  ASSUME NEW s \in Supervisors, NEW timing, NEW health
  PROVE  LET t == ObserveIndependentHealth(s, timing, health)
         IN  /\ t = s \/ (/\ t.state = "Fault" /\ t.faults # {}
                          /\ s.faults \subseteq t.faults /\ s.state \in SupervisedStates)
             /\ timing # "Timeout" /\ health # "Timeout" => t = s
             /\ s.state \in SupervisedStates /\ (timing = "Timeout" \/ health = "Timeout")
                  => t.state = "Fault"
<1>1. timing = "Timeout" \/ health = "Timeout" <=> Timeouts(timing, health) # {}
  BY DEF Timeouts
<1>2. LatchFaults(s, Timeouts(timing, health)).state = "Fault"
  BY DEF LatchFaults
<1>3. LatchFaults(s, Timeouts(timing, health)).faults = s.faults \cup Timeouts(timing, health)
  BY DEF LatchFaults
<1> QED BY <1>1, <1>2, <1>3 DEF ObserveIndependentHealth

\* capture window or the closed loop it leads into the closed loop or to a fault.
LEMMA ControlHealthFacts ==
  ASSUME NEW s \in Supervisors, NEW wheel \in ReactionWheelAuthority,
         s.state = "Fault" <=> s.faults # {}
  PROVE  LET t == ObserveControlHealth(CaptureReady(s), "Valid", wheel)
         IN  /\ t.state = "Fault" <=> t.faults # {}
             /\ s.faults \subseteq t.faults
             /\ s.state = "Fault" => t.state = "Fault"
             /\ s.state \notin SupervisedStates => t = s
             /\ s.state \in SupervisedStates =>
                  t.state \in ClosedLoopStates \/ t.state = "Fault"
<1> DEFINE c == CaptureReady(s)
<1>1. /\ s.state = "CaptureWindow" => c = [s EXCEPT !.state = "Balancing"]
      /\ s.state # "CaptureWindow" => c = s
  BY DEF CaptureReady
<1>2. c.state = "Fault" <=> c.faults # {}
  BY <1>1 DEF Supervisors
<1>3. /\ c.faults = s.faults
      /\ s.state \in SupervisedStates => c.state \in ClosedLoopStates
      /\ c \in Supervisors
  BY <1>1, SupervisorCallsType DEF Supervisors, SupervisedStates, ClosedLoopStates
<1> HIDE DEF c
<1> DEFINE t == ObserveControlHealth(c, "Valid", wheel)
<1>4. CASE c.state \notin ClosedLoopStates
  <2>1. t = c
    BY <1>4 DEF ObserveControlHealth
  <2> QED BY <1>1, <1>2, <1>3, <1>4, <2>1 DEF c, SupervisedStates, ClosedLoopStates
<1>5. CASE c.state \in ClosedLoopStates
  <2>1. s.state \in SupervisedStates /\ c.faults = {}
    BY <1>1, <1>2, <1>5 DEF SupervisedStates, ClosedLoopStates
  <2>2. t \in {[c EXCEPT !.state = "Balancing"], [c EXCEPT !.state = "MomentumLimited"],
               LatchFaults(c, {"REACTION_WHEEL_EXHAUSTED"})}
    BY <1>5 DEF ObserveControlHealth, ReactionWheelAuthority
  <2>3. /\ t.state \in ClosedLoopStates \/ t.state = "Fault"
        /\ t.state = "Fault" <=> t.faults # {}
    BY <1>3, <2>1, <2>2 DEF LatchFaults, Supervisors, ClosedLoopStates
  <2> QED BY <1>2, <1>3, <2>1, <2>3 DEF c, SupervisedStates, ClosedLoopStates
<1> QED BY <1>4, <1>5 DEF c

-----------------------------------------------------------------------------
USE SensorTimingLimits, ControlWatchdogTimeout, RuntimeShadowConstants, BudgetBelowTimeouts

-----------------------------------------------------------------------------
(* The objects keep their types.                                            *)

\* A stamp at the horizon is older than every threshold.
LEMMA HorizonBound ==
  /\ Horizon \in Nat
  /\ Horizon >= TaskBudget + TIMEOUT_AFTER + HEALTH_PERIOD
  /\ Horizon >= TaskBudget + CONTROL_WATCHDOG_TIMEOUT + HEALTH_PERIOD
BY DEF Horizon

\* Ageing a stamp keeps it a stamp, and moves it by at most one tick.
LEMMA OneTickOlderType ==
  ASSUME NEW stamp \in Stamps
  PROVE  /\ OneTickOlder(stamp) \in Stamps
         /\ OneTickOlder(stamp) \in {stamp, stamp - 1}
         /\ stamp > -Horizon => OneTickOlder(stamp) = stamp - 1
BY HorizonBound DEF OneTickOlder, Stamps

\* The calls of the monitor return a monitor.
LEMMA MonitorCallsType ==
  ASSUME NEW m \in Monitors(Stamps), NEW at \in Stamps
  PROVE  /\ OnEvent(m, at) \in Monitors(Stamps)
         /\ PollMonitor(m, at) \in Monitors(Stamps)
BY HorizonBound, MonitorCalls DEF Stamps

\* The calls of the watchdog return a watchdog.
LEMMA WatchdogCallsType ==
  ASSUME NEW w \in Watchdogs(Stamps), NEW at \in Stamps
  PROVE  /\ ObserveControlCompletion(w, at) \in Watchdogs(Stamps)
         /\ PollWatchdog(w, at) \in Watchdogs(Stamps)
BY DEF ObserveControlCompletion, PollWatchdog, Watchdogs, ControlWatchdogHealth

-----------------------------------------------------------------------------
(* Type correctness                                                         *)

\* The values the initial state is made of have their types.
LEMMA ConstantTypes ==
  /\ Now \in Stamps
  /\ Now \in -TaskBudget .. 0
  /\ NoStep \in ControlSteps
  /\ IdleTask \in Tasks
<1>1. Now \in Stamps /\ Now \in -TaskBudget .. 0
  BY HorizonBound DEF Now, Stamps
<1>2. NoStep \in ControlSteps
  BY DEF NoStep, ControlSteps, ReactionWheelAuthority
<1> QED BY <1>1, <1>2 DEF IdleTask, Tasks, SensorTimingHealth, OperatingState

\* The state #[init] leaves has the right types.
LEMMA InitTypeOK == Init => TypeOK
<1> SUFFICES ASSUME Init PROVE TypeOK
  OBVIOUS
<1>1. NewSupervisor \in Supervisors
  BY DEF NewSupervisor, Supervisors, OperatingState
<1>2. supervisor \in Supervisors
  <2>1. \A s \in Supervisors : /\ BootComplete(s) \in Supervisors
                              /\ HardwareCheckPassed(s) \in Supervisors
                              /\ RequestBalance(s) \in Supervisors
    BY SupervisorCallsType DEF ReactionWheelAuthority
  <2> QED BY <1>1, <2>1 DEF Init
<1>3. monitor \in Monitors(Stamps) /\ watchdog \in Watchdogs(Stamps)
  BY ConstantTypes DEF Init, NewMonitor, NewWatchdog, Monitors, Watchdogs,
     SensorTimingHealth, ControlWatchdogHealth
<1>4. record \in [operating_state : OperatingState, faults : SUBSET RuntimeFaults,
                 authorized : BOOLEAN]
  BY DEF Init, NoRecord, OperatingState
<1>5. pending \in BOOLEAN
  BY Zenon DEF Init
<1> QED BY <1>2, <1>3, <1>4, <1>5, ConstantTypes DEF Init, TypeOK, Now, NewShadowEngine

\* Every step of the target keeps every variable in its type.
LEMMA StepTypeOK == TypeOK /\ [Next]_vars => TypeOK'
<1> SUFFICES ASSUME TypeOK, [Next]_vars PROVE TypeOK'
  OBVIOUS
<1> USE ConstantTypes
<1>1. CASE Tick
  <2>1. edge' \in Stamps /\ last_poll' \in -HEALTH_PERIOD .. 0
    BY <1>1, OneTickOlderType DEF Tick, TypeOK
  <2>2. monitor' \in Monitors(Stamps) /\ watchdog' \in Watchdogs(Stamps)
    <3>1. OneTickOlder(monitor.reference) \in Stamps /\ OneTickOlder(watchdog.reference) \in Stamps
      BY OneTickOlderType DEF TypeOK, Monitors, Watchdogs
    <3> QED BY <1>1, <3>1 DEF Tick, TypeOK, Monitors, Watchdogs
  <2>3. task' \in Tasks
    <3>1. OneTickOlder(task.completed) \in Stamps
      BY OneTickOlderType DEF TypeOK, Tasks
    <3>2. task.pc # "idle" => task.started - 1 \in -TaskBudget .. 0
      BY <1>1 DEF Tick, TypeOK, Tasks
    <3>3. CASE task.pc = "idle"
      BY <1>1, <3>3 DEF Tick, TypeOK
    <3>4. CASE task.pc # "idle"
      <4>1. task' = [task EXCEPT !.started = @ - 1, !.completed = OneTickOlder(@)]
        BY <1>1, <3>4 DEF Tick
      <4> QED BY <3>1, <3>2, <3>4, <4>1 DEF TypeOK, Tasks
    <3> QED BY <3>3, <3>4
  <2> QED BY <1>1, <2>1, <2>2, <2>3 DEF Tick, TypeOK, engine, recording
<1>2. CASE DataReady
  BY <1>2 DEF DataReady, TypeOK, shared, engine, recording
<1>3. CASE TimingHealth
  <2>1. monitor' \in Monitors(Stamps) /\ watchdog' \in Watchdogs(Stamps)
    BY <1>3, MonitorCallsType, WatchdogCallsType DEF TimingHealth, TypeOK
  <2>2. supervisor' \in Supervisors
    BY <1>3, SupervisorCallsType DEF TimingHealth, TypeOK, ReactionWheelAuthority
  <2>3. last_poll' \in -HEALTH_PERIOD .. 0
    BY <1>3 DEF TimingHealth, Now
  <2> QED BY <1>3, <2>1, <2>2, <2>3 DEF TimingHealth, TypeOK, engine, recording
<1>4. CASE Enter
  BY <1>4 DEF Enter, TypeOK, Tasks, shared, engine, recording
<1>5. CASE RegisterEvent
  <2>1. task.started \in Stamps
    BY HorizonBound DEF TypeOK, Tasks, Stamps
  <2>2. monitor' \in Monitors(Stamps)
    BY <1>5, <2>1, MonitorCallsType DEF RegisterEvent, TypeOK
  <2>3. task' \in Tasks
    BY <1>5, <2>2 DEF RegisterEvent, TypeOK, Tasks, Monitors
  <2> QED BY <1>5, <2>2, <2>3 DEF RegisterEvent, TypeOK, environment, engine, recording
<1>6. CASE Acquire
  <2>1. ASSUME task' = IdleTask PROVE task' \in Tasks
    BY <2>1
  <2>2. ASSUME NEW ok \in BOOLEAN, task' = [task EXCEPT !.pc = "prepare", !.imu_ok = ok]
        PROVE  task' \in Tasks
    BY <2>2 DEF TypeOK, Tasks
  <2>3. task' \in Tasks
    BY <1>6, <2>1, <2>2 DEF Acquire, Return
  <2> QED BY <1>6, <2>3 DEF Acquire, TypeOK, environment, shared, engine, recording
<1>7. CASE Prepare
  <2>1. task' \in Tasks
    <3>1. CASE task' = [task EXCEPT !.pc = "fail"]
      BY <3>1 DEF TypeOK, Tasks
    <3>2. ASSUME NEW step \in ControlSteps,
                 task' = [task EXCEPT !.pc = "complete", !.step = step, !.completed = Now]
          PROVE  task' \in Tasks
      BY <3>2 DEF TypeOK, Tasks
    <3> QED BY <1>7, <3>1, <3>2 DEF Prepare
  <2>2. outer' \in [divider : 0 .. OUTER_DECIMATION - 1, hold : BOOLEAN]
    <3>1. ~OuterDue => outer.divider + 1 \in 0 .. OUTER_DECIMATION - 1
      BY DEF OuterDue, TypeOK
    <3>2. outer' \in {outer, [outer EXCEPT !.divider = IF OuterDue THEN 0 ELSE @ + 1]}
      BY <1>7 DEF Prepare
    <3> QED BY <3>1, <3>2 DEF TypeOK
  <2> QED BY <1>7, <2>1, <2>2 DEF Prepare, TypeOK, environment, shared, recording
<1>8. CASE FailControl
  <2>1. supervisor' \in Supervisors
    BY <1>8, LatchFaultsType DEF FailControl, TypeOK, RuntimeFaults
  <2> QED BY <1>8, <2>1 DEF FailControl, Return, TypeOK, environment, engine, recording
<1>9. CASE CompleteControl
  <2>1. watchdog' \in Watchdogs(Stamps)
    <3>1. task.completed \in Stamps
      BY DEF TypeOK, Tasks
    <3> QED BY <1>9, <3>1, WatchdogCallsType DEF CompleteControl, TypeOK
  <2>2. task' \in Tasks
    BY <1>9 DEF CompleteControl, TypeOK, Tasks
  <2> QED BY <1>9, <2>1, <2>2 DEF CompleteControl, TypeOK, environment, engine, recording
<1>10. CASE Supervise
  <2>1. supervisor' \in Supervisors
    <3>1. task.step.reaction_wheel \in ReactionWheelAuthority
      BY DEF TypeOK, Tasks, ControlSteps
    <3> QED BY <1>10, <3>1, SupervisorCallsType DEF Supervise, TypeOK
  <2>2. task' \in Tasks
    BY <1>10, <2>1 DEF Supervise, TypeOK, Tasks, Supervisors
  <2> QED BY <1>10, <2>1, <2>2 DEF Supervise, TypeOK, environment, engine, recording
<1>11. CASE ApplyAuthority
  <2>1. Decision.authorized \in BOOLEAN /\ Decision.hold_integrator \in BOOLEAN
    BY DEF Decision, Evaluate
  <2>2. task' \in Tasks
    BY <1>11, <2>1 DEF ApplyAuthority, TypeOK, Tasks
  <2>3. outer' \in [divider : 0 .. OUTER_DECIMATION - 1, hold : BOOLEAN]
    BY <1>11, <2>1 DEF ApplyAuthority, TypeOK
  <2> QED BY <1>11, <2>2, <2>3 DEF ApplyAuthority, TypeOK, environment, shared, recording
<1>12. CASE Record
  <2>1. record_divider' \in 0 .. RECORD_DECIMATION - 1
    BY <1>12 DEF Record, TypeOK
  <2>2. record' \in [operating_state : OperatingState, faults : SUBSET RuntimeFaults,
                    authorized : BOOLEAN]
    BY <1>12 DEF Record, TypeOK, Tasks, Supervisors
  <2> QED BY <1>12, <2>1, <2>2 DEF Record, Return, TypeOK, environment, shared, engine
<1>13. CASE UNCHANGED vars
  BY <1>13 DEF vars, environment, shared, engine, recording, TypeOK
<1> QED
  BY <1>1, <1>2, <1>3, <1>4, <1>5, <1>6, <1>7, <1>8, <1>9, <1>10, <1>11, <1>12, <1>13
  DEF Next, ImuDataReady

\* Every variable of the target keeps its type, in every behaviour.
THEOREM TypeCorrect == Spec => []TypeOK
BY InitTypeOK, StepTypeOK, PTL DEF Spec

-----------------------------------------------------------------------------
(* What the calls do to the operating state and the references.             *)

\* A poll looks, and moves neither the reference nor the cadence evidence; it
\* says Timeout exactly for a reference that is a timeout old.
LEMMA PollFacts ==
  ASSUME NEW m \in Monitors(Stamps), NEW w \in Watchdogs(Stamps)
  PROVE  /\ PollMonitor(m, Now).reference = m.reference
         /\ PollMonitor(m, Now).cadence_verified = m.cadence_verified
         /\ PollMonitor(m, Now).health = "Timeout" <=> -m.reference >= TIMEOUT_AFTER
         /\ PollWatchdog(w, Now).reference = w.reference
         /\ PollWatchdog(w, Now).completed = w.completed
         /\ PollWatchdog(w, Now).health = "Timeout" <=> -w.reference >= CONTROL_WATCHDOG_TIMEOUT
<1>1. /\ SaturatingSub(Now, m.reference) = -m.reference
      /\ SaturatingSub(Now, w.reference) = -w.reference
      /\ m.reference \in Int /\ w.reference \in Int
  BY HorizonBound DEF SaturatingSub, Now, Monitors, Watchdogs, Stamps
<1>2. /\ PollMonitor(m, Now).reference = m.reference
      /\ PollMonitor(m, Now).cadence_verified = m.cadence_verified
  BY DEF PollMonitor, Monitors
<1>3. PollMonitor(m, Now).health = "Timeout" <=> -m.reference >= TIMEOUT_AFTER
  BY <1>1 DEF PollMonitor, Monitors, ClassifyElapsed
<1>4. /\ PollWatchdog(w, Now).reference = w.reference
      /\ PollWatchdog(w, Now).completed = w.completed
      /\ PollWatchdog(w, Now).health = "Timeout" <=> -w.reference >= CONTROL_WATCHDOG_TIMEOUT
  BY <1>1 DEF PollWatchdog, Watchdogs
<1> QED BY <1>2, <1>3, <1>4

-----------------------------------------------------------------------------
(* The inductive invariant                                                  *)

\* What the types say in numbers, and the room the task budget leaves.
LEMMA StampRanges ==
  ASSUME TypeOK
  PROVE  /\ edge \in Int /\ edge >= -Horizon /\ edge <= 0
         /\ last_poll \in Int /\ last_poll >= -HEALTH_PERIOD /\ last_poll <= 0
         /\ monitor.reference \in Int
         /\ monitor.reference >= -Horizon /\ monitor.reference <= 0
         /\ watchdog.reference \in Int
         /\ watchdog.reference >= -Horizon /\ watchdog.reference <= 0
         /\ task.started \in Int /\ task.started >= -TaskBudget /\ task.started <= 0
         /\ task.started > -Horizon
         /\ task.completed \in Int
         /\ task.completed >= -Horizon /\ task.completed <= 0
BY HorizonBound DEF TypeOK, Monitors, Watchdogs, Tasks, Stamps

\* Init establishes the invariant.
LEMMA InitIInv == Init => IInv
<1> SUFFICES ASSUME Init PROVE IInv
  OBVIOUS
<1>1. TypeOK
  BY InitTypeOK
<1>2. supervisor.state \in {"HardwareCheck", "CaptureWindow"} /\ supervisor.faults = {}
  BY DEF Init, NewSupervisor, BootComplete, HardwareCheckPassed, RequestBalance
<1>3. FaultIffLatched /\ CadenceProven
  BY <1>2 DEF FaultIffLatched, CadenceProven, Faulted, ClosedLoop, ClosedLoopStates
<1>4. FreshReferences /\ CurrentCopy /\ ProvenRun
  BY DEF Init, IdleTask, FreshReferences, CurrentCopy, ProvenRun, EventRegistered,
     HealthyRun, RunCompleted, StateCopied
<1>5. ReferencesSupervised
  BY DEF Init, NewMonitor, NewWatchdog, Now, ReferencesSupervised
<1>6. EdgeServed
  BY DEF Init, IdleTask, NewMonitor, Now, EdgeServed
<1>7. RecordCoherent
  BY DEF Init, NoRecord, RecordCoherent
<1> QED BY <1>1, <1>3, <1>4, <1>5, <1>6, <1>7 DEF IInv

\* A tick ages what it must alike.
LEMMA TickIInv ==
  ASSUME IInv, Tick
  PROVE  /\ FreshReferences' /\ CurrentCopy' /\ FaultIffLatched' /\ ProvenRun'
         /\ CadenceProven' /\ ReferencesSupervised' /\ EdgeServed' /\ RecordCoherent'
<1> USE StampRanges DEF IInv
<1>1. /\ edge' = OneTickOlder(edge) /\ last_poll' = last_poll - 1
      /\ pending' = pending /\ supervisor' = supervisor /\ record' = record
      /\ monitor'.reference = OneTickOlder(monitor.reference)
      /\ monitor'.cadence_verified = monitor.cadence_verified
      /\ watchdog'.reference = OneTickOlder(watchdog.reference)
      /\ watchdog'.completed = watchdog.completed
  BY DEF Tick, TypeOK, Monitors, Watchdogs, recording
<1>2. /\ task'.pc = task.pc /\ task'.timing = task.timing
      /\ task'.operating_state = task.operating_state
      /\ task'.authorized = task.authorized
      /\ task.pc # "idle" => /\ task'.started = task.started - 1
                             /\ task'.completed = OneTickOlder(task.completed)
  <2>1. CASE task.pc = "idle"
    BY <2>1 DEF Tick
  <2>2. CASE task.pc # "idle"
    <3>1. task' = [task EXCEPT !.started = @ - 1, !.completed = OneTickOlder(@)]
      BY <2>2 DEF Tick
    <3> QED BY <3>1 DEF TypeOK, Tasks
  <2> QED BY <2>1, <2>2
<1>3. FreshReferences'
  BY <1>1, <1>2 DEF FreshReferences, OneTickOlder, EventRegistered, RunCompleted
<1>4. CurrentCopy' /\ FaultIffLatched' /\ ProvenRun' /\ CadenceProven' /\ RecordCoherent'
  BY <1>1, <1>2 DEF CurrentCopy, FaultIffLatched, ProvenRun, CadenceProven, RecordCoherent,
     Faulted, ClosedLoop, EventRegistered, HealthyRun, RunCompleted, StateCopied
<1>5. ReferencesSupervised'
  BY <1>1 DEF ReferencesSupervised, Supervised, OneTickOlder
<1>6. EdgeServed'
  <2>1. pending => task.pc # "idle"
    BY DEF Tick
  <2>2. task.pc # "idle" => -task.started < TaskBudget
    BY DEF Tick
  <2> QED BY <1>1, <1>2, <2>1, <2>2, HorizonBound DEF EdgeServed, OneTickOlder
<1> QED BY <1>3, <1>4, <1>5, <1>6

\* A run of the health task: in a supervised state both references are younger
\* than their timeouts afterwards, and a run that has copied the operating
\* state has refreshed both too recently for either to expire.
LEMMA TimingHealthIInv ==
  ASSUME IInv, TimingHealth
  PROVE  /\ FreshReferences' /\ CurrentCopy' /\ FaultIffLatched' /\ ProvenRun'
         /\ CadenceProven' /\ ReferencesSupervised' /\ EdgeServed' /\ RecordCoherent'
<1> USE StampRanges DEF IInv
<1>1. /\ monitor'.reference = monitor.reference
      /\ monitor'.cadence_verified = monitor.cadence_verified
      /\ watchdog'.reference = watchdog.reference
      /\ watchdog'.completed = watchdog.completed
      /\ monitor'.health = "Timeout" <=> -monitor.reference >= TIMEOUT_AFTER
      /\ watchdog'.health = "Timeout" <=> -watchdog.reference >= CONTROL_WATCHDOG_TIMEOUT
  BY PollFacts DEF TimingHealth, TypeOK
<1>2. /\ supervisor' = supervisor \/ (/\ supervisor'.state = "Fault"
                                      /\ supervisor'.faults # {}
                                      /\ supervisor.state \in SupervisedStates)
      /\ monitor'.health # "Timeout" /\ watchdog'.health # "Timeout"
           => supervisor' = supervisor
      /\ supervisor.state \in SupervisedStates
           /\ (monitor'.health = "Timeout" \/ watchdog'.health = "Timeout")
             => supervisor'.state = "Fault"
  BY IndependentHealthFacts DEF TimingHealth, TypeOK
<1>3. /\ edge' = edge /\ pending' = pending /\ task' = task /\ record' = record
      /\ last_poll' = 0
  BY DEF TimingHealth, recording, Now
<1>4. FreshReferences' /\ ProvenRun' /\ EdgeServed' /\ RecordCoherent'
  BY <1>1, <1>3 DEF FreshReferences, ProvenRun, EdgeServed, RecordCoherent
<1>5. CurrentCopy'
  <2>1. task.pc \in StateCopied =>
          -monitor.reference < TIMEOUT_AFTER /\ -watchdog.reference < CONTROL_WATCHDOG_TIMEOUT
    BY DEF FreshReferences, StateCopied, EventRegistered, RunCompleted
  <2>2. task.pc \in StateCopied => supervisor' = supervisor
    BY <1>1, <1>2, <2>1
  <2> QED BY <1>3, <2>2 DEF CurrentCopy
<1>6. FaultIffLatched'
  BY <1>2 DEF FaultIffLatched, Faulted
<1>7. CadenceProven'
  BY <1>1, <1>2 DEF CadenceProven, ClosedLoop, ClosedLoopStates
<1>8. ReferencesSupervised'
  <2>1. Supervised' => supervisor' = supervisor
    BY <1>2 DEF Supervised, SupervisedStates, ClosedLoopStates
  <2>2. Supervised' => monitor'.health # "Timeout" /\ watchdog'.health # "Timeout"
    BY <1>2, <2>1 DEF Supervised, SupervisedStates, ClosedLoopStates
  <2> QED BY <1>1, <1>3, <2>2 DEF ReferencesSupervised
<1> QED BY <1>4, <1>5, <1>6, <1>7, <1>8

\* An edge is new, so it is served in time.
LEMMA DataReadyIInv ==
  ASSUME IInv, DataReady
  PROVE  /\ FreshReferences' /\ CurrentCopy' /\ FaultIffLatched' /\ ProvenRun'
         /\ CadenceProven' /\ ReferencesSupervised' /\ EdgeServed' /\ RecordCoherent'
<1> USE StampRanges DEF IInv
<1>1. /\ edge' = 0 /\ last_poll' = last_poll /\ monitor' = monitor /\ watchdog' = watchdog
      /\ supervisor' = supervisor /\ task' = task /\ record' = record
  BY DEF DataReady, shared, recording, Now
<1>2. EdgeServed'
  BY <1>1 DEF EdgeServed
<1> QED
  BY <1>1, <1>2 DEF FreshReferences, CurrentCopy, FaultIffLatched, ProvenRun, CadenceProven,
     ReferencesSupervised, RecordCoherent, Faulted, ClosedLoop, Supervised

\* Entering the task takes the pending edge over.
LEMMA EnterIInv ==
  ASSUME IInv, Enter
  PROVE  /\ FreshReferences' /\ CurrentCopy' /\ FaultIffLatched' /\ ProvenRun'
         /\ CadenceProven' /\ ReferencesSupervised' /\ EdgeServed' /\ RecordCoherent'
<1> USE StampRanges DEF IInv
<1>1. /\ edge' = edge /\ last_poll' = last_poll /\ monitor' = monitor /\ watchdog' = watchdog
      /\ supervisor' = supervisor /\ record' = record
      /\ pending /\ pending' = FALSE /\ task'.pc = "event" /\ task'.started = 0
  BY DEF Enter, shared, recording, Now, TypeOK, Tasks
<1>2. EdgeServed'
  BY <1>1 DEF EdgeServed
<1>3. FreshReferences' /\ CurrentCopy' /\ ProvenRun'
  BY <1>1 DEF FreshReferences, CurrentCopy, ProvenRun, EventRegistered, HealthyRun,
     RunCompleted, StateCopied
<1> QED
  BY <1>1, <1>2, <1>3 DEF FaultIffLatched, CadenceProven,
     ReferencesSupervised, RecordCoherent, Faulted, ClosedLoop, Supervised

\* The event is registered with the time at which the run began.
LEMMA RegisterEventIInv ==
  ASSUME IInv, RegisterEvent
  PROVE  /\ FreshReferences' /\ CurrentCopy' /\ FaultIffLatched' /\ ProvenRun'
         /\ CadenceProven' /\ ReferencesSupervised' /\ EdgeServed' /\ RecordCoherent'
<1> USE StampRanges DEF IInv
<1>1. /\ edge' = edge /\ last_poll' = last_poll /\ pending' = pending /\ watchdog' = watchdog
      /\ supervisor' = supervisor /\ record' = record
      /\ task.pc = "event" /\ task'.pc = "acquire" /\ task'.started = task.started
      /\ task'.timing = monitor'.health
  BY DEF RegisterEvent, environment, recording, TypeOK, Tasks
<1>2. /\ monitor'.reference = task.started
      /\ monitor'.health = "Healthy" => monitor'.cadence_verified
      /\ monitor.cadence_verified => monitor'.cadence_verified
  BY DEF RegisterEvent, OnEvent
<1>3. EdgeServed'
  BY <1>1, <1>2 DEF EdgeServed
<1>4. FreshReferences' /\ CurrentCopy' /\ ProvenRun'
  BY <1>1, <1>2 DEF FreshReferences, CurrentCopy, ProvenRun, EventRegistered, HealthyRun,
     RunCompleted, StateCopied
<1>5. ReferencesSupervised'
  BY <1>1, <1>2 DEF ReferencesSupervised, Supervised
<1> QED
  BY <1>1, <1>2, <1>3, <1>4, <1>5 DEF FaultIffLatched, CadenceProven,
     RecordCoherent, Faulted, ClosedLoop

\* Acquisition and preparation move only the task and the engine.
LEMMA TaskOnlyIInv ==
  ASSUME IInv, Acquire \/ Prepare
  PROVE  /\ FreshReferences' /\ CurrentCopy' /\ FaultIffLatched' /\ ProvenRun'
         /\ CadenceProven' /\ ReferencesSupervised' /\ EdgeServed' /\ RecordCoherent'
<1> USE StampRanges DEF IInv
<1>1. /\ edge' = edge /\ last_poll' = last_poll /\ pending' = pending
      /\ monitor' = monitor /\ watchdog' = watchdog
      /\ supervisor' = supervisor /\ record' = record
  BY DEF Acquire, Prepare, environment, shared, recording
<1>2. CASE task' = IdleTask
  BY <1>1, <1>2 DEF IdleTask, FreshReferences, CurrentCopy, FaultIffLatched, ProvenRun,
     CadenceProven, ReferencesSupervised, EdgeServed, RecordCoherent, Faulted, ClosedLoop,
     Supervised, EventRegistered, HealthyRun, RunCompleted, StateCopied
<1>3. CASE /\ task.pc \in {"acquire", "prepare"} /\ task.timing = "Healthy"
           /\ task'.pc \in {"prepare", "fail", "complete"}
           /\ task'.started = task.started /\ task'.timing = task.timing
           /\ task'.pc = "complete" => task'.completed = 0
  <2>1. FreshReferences' /\ CurrentCopy' /\ ProvenRun'
    BY <1>1, <1>3 DEF FreshReferences, CurrentCopy, ProvenRun, EventRegistered, HealthyRun,
       RunCompleted, StateCopied
  <2>2. EdgeServed'
    BY <1>1, <1>3 DEF EdgeServed
  <2> QED
    BY <1>1, <2>1, <2>2 DEF FaultIffLatched, CadenceProven, ReferencesSupervised,
       RecordCoherent, Faulted, ClosedLoop, Supervised
<1>4. CASE Acquire
  <2>1. CASE ~ClosedLoopEligible(task.timing)
    BY <1>2, <1>4, <2>1 DEF Acquire, Return
  <2>2. CASE ClosedLoopEligible(task.timing)
    <3>1. PICK ok \in BOOLEAN : task' = [task EXCEPT !.pc = "prepare", !.imu_ok = ok]
      BY <1>4, <2>2 DEF Acquire
    <3>2. task.pc = "acquire" /\ task.timing = "Healthy"
      BY <1>4, <2>2 DEF Acquire, ClosedLoopEligible
    <3>3. /\ task'.pc = "prepare"
          /\ task'.started = task.started /\ task'.timing = task.timing
      BY <3>1 DEF TypeOK, Tasks
    <3> QED BY <1>3, <3>2, <3>3
  <2> QED BY <2>1, <2>2
<1>5. CASE Prepare
  <2>1. task.pc = "prepare" /\ task.timing = "Healthy"
    BY <1>5 DEF Prepare, ProvenRun, HealthyRun
  <2>2. /\ task'.pc \in {"fail", "complete"}
        /\ task'.started = task.started /\ task'.timing = task.timing
        /\ task'.pc = "complete" => task'.completed = 0
    <3>1. CASE task' = [task EXCEPT !.pc = "fail"]
      BY <3>1 DEF TypeOK, Tasks
    <3>2. CASE \E step \in ControlSteps :
                 task' = [task EXCEPT !.pc = "complete", !.step = step, !.completed = Now]
      BY <3>2 DEF TypeOK, Tasks, Now
    <3> QED BY <1>5, <3>1, <3>2 DEF Prepare
  <2> QED BY <1>3, <2>1, <2>2
<1> QED BY <1>4, <1>5

\* A failed run latches a fault and leaves.
LEMMA FailControlIInv ==
  ASSUME IInv, FailControl
  PROVE  /\ FreshReferences' /\ CurrentCopy' /\ FaultIffLatched' /\ ProvenRun'
         /\ CadenceProven' /\ ReferencesSupervised' /\ EdgeServed' /\ RecordCoherent'
<1> USE StampRanges DEF IInv
<1>1. /\ edge' = edge /\ last_poll' = last_poll /\ pending' = pending
      /\ monitor' = monitor /\ watchdog' = watchdog /\ record' = record
      /\ task' = IdleTask /\ task'.pc = "idle"
  BY DEF FailControl, Return, environment, recording, IdleTask
<1>2. supervisor'.state = "Fault" /\ supervisor'.faults # {}
  BY DEF FailControl, LatchFaults
<1>3. FreshReferences' /\ CurrentCopy' /\ ProvenRun' /\ EdgeServed' /\ RecordCoherent'
  BY <1>1 DEF FreshReferences, CurrentCopy, ProvenRun, EdgeServed, RecordCoherent,
     EventRegistered, HealthyRun, RunCompleted, StateCopied
<1> QED
  BY <1>2, <1>3 DEF FaultIffLatched, CadenceProven, ReferencesSupervised, Faulted, ClosedLoop,
     Supervised, SupervisedStates, ClosedLoopStates

\* The watchdog hears of a completion no older than the run.
LEMMA CompleteControlIInv ==
  ASSUME IInv, CompleteControl
  PROVE  /\ FreshReferences' /\ CurrentCopy' /\ FaultIffLatched' /\ ProvenRun'
         /\ CadenceProven' /\ ReferencesSupervised' /\ EdgeServed' /\ RecordCoherent'
<1> USE StampRanges DEF IInv
<1>1. /\ edge' = edge /\ last_poll' = last_poll /\ pending' = pending
      /\ monitor' = monitor /\ supervisor' = supervisor /\ record' = record
      /\ task.pc = "complete" /\ task'.pc = "supervise"
      /\ task'.started = task.started /\ task'.timing = task.timing
      /\ watchdog'.reference = task.completed /\ watchdog'.completed = TRUE
  BY DEF CompleteControl, ObserveControlCompletion, environment, recording, TypeOK, Tasks
<1>2. task.completed >= task.started
  BY <1>1 DEF FreshReferences
<1>3. FreshReferences' /\ CurrentCopy' /\ ProvenRun'
  BY <1>1, <1>2 DEF FreshReferences, CurrentCopy, ProvenRun, EventRegistered, HealthyRun,
     RunCompleted, StateCopied
<1>4. EdgeServed' /\ ReferencesSupervised'
  BY <1>1, <1>2 DEF EdgeServed, ReferencesSupervised, Supervised
<1> QED
  BY <1>1, <1>3, <1>4 DEF FaultIffLatched, CadenceProven, RecordCoherent, Faulted, ClosedLoop

\* The supervisor's section: the loop closes only in a run that has measured an
\* interval and reported its completion.
LEMMA SuperviseIInv ==
  ASSUME IInv, Supervise
  PROVE  /\ FreshReferences' /\ CurrentCopy' /\ FaultIffLatched' /\ ProvenRun'
         /\ CadenceProven' /\ ReferencesSupervised' /\ EdgeServed' /\ RecordCoherent'
<1> USE StampRanges DEF IInv
<1>1. /\ edge' = edge /\ last_poll' = last_poll /\ pending' = pending
      /\ monitor' = monitor /\ watchdog' = watchdog /\ record' = record
      /\ task.pc = "supervise" /\ task'.pc = "apply"
      /\ task'.started = task.started /\ task'.timing = task.timing
      /\ task'.operating_state = supervisor'.state
  BY DEF Supervise, environment, recording, TypeOK, Tasks
<1>2. /\ supervisor'.state = "Fault" <=> supervisor'.faults # {}
      /\ supervisor'.state \in SupervisedStates => supervisor.state \in SupervisedStates
  <2>1. /\ supervisor \in Supervisors /\ task.step.reaction_wheel \in ReactionWheelAuthority
        /\ supervisor.state = "Fault" <=> supervisor.faults # {}
    BY DEF TypeOK, Tasks, ControlSteps, FaultIffLatched, Faulted
  <2>2. supervisor' = ObserveControlHealth(CaptureReady(supervisor), "Valid",
                                           task.step.reaction_wheel)
    BY DEF Supervise
  <2> QED BY <2>1, <2>2, ControlHealthFacts DEF SupervisedStates, ClosedLoopStates
<1>3. FreshReferences' /\ CurrentCopy' /\ ProvenRun'
  BY <1>1 DEF FreshReferences, CurrentCopy, ProvenRun, EventRegistered, HealthyRun,
     RunCompleted, StateCopied
<1>4. EdgeServed' /\ ReferencesSupervised'
  BY <1>1, <1>2 DEF EdgeServed, ReferencesSupervised, Supervised, SupervisedStates, ClosedLoopStates
<1>5. CadenceProven'
  BY <1>1 DEF CadenceProven, ProvenRun, HealthyRun, RunCompleted
<1> QED
  BY <1>1, <1>2, <1>3, <1>4, <1>5 DEF FaultIffLatched, RecordCoherent, Faulted

\* An authorized decision needs a copy of a closed-loop state.
LEMMA AuthorizedNeedsClosedLoop ==
  Decision.authorized => task.operating_state \in ClosedLoopStates
BY DEF Decision, Evaluate, Denied, Reported, DenyingReasons

\* The decision is taken on a copy that is still current.
LEMMA ApplyAuthorityIInv ==
  ASSUME IInv, ApplyAuthority
  PROVE  /\ FreshReferences' /\ CurrentCopy' /\ FaultIffLatched' /\ ProvenRun'
         /\ CadenceProven' /\ ReferencesSupervised' /\ EdgeServed' /\ RecordCoherent'
<1> USE StampRanges DEF IInv
<1>1. /\ edge' = edge /\ last_poll' = last_poll /\ pending' = pending
      /\ monitor' = monitor /\ watchdog' = watchdog
      /\ supervisor' = supervisor /\ record' = record
      /\ task.pc = "apply" /\ task'.pc = "record"
      /\ task'.started = task.started /\ task'.timing = task.timing
      /\ task'.operating_state = task.operating_state
      /\ task'.authorized = Decision.authorized
  BY DEF ApplyAuthority, environment, shared, recording, TypeOK, Tasks
<1>2. FreshReferences' /\ CurrentCopy' /\ ProvenRun'
  BY <1>1, AuthorizedNeedsClosedLoop DEF FreshReferences, CurrentCopy, ProvenRun,
     EventRegistered, HealthyRun, RunCompleted, StateCopied
<1>3. EdgeServed' /\ ReferencesSupervised'
  BY <1>1 DEF EdgeServed, ReferencesSupervised, Supervised
<1> QED
  BY <1>1, <1>2, <1>3 DEF FaultIffLatched, CadenceProven, RecordCoherent, Faulted, ClosedLoop

\* A record of an authorized run sees the supervisor still in the closed loop.
LEMMA RecordIInv ==
  ASSUME IInv, Record
  PROVE  /\ FreshReferences' /\ CurrentCopy' /\ FaultIffLatched' /\ ProvenRun'
         /\ CadenceProven' /\ ReferencesSupervised' /\ EdgeServed' /\ RecordCoherent'
<1> USE StampRanges DEF IInv
<1>1. /\ edge' = edge /\ last_poll' = last_poll /\ pending' = pending
      /\ monitor' = monitor /\ watchdog' = watchdog /\ supervisor' = supervisor
      /\ task.pc = "record" /\ task'.pc = "idle"
      /\ record' = record
           \/ record' = [operating_state |-> task.operating_state,
                         faults |-> supervisor.faults, authorized |-> task.authorized]
  BY DEF Record, Return, IdleTask, environment, shared
<1>2. task.authorized => /\ task.operating_state \in ClosedLoopStates
                         /\ supervisor.faults = {}
  BY <1>1 DEF CurrentCopy, StateCopied, FaultIffLatched, Faulted, ClosedLoopStates
<1>3. RecordCoherent'
  BY <1>1, <1>2 DEF RecordCoherent
<1>4. FreshReferences' /\ CurrentCopy' /\ ProvenRun'
  BY <1>1 DEF FreshReferences, CurrentCopy, ProvenRun,
     EventRegistered, HealthyRun, RunCompleted, StateCopied
<1>5. EdgeServed' /\ ReferencesSupervised'
  BY <1>1 DEF EdgeServed, ReferencesSupervised, Supervised
<1> QED
  BY <1>1, <1>3, <1>4, <1>5 DEF FaultIffLatched, CadenceProven, Faulted, ClosedLoop

\* Every step preserves the invariant.
LEMMA StepIInv == IInv /\ [Next]_vars => IInv'
<1> SUFFICES ASSUME IInv, [Next]_vars PROVE IInv'
  OBVIOUS
<1>1. TypeOK'
  BY StepTypeOK DEF IInv
<1>2. /\ FreshReferences' /\ CurrentCopy' /\ FaultIffLatched' /\ ProvenRun'
      /\ CadenceProven' /\ ReferencesSupervised' /\ EdgeServed' /\ RecordCoherent'
  <2>1. CASE Next
    BY <2>1, TickIInv, DataReadyIInv, TimingHealthIInv, EnterIInv, RegisterEventIInv,
       TaskOnlyIInv, FailControlIInv, CompleteControlIInv, SuperviseIInv,
       ApplyAuthorityIInv, RecordIInv
    DEF Next, ImuDataReady
  <2>2. CASE UNCHANGED vars
    BY <2>2 DEF vars, environment, shared, engine, recording, IInv, FreshReferences,
       CurrentCopy, FaultIffLatched, ProvenRun, CadenceProven, ReferencesSupervised,
       EdgeServed, RecordCoherent, Faulted, ClosedLoop, Supervised
  <2> QED BY <2>1, <2>2
<1> QED BY <1>1, <1>2 DEF IInv

\* The invariant that carries every safety property below holds throughout.
THEOREM Invariance == Spec => []IInv
BY InitIInv, StepIInv, PTL DEF Spec

-----------------------------------------------------------------------------
(* Safety                                                                   *)

\* The invariant implies that no authorized request meets a supervisor that
\* has left the closed loop.
LEMMA IInvAuthority == IInv => AuthorityIsCurrent
BY AuthorizedNeedsClosedLoop DEF IInv, CurrentCopy, StateCopied, AuthorityIsCurrent, ClosedLoop

\* The health task may preempt the control task between its copy of the
\* operating state and its use: the output is never driven on a stale copy.
THEOREM NoStaleAuthority == Spec => []AuthorityIsCurrent
BY Invariance, IInvAuthority, PTL

\* The invariant bounds the silence of the sensor.
LEMMA IInvSensorLoss == IInv => SensorLossDetected
BY StampRanges DEF IInv, ReferencesSupervised, EdgeServed, SensorLossDetected, Supervised

\* A silent sensor is a fault within the timeout, a health period and a run.
THEOREM SensorLossBounded == Spec => []SensorLossDetected
BY Invariance, IInvSensorLoss, PTL

\* The invariant bounds the time without a completed run.
LEMMA IInvControlLoss == IInv => ControlLossDetected
BY StampRanges DEF IInv, ReferencesSupervised, ControlLossDetected, Supervised

\* A controller that stops completing is a fault within the watchdog's timeout
\* and a health period.
THEOREM ControlLossBounded == Spec => []ControlLossDetected
BY Invariance, IInvControlLoss, PTL

\* The loop is closed only after a measured interval and a completed run.
THEOREM ClosedLoopNeedsCadence == Spec => []CadenceProven
BY Invariance, PTL DEF IInv

\* The record of an authorized run shows no fault.
THEOREM CoherentRecords == Spec => []RecordCoherent
BY Invariance, PTL DEF IInv

-----------------------------------------------------------------------------
(* A sensor that keeps its cadence                                          *)

USE CadenceWithinLimits

\* The first conjuncts of CInv, for a configured and cadenced sensor.
Steady == configured /\ cadenced /\ CadenceRegistered /\ OnlyFirstRefused
          /\ (Supervised => CompletionsFollow)

\* What CadenceKept asks of a step, whatever the sensor.
CadenceGoal == CadenceRegistered' /\ OnlyFirstRefused' /\ (Supervised' => CompletionsFollow')

\* The sections of imu_data_ready.
LEMMA Sections ==
  ASSUME TypeOK
  PROVE  task.pc \in {"idle", "event"} \cup EventRegistered
BY DEF TypeOK, Tasks, EventRegistered

\* With a sensor that keeps its cadence neither reference is a timeout old.
LEMMA ReferencesYoung ==
  ASSUME IInv, Steady
  PROVE  /\ -monitor.reference <= MaxEdgeGap + TaskBudget
         /\ -monitor.reference < TIMEOUT_AFTER
         /\ Supervised => -watchdog.reference < CONTROL_WATCHDOG_TIMEOUT
<1> USE StampRanges, Sections DEF IInv, Steady
<1>1. -monitor.reference <= MaxEdgeGap + TaskBudget
  BY DEF CadenceRegistered, FreshReferences
<1>2. CASE task.pc \in {"idle", "event"}
  BY <1>1, <1>2 DEF CadenceRegistered, CompletionsFollow
<1>3. CASE task.pc \in EventRegistered
  <2>1. -monitor.reference <= TaskBudget
    BY <1>3 DEF FreshReferences
  <2>2. Supervised => monitor.reference - watchdog.reference <= 2 * MaxEdgeGap
    BY DEF CompletionsFollow
  <2> QED BY <2>1, <2>2
<1> QED BY <1>1, <1>2, <1>3

\* A tick ages the edge and the references alike.
LEMMA TickCadence ==
  ASSUME IInv, Steady, Tick
  PROVE  CadenceGoal
<1> USE StampRanges DEF IInv, Steady
<1>1. /\ edge' = OneTickOlder(edge) /\ pending' = pending /\ supervisor' = supervisor
      /\ monitor'.reference = OneTickOlder(monitor.reference)
      /\ monitor'.seen = monitor.seen
      /\ monitor'.cadence_verified = monitor.cadence_verified
      /\ watchdog'.reference = OneTickOlder(watchdog.reference)
  BY DEF Tick, TypeOK, Monitors, Watchdogs
<1>2. /\ task'.pc = task.pc /\ task'.timing = task.timing
      /\ task.pc # "idle" => task'.started = task.started - 1
  <2>1. CASE task.pc = "idle"
    BY <2>1 DEF Tick
  <2>2. CASE task.pc # "idle"
    <3>1. task' = [task EXCEPT !.started = @ - 1, !.completed = OneTickOlder(@)]
      BY <2>2 DEF Tick
    <3> QED BY <3>1 DEF TypeOK, Tasks
  <2> QED BY <2>1, <2>2
<1>3. /\ -edge < MaxEdgeGap
      /\ task.pc = "idle" => ~pending
  BY DEF Tick
<1>4. edge' = edge - 1 /\ monitor'.reference = monitor.reference - 1
  BY <1>1, <1>3, ReferencesYoung, HorizonBound DEF OneTickOlder
<1>5. CadenceRegistered'
  BY <1>1, <1>2, <1>3, <1>4 DEF CadenceRegistered
<1>6. /\ watchdog.reference >= monitor.reference => watchdog'.reference >= monitor'.reference
      /\ Supervised => watchdog'.reference = watchdog.reference - 1
  BY <1>1, <1>4, ReferencesYoung, HorizonBound DEF OneTickOlder
<1>7. OnlyFirstRefused'
  BY <1>1, <1>2, <1>4, <1>6 DEF OnlyFirstRefused
<1>8. Supervised' => CompletionsFollow'
  BY <1>1, <1>2, <1>4, <1>6 DEF CompletionsFollow, Supervised, RunCompleted
<1> QED BY <1>5, <1>7, <1>8 DEF CadenceGoal

\* A new edge finds the task idle with the last edge registered, or waits for it.
LEMMA DataReadyCadence ==
  ASSUME IInv, Steady, DataReady
  PROVE  CadenceGoal
<1> USE StampRanges DEF IInv, Steady
<1>1. /\ edge' = 0 /\ pending' = TRUE /\ monitor' = monitor /\ watchdog' = watchdog
      /\ supervisor' = supervisor /\ task' = task
  BY DEF DataReady, shared, Now
<1> QED
  BY <1>1 DEF CadenceGoal, CadenceRegistered, OnlyFirstRefused, CompletionsFollow, Supervised

\* The health task moves no reference and supervises nothing it did not before.
LEMMA TimingHealthCadence ==
  ASSUME IInv, Steady, TimingHealth
  PROVE  CadenceGoal
<1> USE StampRanges DEF IInv, Steady
<1>1. /\ edge' = edge /\ pending' = pending /\ task' = task
      /\ monitor'.reference = monitor.reference /\ monitor'.seen = monitor.seen
      /\ monitor'.cadence_verified = monitor.cadence_verified
      /\ watchdog'.reference = watchdog.reference
  <2>1. PollMonitor(monitor, Now).seen = monitor.seen
    BY DEF PollMonitor, TypeOK, Monitors
  <2> QED BY <2>1, PollFacts DEF TimingHealth, TypeOK
<1>2. Supervised' => Supervised
  BY IndependentHealthFacts DEF TimingHealth, TypeOK, Supervised
<1> QED
  BY <1>1, <1>2 DEF CadenceGoal, CadenceRegistered, OnlyFirstRefused, CompletionsFollow

\* A run begins within a cadence of the event before.
LEMMA EnterCadence ==
  ASSUME IInv, Steady, Enter
  PROVE  CadenceGoal
<1> USE StampRanges DEF IInv, Steady
<1>1. /\ edge' = edge /\ pending' = FALSE /\ monitor' = monitor /\ watchdog' = watchdog
      /\ supervisor' = supervisor
      /\ task.pc = "idle" /\ task'.pc = "event" /\ task'.started = 0
  BY DEF Enter, shared, Now, TypeOK, Tasks
<1> QED
  BY <1>1 DEF CadenceGoal, CadenceRegistered, OnlyFirstRefused, CompletionsFollow, Supervised

\* The event of a run is Healthy unless it is the first.
LEMMA RegisterEventCadence ==
  ASSUME IInv, Steady, RegisterEvent
  PROVE  CadenceGoal
<1> USE StampRanges DEF IInv, Steady
<1>1. /\ edge' = edge /\ pending' = pending /\ watchdog' = watchdog /\ supervisor' = supervisor
      /\ task.pc = "event" /\ task'.pc = "acquire" /\ task'.started = task.started
      /\ task'.timing = monitor'.health
  BY DEF RegisterEvent, environment, TypeOK, Tasks
<1>2. /\ monitor'.seen /\ monitor'.reference = task.started
      /\ monitor'.cadence_verified <=> monitor.cadence_verified \/ monitor.seen
      /\ monitor'.health = IF monitor.seen
           THEN ClassifyElapsed(SaturatingSub(task.started, monitor.reference)) ELSE "Startup"
  BY DEF RegisterEvent, OnEvent
<1>3. task.started - monitor.reference <= MaxEdgeGap
  BY <1>1 DEF CadenceRegistered
<1>4. ClassifyElapsed(SaturatingSub(task.started, monitor.reference)) = "Healthy"
  BY <1>3 DEF ClassifyElapsed, SaturatingSub
<1>5. CadenceRegistered'
  BY <1>1, <1>2 DEF CadenceRegistered
<1>6. OnlyFirstRefused'
  BY <1>1, <1>2, <1>4 DEF OnlyFirstRefused
<1>7. Supervised' => CompletionsFollow'
  <2>1. ~monitor.seen => /\ monitor.reference <= watchdog.reference
                         /\ ~monitor'.cadence_verified
    BY <1>2 DEF OnlyFirstRefused
  <2>2. Supervised => monitor.reference - watchdog.reference <= MaxEdgeGap
    BY <1>1 DEF CompletionsFollow
  <2> QED
    BY <1>1, <1>2, <1>3, <2>1, <2>2 DEF CompletionsFollow, Supervised, RunCompleted
<1> QED BY <1>5, <1>6, <1>7 DEF CadenceGoal

\* A run that ends leaves the last edge it was entered for registered; it was
\* refused only with the cadence unproven.
LEMMA ReturnCadence ==
  ASSUME IInv, Steady, task' = IdleTask, UNCHANGED <<edge, pending, monitor, watchdog>>,
         task.pc \in EventRegistered, Supervised' => Supervised,
         Supervised' => ~monitor.cadence_verified \/ task.pc \in RunCompleted
  PROVE  CadenceGoal
<1> USE StampRanges DEF IInv, Steady
<1>1. task'.pc = "idle" /\ monitor.reference = task.started
  BY DEF IdleTask, FreshReferences
<1>2. CadenceRegistered'
  BY <1>1 DEF CadenceRegistered, EventRegistered
<1>3. OnlyFirstRefused'
  BY <1>1 DEF OnlyFirstRefused, EventRegistered
<1>4. Supervised' => CompletionsFollow'
  BY <1>1 DEF CompletionsFollow, RunCompleted
<1> QED BY <1>2, <1>3, <1>4 DEF CadenceGoal

\* A run that goes on keeps its start and what the monitor knows of it.
LEMMA RunsOnCadence ==
  ASSUME IInv, Steady, UNCHANGED <<edge, pending, monitor>>,
         task.pc \in EventRegistered, task'.pc \in EventRegistered \ {"acquire"},
         task'.started = task.started, Supervised' => Supervised,
         watchdog'.reference >= watchdog.reference, watchdog'.reference \in Int,
         task'.pc \in RunCompleted => watchdog'.reference >= monitor.reference
  PROVE  CadenceGoal
<1> USE StampRanges DEF IInv, Steady
<1>1. CadenceRegistered'
  BY DEF CadenceRegistered, EventRegistered
<1>2. OnlyFirstRefused'
  BY DEF OnlyFirstRefused, EventRegistered
<1>3. Supervised' => CompletionsFollow'
  BY DEF CompletionsFollow, EventRegistered, RunCompleted
<1> QED BY <1>1, <1>2, <1>3 DEF CadenceGoal

\* The sections after the event is registered.
LEMMA RunCadence ==
  ASSUME IInv, Steady,
         \/ Acquire \/ Prepare \/ FailControl \/ CompleteControl \/ Supervise
         \/ ApplyAuthority \/ Record
  PROVE  CadenceGoal
<1> USE StampRanges DEF IInv, Steady
<1> USE DEF environment, shared
<1>1. CASE Acquire
  <2>1. UNCHANGED <<edge, pending, monitor, watchdog, supervisor>> /\ task.pc = "acquire"
    BY <1>1 DEF Acquire
  <2>2. CASE task.timing = "Healthy"
    <3>1. PICK ok \in BOOLEAN : task' = [task EXCEPT !.pc = "prepare", !.imu_ok = ok]
      BY <1>1, <2>2 DEF Acquire, ClosedLoopEligible
    <3>2. task'.pc = "prepare" /\ task'.started = task.started
      BY <3>1 DEF TypeOK, Tasks
    <3> QED
      BY <2>1, <3>2, RunsOnCadence DEF EventRegistered, RunCompleted, Supervised
  <2>3. CASE task.timing # "Healthy"
    <3>1. task' = IdleTask
      BY <1>1, <2>3 DEF Acquire, ClosedLoopEligible, Return
    <3>2. ~monitor.cadence_verified
      BY <2>1, <2>3 DEF OnlyFirstRefused
    <3> QED BY <2>1, <3>1, <3>2, ReturnCadence DEF EventRegistered, Supervised
  <2> QED BY <2>2, <2>3
<1>2. CASE Prepare
  <2>1. UNCHANGED <<edge, pending, monitor, watchdog, supervisor>> /\ task.pc = "prepare"
    BY <1>2 DEF Prepare
  <2>2. task'.pc \in {"fail", "complete"} /\ task'.started = task.started
    <3>1. CASE task' = [task EXCEPT !.pc = "fail"]
      BY <3>1 DEF TypeOK, Tasks
    <3>2. CASE \E step \in ControlSteps :
                 task' = [task EXCEPT !.pc = "complete", !.step = step, !.completed = Now]
      BY <3>2 DEF TypeOK, Tasks
    <3> QED BY <1>2, <3>1, <3>2 DEF Prepare
  <2> QED BY <2>1, <2>2, RunsOnCadence DEF EventRegistered, RunCompleted, Supervised
<1>3. CASE FailControl
  <2>1. /\ UNCHANGED <<edge, pending, monitor, watchdog>> /\ task.pc = "fail"
        /\ task' = IdleTask /\ ~Supervised'
    BY <1>3 DEF FailControl, Return, LatchFaults, Supervised
  <2> QED BY <2>1, ReturnCadence DEF EventRegistered
<1>4. CASE CompleteControl
  <2>1. /\ UNCHANGED <<edge, pending, monitor, supervisor>> /\ task.pc = "complete"
        /\ task'.pc = "supervise" /\ task'.started = task.started
        /\ watchdog'.reference = task.completed
    BY <1>4 DEF CompleteControl, ObserveControlCompletion, TypeOK, Tasks
  <2>2. monitor.reference = task.started /\ task.completed >= task.started
    BY <2>1 DEF FreshReferences, EventRegistered
  <2>3. CadenceRegistered' /\ OnlyFirstRefused'
    BY <2>1 DEF CadenceRegistered, OnlyFirstRefused
  <2>4. CompletionsFollow'
    BY <2>1, <2>2 DEF CompletionsFollow
  <2> QED BY <2>3, <2>4 DEF CadenceGoal
<1>5. CASE Supervise
  <2>1. /\ UNCHANGED <<edge, pending, monitor, watchdog>> /\ task.pc = "supervise"
        /\ task'.pc = "apply" /\ task'.started = task.started
    BY <1>5 DEF Supervise, TypeOK, Tasks
  <2>2. Supervised' => Supervised
    <3>1. /\ supervisor \in Supervisors /\ task.step.reaction_wheel \in ReactionWheelAuthority
          /\ supervisor.state = "Fault" <=> supervisor.faults # {}
      BY DEF TypeOK, Tasks, ControlSteps, FaultIffLatched, Faulted
    <3>2. supervisor.state \notin SupervisedStates => supervisor' = supervisor
      BY <1>5, <3>1, ControlHealthFacts DEF Supervise
    <3> QED BY <3>2 DEF Supervised, SupervisedStates, ClosedLoopStates
  <2>3. watchdog.reference >= monitor.reference
    BY <2>1 DEF FreshReferences, EventRegistered, RunCompleted
  <2> QED BY <2>1, <2>2, <2>3, RunsOnCadence DEF EventRegistered
<1>6. CASE ApplyAuthority
  <2>1. /\ UNCHANGED <<edge, pending, monitor, watchdog, supervisor>> /\ task.pc = "apply"
        /\ task'.pc = "record" /\ task'.started = task.started
    BY <1>6 DEF ApplyAuthority, TypeOK, Tasks
  <2>2. watchdog.reference >= monitor.reference
    BY <2>1 DEF FreshReferences, EventRegistered, RunCompleted
  <2> QED BY <2>1, <2>2, RunsOnCadence DEF EventRegistered, Supervised
<1>7. CASE Record
  <2>1. /\ UNCHANGED <<edge, pending, monitor, watchdog, supervisor>> /\ task.pc = "record"
        /\ task' = IdleTask
    BY <1>7 DEF Record, Return
  <2> QED BY <2>1, ReturnCadence DEF EventRegistered, RunCompleted, Supervised
<1> QED BY <1>1, <1>2, <1>3, <1>4, <1>5, <1>6, <1>7

\* With a sensor that is not configured no event, and so no run, ever comes.
LEMMA UnconfiguredStep ==
  ASSUME IInv, UnconfiguredIdles, [Next]_vars
  PROVE  UnconfiguredIdles' /\ configured' = configured /\ cadenced' = cadenced
<1>1. configured' = configured /\ cadenced' = cadenced
  BY DEF Next, ImuDataReady, Tick, DataReady, TimingHealth, Enter, RegisterEvent, Acquire,
     Prepare, FailControl, CompleteControl, Supervise, ApplyAuthority, Record, environment, vars
<1>2. ASSUME ~configured PROVE UnconfiguredIdles'
  <2>1. ~pending /\ task.pc = "idle" /\ supervisor.state = "HardwareCheck" /\ supervisor.faults = {}
    BY <1>2 DEF UnconfiguredIdles
  <2>2. Tick \/ TimingHealth \/ UNCHANGED vars
    BY <1>2, <2>1 DEF Next, ImuDataReady, DataReady, Enter, RegisterEvent, Acquire,
       Prepare, FailControl, CompleteControl, Supervise, ApplyAuthority, Record
  <2>3. pending' = pending /\ task'.pc = "idle"
    BY <2>1, <2>2 DEF Tick, TimingHealth, vars, environment
  <2>4. supervisor' = supervisor
    BY <2>1, <2>2, IndependentHealthFacts
    DEF IInv, TypeOK, Tick, TimingHealth, vars, shared, SupervisedStates, ClosedLoopStates
  <2> QED BY <2>1, <2>3, <2>4 DEF UnconfiguredIdles
<1> QED BY <1>1, <1>2 DEF UnconfiguredIdles

\* Only the health task latches a timeout, and only one that has expired.
LEMMA TimeoutStep ==
  ASSUME IInv, Next,
         supervisor.faults \cap {"SENSOR_TIMEOUT", "CONTROL_WATCHDOG_TIMEOUT"} = {},
         TimingHealth => /\ -monitor.reference < TIMEOUT_AFTER
                         /\ Supervised => -watchdog.reference < CONTROL_WATCHDOG_TIMEOUT
  PROVE  supervisor'.faults \cap {"SENSOR_TIMEOUT", "CONTROL_WATCHDOG_TIMEOUT"} = {}
<1> USE StampRanges DEF IInv
<1>1. CASE TimingHealth
  <2>1. monitor'.health # "Timeout" /\ (Supervised => watchdog'.health # "Timeout")
    BY <1>1, PollFacts DEF TimingHealth, TypeOK
  <2>2. supervisor' = supervisor
    BY <1>1, <2>1, IndependentHealthFacts
    DEF TimingHealth, TypeOK, Supervised, SupervisedStates, ClosedLoopStates
  <2> QED BY <2>2
<1>2. CASE FailControl
  BY <1>2 DEF FailControl, LatchFaults
<1>3. CASE Supervise
  <2>1. CaptureReady(supervisor).faults = supervisor.faults
    BY DEF CaptureReady, TypeOK, Supervisors
  <2>2. task.step.reaction_wheel \in ReactionWheelAuthority
    BY DEF TypeOK, Tasks, ControlSteps
  <2>3. CaptureReady(supervisor) \in Supervisors
    BY <2>2, SupervisorCallsType DEF TypeOK
  <2>4. \/ supervisor'.faults = supervisor.faults
        \/ supervisor'.faults = supervisor.faults \cup {"REACTION_WHEEL_EXHAUSTED"}
    BY <1>3, <2>1, <2>2, <2>3
    DEF Supervise, ObserveControlHealth, LatchFaults, Supervisors, ReactionWheelAuthority
  <2> QED BY <2>4
<1>4. CASE supervisor' = supervisor
  BY <1>4
<1> QED
  BY <1>1, <1>2, <1>3, <1>4 DEF Next, ImuDataReady, Tick, DataReady, Enter, RegisterEvent,
     Acquire, Prepare, CompleteControl, ApplyAuthority, Record, shared

\* The event of a sensor that keeps its cadence is Healthy, or the first.
LEMMA EventOnTime ==
  ASSUME IInv, Steady, RegisterEvent
  PROVE  monitor'.health # "Timeout"
<1> USE StampRanges DEF IInv, Steady
<1>1. task.pc = "event"
  BY DEF RegisterEvent
<1>2. monitor'.health = IF monitor.seen
           THEN ClassifyElapsed(SaturatingSub(task.started, monitor.reference)) ELSE "Startup"
  BY DEF RegisterEvent, OnEvent
<1>3. task.started - monitor.reference <= MaxEdgeGap
  BY <1>1 DEF CadenceRegistered
<1>4. ClassifyElapsed(SaturatingSub(task.started, monitor.reference)) = "Healthy"
  BY <1>3 DEF ClassifyElapsed, SaturatingSub
<1> QED BY <1>2, <1>4

\* Neither monitor turns to Timeout in a step of a board whose sensor keeps its
\* cadence: a poll finds both references young, an event comes in time, and a
\* completion is Healthy.
LEMMA HealthStep ==
  ASSUME IInv, Steady, Next, monitor.health # "Timeout",
         Supervised => watchdog.health # "Timeout"
  PROVE  /\ monitor'.health # "Timeout"
         /\ Supervised' => watchdog'.health # "Timeout"
<1> USE DEF IInv
<1>1. CASE TimingHealth
  <2>1. monitor'.health # "Timeout" /\ (Supervised => watchdog'.health # "Timeout")
    <3>1. -monitor.reference < TIMEOUT_AFTER
          /\ (Supervised => -watchdog.reference < CONTROL_WATCHDOG_TIMEOUT)
      BY ReferencesYoung
    <3>2. ~(-monitor.reference >= TIMEOUT_AFTER)
          /\ (Supervised => ~(-watchdog.reference >= CONTROL_WATCHDOG_TIMEOUT))
      BY <3>1, StampRanges
    <3> QED BY <1>1, <3>2, PollFacts DEF TimingHealth, TypeOK
  <2>2. Supervised' => Supervised
    BY <1>1, IndependentHealthFacts
    DEF TimingHealth, TypeOK, Supervised, SupervisedStates, ClosedLoopStates
  <2> QED BY <2>1, <2>2
<1>2. CASE Tick
  BY <1>2 DEF Tick, TypeOK, Monitors, Watchdogs, Supervised
<1>3. CASE RegisterEvent
  BY <1>3, EventOnTime DEF RegisterEvent, Supervised
<1>4. CASE CompleteControl
  BY <1>4 DEF CompleteControl, ObserveControlCompletion
<1>5. CASE FailControl
  BY <1>5 DEF FailControl, LatchFaults, Supervised
<1>6. CASE Supervise
  <2>1. /\ supervisor \in Supervisors /\ task.step.reaction_wheel \in ReactionWheelAuthority
        /\ supervisor.state = "Fault" <=> supervisor.faults # {}
    BY DEF TypeOK, Tasks, ControlSteps, FaultIffLatched, Faulted
  <2>2. supervisor.state \notin SupervisedStates => supervisor' = supervisor
    BY <1>6, <2>1, ControlHealthFacts DEF Supervise
  <2> QED BY <1>6, <2>2 DEF Supervise, Supervised, SupervisedStates, ClosedLoopStates
<1>7. CASE UNCHANGED <<monitor, watchdog, supervisor>>
  BY <1>7 DEF Supervised
<1> QED
  BY <1>1, <1>2, <1>3, <1>4, <1>5, <1>6, <1>7
  DEF Next, ImuDataReady, DataReady, Enter, Acquire, Prepare, ApplyAuthority, Record, shared

\* Init establishes the cadence invariant.
LEMMA InitCInv == Init => CInv
<1> SUFFICES ASSUME Init PROVE CInv
  OBVIOUS
<1>1. /\ edge = 0 /\ monitor.reference = 0 /\ watchdog.reference = 0
      /\ ~monitor.seen /\ ~monitor.cadence_verified /\ task.pc = "idle"
      /\ supervisor.faults = {}
      /\ monitor.health = "Startup" /\ watchdog.health = "Startup"
      /\ ~configured => supervisor.state = "HardwareCheck"
  BY DEF Init, NewMonitor, NewWatchdog, IdleTask, Now, NewSupervisor, BootComplete,
     HardwareCheckPassed, RequestBalance
<1>2. ~configured => ~pending
  BY Zenon DEF Init
<1> QED
  BY <1>1, <1>2, InitIInv DEF CInv, UnconfiguredIdles, CadenceKept, CadenceRegistered,
     OnlyFirstRefused, CompletionsFollow, NoSpuriousTimeout

\* Every step preserves it.
LEMMA StepCInv == CInv /\ [Next]_vars => CInv'
<1> SUFFICES ASSUME CInv, [Next]_vars PROVE CInv'
  OBVIOUS
<1> USE DEF CInv
<1>1. IInv' /\ UnconfiguredIdles' /\ configured' = configured /\ cadenced' = cadenced
  BY StepIInv, UnconfiguredStep
<1>2. CASE UNCHANGED vars
  BY <1>1, <1>2 DEF vars, environment, shared, CadenceKept, CadenceRegistered, OnlyFirstRefused,
     CompletionsFollow, NoSpuriousTimeout, Supervised
<1>3. CASE Next
  <2>1. CadenceKept'
    <3> SUFFICES ASSUME configured, cadenced PROVE CadenceGoal
      BY <1>1 DEF CadenceKept, CadenceGoal
    <3>1. Steady
      BY DEF CadenceKept, Steady
    <3> QED
      BY <1>3, <3>1, TickCadence, DataReadyCadence, TimingHealthCadence, EnterCadence,
         RegisterEventCadence, RunCadence DEF Next, ImuDataReady
  <2>2. NoSpuriousTimeout'
    <3> SUFFICES ASSUME cadenced PROVE NoSpuriousTimeout'
      BY <1>1 DEF NoSpuriousTimeout
    <3>1. CASE configured
      <4>1. Steady
        BY <3>1 DEF CadenceKept, Steady
      <4>2. supervisor'.faults \cap {"SENSOR_TIMEOUT", "CONTROL_WATCHDOG_TIMEOUT"} = {}
        BY <1>3, <4>1, ReferencesYoung, TimeoutStep DEF NoSpuriousTimeout
      <4>3. monitor'.health # "Timeout" /\ (Supervised' => watchdog'.health # "Timeout")
        BY <1>3, <3>1, <4>1, HealthStep DEF NoSpuriousTimeout
      <4> QED BY <4>2, <4>3 DEF NoSpuriousTimeout
    <3>2. CASE ~configured
      BY <1>1, <3>2 DEF UnconfiguredIdles, NoSpuriousTimeout
    <3> QED BY <3>1, <3>2
  <2> QED BY <1>1, <2>1, <2>2
<1> QED BY <1>2, <1>3

\* The cadence invariant holds throughout.
THEOREM CadenceInvariance == Spec => []CInv
BY InitCInv, StepCInv, PTL DEF Spec

\* With a sensor that keeps its cadence no timeout is latched, while starting up or
\* later, however the two tasks interleave and runs fail.  On a board that is
\* configured the sensor's monitor never reports Timeout, and the watchdog does
\* not while the supervisor listens to it.
THEOREM NoTimeoutWhileCadenced == Spec => []NoSpuriousTimeout
BY CadenceInvariance, PTL DEF CInv

-----------------------------------------------------------------------------
(* What a step may do to the operating state and to the output.             *)

\* Faults are kept, the closed loop is left only for Fault, and a step that
\* changes the operating state touches neither the output nor the integrator hold.
LEMMA SupervisorStep ==
  ASSUME IInv, Next
  PROVE  /\ Faulted => Faulted' /\ supervisor.faults \subseteq supervisor'.faults
         /\ ClosedLoop => ClosedLoop' \/ Faulted'
         /\ supervisor' = supervisor \/ UNCHANGED <<outer.hold, frame>>
<1> USE DEF IInv
<1>1. CASE TimingHealth
  <2>1. LET t == ObserveIndependentHealth(supervisor, monitor'.health, watchdog'.health)
        IN  t = supervisor \/ (/\ t.state = "Fault" /\ t.faults # {}
                               /\ supervisor.faults \subseteq t.faults
                               /\ supervisor.state \in SupervisedStates)
    BY IndependentHealthFacts DEF TypeOK
  <2> QED
    BY <1>1, <2>1 DEF TimingHealth, engine, Faulted, ClosedLoop, ClosedLoopStates
<1>2. CASE FailControl
  BY <1>2 DEF FailControl, LatchFaults, engine, Faulted, ClosedLoop, ClosedLoopStates
<1>3. CASE Supervise
  <2>1. /\ supervisor \in Supervisors /\ task.step.reaction_wheel \in ReactionWheelAuthority
        /\ supervisor.state = "Fault" <=> supervisor.faults # {}
    BY DEF TypeOK, Tasks, ControlSteps, FaultIffLatched, Faulted
  <2>2. /\ supervisor.faults \subseteq supervisor'.faults
        /\ supervisor.state = "Fault" => supervisor'.state = "Fault"
        /\ supervisor.state \in SupervisedStates =>
             supervisor'.state \in ClosedLoopStates \/ supervisor'.state = "Fault"
    BY <1>3, <2>1, ControlHealthFacts DEF Supervise
  <2> QED
    BY <1>3, <2>2 DEF Supervise, engine, Faulted, ClosedLoop, SupervisedStates
<1>4. CASE supervisor' = supervisor
  BY <1>4 DEF Faulted, ClosedLoop
<1> QED
  BY <1>1, <1>2, <1>3, <1>4 DEF Next, ImuDataReady, Tick, DataReady, Enter, RegisterEvent,
     Acquire, Prepare, CompleteControl, ApplyAuthority, Record, shared

\* Only ApplyAuthority changes the output or the integrator hold, from a
\* decision on the current operating state.
LEMMA OutputStep ==
  ASSUME IInv, Next
  PROVE  \/ UNCHANGED <<outer.hold, frame>>
         \/ /\ supervisor' = supervisor
            /\ frame' = "neutral" \/ (frame' = "authorized" /\ ClosedLoop)
            /\ ~ClosedLoop => outer'.hold
<1> USE DEF IInv
<1>1. CASE ApplyAuthority
  <2>1. Decision.authorized => ClosedLoop
    BY <1>1, IInvAuthority DEF ApplyAuthority, AuthorityIsCurrent
  <2>2. Decision.hold_integrator \/ Decision.authorized
    BY DEF Decision, Evaluate
  <2>3. outer'.hold = Decision.hold_integrator
    BY <1>1 DEF ApplyAuthority, TypeOK
  <2> QED
    BY <1>1, <2>1, <2>2, <2>3 DEF ApplyAuthority, shared
<1>2. CASE Prepare
  BY <1>2 DEF Prepare, TypeOK
<1>3. CASE UNCHANGED <<outer, frame>>
  BY <1>3
<1> QED
  BY <1>1, <1>2, <1>3 DEF Next, ImuDataReady, Tick, DataReady, TimingHealth, Enter,
     RegisterEvent, Acquire, FailControl, CompleteControl, Supervise, Record, engine

\* No step of either task clears a latched fault.
THEOREM FaultLatchHolds == Spec => FaultIsFinal
<1>1. IInv /\ [Next]_vars =>
        [Faulted => Faulted' /\ supervisor.faults \subseteq supervisor'.faults]_vars
  BY SupervisorStep
<1> QED BY <1>1, Invariance, PTL DEF Spec, FaultIsFinal

\* A fault found by the health task does not let the outer loop integrate again.
THEOREM IntegratorStaysHeld == Spec => HoldOutlastsFault
<1>1. IInv /\ [Next]_vars => [Faulted /\ outer.hold => outer'.hold]_vars
  <2> SUFFICES ASSUME IInv, Next, Faulted, outer.hold PROVE outer'.hold
    OBVIOUS
  <2>1. ~ClosedLoop
    BY DEF Faulted, ClosedLoop, ClosedLoopStates
  <2> QED BY <2>1, OutputStep
<1> QED BY <1>1, Invariance, PTL DEF Spec, HoldOutlastsFault

-----------------------------------------------------------------------------
(* The target implements ActuationGate.                                     *)

\* Initially nothing is driven and the loop is open.
LEMMA GateInit == Init => Gate!Init
<1> SUFFICES ASSUME Init PROVE Gate!Init
  OBVIOUS
<1>1. supervisor.state \in {"HardwareCheck", "CaptureWindow"}
  BY DEF Init, NewSupervisor, BootComplete, HardwareCheckPassed, RequestBalance
<1>2. GateMode = "disarmed"
  BY <1>1 DEF GateMode, ClosedLoop, Faulted, ClosedLoopStates
<1>3. (frame = "authorized") = FALSE
  BY DEF Init
<1> QED BY <1>2, <1>3 DEF Gate!Init

\* Every step is a step of the gate or changes nothing it can see.
LEMMA GateStep == IInv /\ [Next]_vars => [Gate!Next]_(Gate!vars)
<1> SUFFICES ASSUME IInv, [Next]_vars PROVE [Gate!Next]_(Gate!vars)
  OBVIOUS
<1>1. /\ GateMode = "live" <=> ClosedLoop
      /\ GateMode = "latched" <=> Faulted
      /\ GateMode = "disarmed" <=> ~ClosedLoop /\ ~Faulted
  BY DEF GateMode, ClosedLoop, Faulted, ClosedLoopStates
<1>2. /\ GateMode' = "live" <=> ClosedLoop'
      /\ GateMode' = "latched" <=> Faulted'
      /\ GateMode' = "disarmed" <=> ~ClosedLoop' /\ ~Faulted'
  BY DEF GateMode, ClosedLoop, Faulted, ClosedLoopStates
<1>3. /\ GateMode \in {"live", "latched", "disarmed"}
      /\ GateMode' \in {"live", "latched", "disarmed"}
  BY DEF GateMode
<1>4. CASE UNCHANGED <<supervisor, frame>>
  BY <1>4 DEF Gate!vars, GateMode, ClosedLoop, Faulted
<1>5. CASE Next /\ UNCHANGED frame
  <2>1. /\ Faulted => Faulted'
        /\ ClosedLoop => ClosedLoop' \/ Faulted'
    BY <1>5, SupervisorStep
  <2>2. \/ GateMode' = GateMode
        \/ GateMode = "disarmed" /\ GateMode' = "live"
        \/ GateMode # "latched" /\ GateMode' = "latched"
    BY <1>1, <1>2, <1>3, <2>1
  <2> QED BY <1>5, <2>2 DEF Gate!vars, Gate!Next, Gate!GoLive, Gate!Latch
<1>6. CASE Next /\ frame' # frame
  <2>1. /\ supervisor' = supervisor
        /\ frame' = "neutral" \/ (frame' = "authorized" /\ ClosedLoop)
    BY <1>6, OutputStep
  <2>2. GateMode' = GateMode
    BY <2>1 DEF GateMode, ClosedLoop, Faulted
  <2>3. CASE frame' = "neutral"
    BY <2>2, <2>3 DEF Gate!Next, Gate!Neutralize
  <2>4. CASE frame' = "authorized" /\ ClosedLoop
    BY <1>1, <2>2, <2>4 DEF Gate!Next, Gate!Drive
  <2> QED BY <2>1, <2>3, <2>4
<1> QED BY <1>4, <1>5, <1>6 DEF vars, shared, engine

\* Refinement: in every interleaving the actuators are driven only while the
\* supervisor is in a closed-loop state, and never anew after a fault.
THEOREM Refinement == Spec => ImplementsGate
BY GateInit, GateStep, Invariance, PTL DEF Spec, ImplementsGate, Gate!Spec
=============================================================================
