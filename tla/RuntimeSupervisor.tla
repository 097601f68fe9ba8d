------------------------- MODULE RuntimeSupervisor --------------------------
(***************************************************************************)
(* The control watchdog, the fault latch and the operating-state machine   *)
(* of supervisor/runtime-supervisor.  As in SensorTiming, the operators    *)
(* give the value of the object after each call; a call that returns an    *)
(* Err leaves the object as it was.                                        *)
(***************************************************************************)
EXTENDS SensorTiming, RuntimeAuthority

CONSTANT CONTROL_WATCHDOG_TIMEOUT   (* longest time between two completions   *)

\* ControlWatchdog::new returns None for a zero timeout.
ASSUME ControlWatchdogTimeout == CONTROL_WATCHDOG_TIMEOUT \in Nat \ {0}

RuntimeFaults == {"SENSOR_TIMEOUT", "CONTROL_WATCHDOG_TIMEOUT", "ESTIMATE_INVALID",
                  "REACTION_WHEEL_EXHAUSTED", "CONTROL_NUMERICAL_FAULT"}

ControlWatchdogHealth == {"Startup", "Healthy", "Timeout"}

Watchdogs(Stamp) == [completed : BOOLEAN, reference : Stamp, health : ControlWatchdogHealth]

Supervisors == [state : OperatingState, faults : SUBSET RuntimeFaults]

-----------------------------------------------------------------------------
(* ControlWatchdog.  "reference" is the last completion, or else the time  *)
(* the watchdog was armed.                                                 *)

NewWatchdog(armed_at) ==
  [completed |-> FALSE, reference |-> armed_at, health |-> "Startup"]

ObserveControlCompletion(watchdog, completed_at) ==
  [completed |-> TRUE, reference |-> completed_at, health |-> "Healthy"]

\* Mutation of PollWatchdog: a watchdog never kicked stays in Startup.
PollWatchdogAfterFirst(watchdog, now) ==
  [watchdog EXCEPT !.health =
     IF ~watchdog.completed THEN "Startup"
     ELSE IF SaturatingSub(now, watchdog.reference) >= CONTROL_WATCHDOG_TIMEOUT
          THEN "Timeout" ELSE "Healthy"]

PollWatchdog(watchdog, now) ==
  [watchdog EXCEPT !.health =
     IF SaturatingSub(now, watchdog.reference) >= CONTROL_WATCHDOG_TIMEOUT THEN "Timeout"
     ELSE IF watchdog.completed THEN "Healthy" ELSE "Startup"]

-----------------------------------------------------------------------------
(* RuntimeSupervisor *)

NewSupervisor == [state |-> "Boot", faults |-> {}]

BootComplete(s) ==
  IF s.state = "Boot" THEN [s EXCEPT !.state = "HardwareCheck"] ELSE s

HardwareCheckPassed(s) ==
  IF s.state = "HardwareCheck" /\ s.faults = {} THEN [s EXCEPT !.state = "Standby"] ELSE s

RequestBalance(s) ==
  IF s.state = "Standby" /\ s.faults = {} THEN [s EXCEPT !.state = "CaptureWindow"] ELSE s

CaptureReady(s) ==
  IF s.state = "CaptureWindow" /\ s.faults = {} THEN [s EXCEPT !.state = "Balancing"] ELSE s

LatchFaults(s, faults) == [state |-> "Fault", faults |-> s.faults \cup faults]

\* The states in which a missing sensor or controller is a fault.
SupervisedStates == {"CaptureWindow"} \cup ClosedLoopStates

Timeouts(timing, watchdog_health) ==
  {fault \in {"SENSOR_TIMEOUT", "CONTROL_WATCHDOG_TIMEOUT"} :
     \/ fault = "SENSOR_TIMEOUT" /\ timing = "Timeout"
     \/ fault = "CONTROL_WATCHDOG_TIMEOUT" /\ watchdog_health = "Timeout"}

\* Mutation of ObserveIndependentHealth: the capture window is not supervised.
ObserveIndependentHealthLive(s, timing, watchdog_health) ==
  IF s.state \in ClosedLoopStates /\ Timeouts(timing, watchdog_health) # {}
  THEN LatchFaults(s, Timeouts(timing, watchdog_health))
  ELSE s

ObserveIndependentHealth(s, timing, watchdog_health) ==
  IF s.state \in SupervisedStates /\ Timeouts(timing, watchdog_health) # {}
  THEN LatchFaults(s, Timeouts(timing, watchdog_health))
  ELSE s

ObserveControlHealth(s, estimate_validity, reaction_wheel) ==
  CASE s.state \notin ClosedLoopStates -> s
    [] s.state \in ClosedLoopStates /\ estimate_validity # "Valid" ->
         LatchFaults(s, {"ESTIMATE_INVALID"})
    [] s.state \in ClosedLoopStates /\ estimate_validity = "Valid" ->
         CASE reaction_wheel = "Nominal"   -> [s EXCEPT !.state = "Balancing"]
           [] reaction_wheel = "Warning"   -> [s EXCEPT !.state = "MomentumLimited"]
           [] reaction_wheel = "Exhausted" -> LatchFaults(s, {"REACTION_WHEEL_EXHAUSTED"})
=============================================================================
