---------------------------- MODULE SensorTiming ----------------------------
(***************************************************************************)
(* The liveness monitor of the sensor-driven acquisition boundary, from    *)
(* supervisor/runtime-state.  The module has no state of its own: it gives *)
(* the value of a SensorTimingMonitor after each of its calls, and the     *)
(* modules that own a monitor keep that value in a variable.               *)
(*                                                                         *)
(* The code keeps started_at_us and an optional last_event_at_us.  Only    *)
(* "the last event, or else the start" is ever compared with the present,  *)
(* so a monitor here has that one stamp, "reference", and the flag "seen"  *)
(* for "an event has been recorded".                                       *)
(***************************************************************************)
EXTENDS Integers

CONSTANTS
  EXPECTED_PERIOD,  (* nominal interval between two sensor events           *)
  LATE_AFTER,       (* an interval this long or longer is Late               *)
  TIMEOUT_AFTER     (* an interval this long or longer is a Timeout          *)

\* SensorTimingLimits::new returns None for any other limits.
ASSUME SensorTimingLimits ==
  /\ EXPECTED_PERIOD \in Nat \ {0}
  /\ LATE_AFTER \in Nat /\ LATE_AFTER >= EXPECTED_PERIOD
  /\ TIMEOUT_AFTER \in Nat /\ TIMEOUT_AFTER > LATE_AFTER

SensorTimingHealth == {"Startup", "Healthy", "Late", "Timeout"}

Monitors(Stamp) == [seen : BOOLEAN, reference : Stamp,
                    cadence_verified : BOOLEAN, health : SensorTimingHealth]

ClosedLoopEligible(timing) == timing = "Healthy"

\* u64::saturating_sub: a stamp from the future counts as "no time elapsed".
SaturatingSub(a, b) == IF a >= b THEN a - b ELSE 0

ClassifyElapsed(elapsed) ==
  IF elapsed >= TIMEOUT_AFTER THEN "Timeout"
  ELSE IF elapsed >= LATE_AFTER THEN "Late" ELSE "Healthy"

NewMonitor(started_at) ==
  [seen |-> FALSE, reference |-> started_at,
   cadence_verified |-> FALSE, health |-> "Startup"]

\* Mutation of OnEvent: only the first event moves the reference.
OnEventFirstOnly(monitor, event_at) ==
  [seen |-> TRUE, reference |-> IF monitor.seen THEN monitor.reference ELSE event_at,
   cadence_verified |-> monitor.cadence_verified \/ monitor.seen,
   health |-> IF monitor.seen
              THEN ClassifyElapsed(SaturatingSub(event_at, monitor.reference))
              ELSE "Startup"]

\* SensorTimingMonitor::on_event, called from the sensor interrupt.
OnEvent(monitor, event_at) ==
  [seen             |-> TRUE,
   reference        |-> event_at,
   cadence_verified |-> monitor.cadence_verified \/ monitor.seen,
   health           |-> IF monitor.seen
                        THEN ClassifyElapsed(SaturatingSub(event_at, monitor.reference))
                        ELSE "Startup"]

\* SensorTimingMonitor::poll, called from a timebase the sensor does not drive.
PollMonitor(monitor, now) ==
  LET elapsed == SaturatingSub(now, monitor.reference)
      unproven == ~monitor.cadence_verified /\ elapsed < TIMEOUT_AFTER
  IN  [monitor EXCEPT !.health = IF unproven THEN "Startup"
                                 ELSE ClassifyElapsed(elapsed)]
=============================================================================
