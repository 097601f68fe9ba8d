---------------------------- MODULE SitlScenario ----------------------------
(***************************************************************************)
(* What a SITL run is made of: a validated scenario and the events the     *)
(* runner schedules for it before it starts, from tools/sitl.              *)
(*                                                                         *)
(* Every event is scheduled before the first one is dispatched, and each   *)
(* kind at most once per instant, so the queue of the code is a set here   *)
(* and its insertion sequence, which orders only events of equal time and  *)
(* phase, is left out.                                                     *)
(***************************************************************************)
EXTENDS Integers

CONSTANTS
  MaxDuration,     (* bound: the longest scenario                           *)
  SensorPeriods,   (* bound: the sensor periods tried                       *)
  RuntimePeriods   (* bound: the runtime periods tried                      *)

ASSUME SitlScenarioBounds ==
  /\ MaxDuration \in Nat
  /\ SensorPeriods \subseteq Nat \ {0}
  /\ RuntimePeriods \subseteq Nat \ {0}

\* The instants schedule_periodic visits.
Grid(duration, period) == {at \in 0 .. duration : at % period = 0}

\* Scenario::validate accepts just these.
Scenarios ==
  {s \in [duration : 0 .. MaxDuration, sensor_period : SensorPeriods,
          runtime_period : RuntimePeriods, missed : SUBSET (0 .. MaxDuration)] :
     \A at \in s.missed : at <= s.duration /\ at % s.runtime_period = 0}

SensorSampleCount(s)       == s.duration \div s.sensor_period + 1
RuntimeOpportunityCount(s) == s.duration \div s.runtime_period + 1

EventKind == {"ScenarioStart", "SensorSample", "ObservationDelivery", "ProductionRuntime",
              "RuntimeOpportunityMissed", "ActuationCommit"}

\* Mutation of Phase: the runtime runs before the observation is delivered.
PhaseRuntimeFirst(kind) ==
  CASE kind = "ScenarioStart"            -> 0
    [] kind = "SensorSample"             -> 1
    [] kind = "ProductionRuntime"        -> 2
    [] kind = "RuntimeOpportunityMissed" -> 2
    [] kind = "ObservationDelivery"      -> 3
    [] kind = "ActuationCommit"          -> 4

\* SemanticPhase: the order of the events of one instant.
Phase(kind) ==
  CASE kind = "ScenarioStart"            -> 0
    [] kind = "SensorSample"             -> 1
    [] kind = "ObservationDelivery"      -> 2
    [] kind = "ProductionRuntime"        -> 3
    [] kind = "RuntimeOpportunityMissed" -> 3
    [] kind = "ActuationCommit"          -> 4

\* When each kind of event is scheduled.
Instants(kind, s) ==
  CASE kind = "ScenarioStart" -> {0}
    [] kind \in {"SensorSample", "ObservationDelivery"} -> Grid(s.duration, s.sensor_period)
    [] kind \in {"ProductionRuntime", "ActuationCommit"} ->
         Grid(s.duration, s.runtime_period) \ s.missed
    [] kind = "RuntimeOpportunityMissed" -> Grid(s.duration, s.runtime_period) \cap s.missed

Schedule(s) ==
  {event \in [at : 0 .. s.duration, kind : EventKind] :
     event.at \in Instants(event.kind, s)}
=============================================================================
