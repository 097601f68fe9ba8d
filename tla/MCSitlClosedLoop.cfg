SPECIFICATION Spec
CONSTANTS
  EXPECTED_PERIOD = 2
  LATE_AFTER = 3
  TIMEOUT_AFTER = 4
  CONTROL_WATCHDOG_TIMEOUT = 4
  OUTER_LOOP_DECIMATION = 2
  MaxDuration = 6
  SensorPeriods = {1, 2, 3}
  RuntimePeriods = {1, 2, 3}
INVARIANTS RememberedInputApplied FaultNeutralizes NoBacklog EvidenceSound ScheduleSound ClosedLoopNeedsSensor
PROPERTIES NoWindup ImplementsGate
