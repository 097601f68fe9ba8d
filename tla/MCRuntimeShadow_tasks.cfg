SPECIFICATION FairSpec
CONSTANTS
  EXPECTED_PERIOD = 4
  LATE_AFTER = 6
  TIMEOUT_AFTER = 12
  CONTROL_WATCHDOG_TIMEOUT = 12
  HEALTH_PERIOD = 1
  OUTER_DECIMATION = 2
  RECORD_DECIMATION = 2
  TaskBudget = 1
  MinEdgeGap = 3
  MaxEdgeGap = 4
INVARIANTS AuthorityIsCurrent SensorLossDetected ControlLossDetected CadenceProven RecordCoherent NoSpuriousTimeout
PROPERTIES HoldOutlastsFault TimeoutEndsInFault CaptureEnds ImplementsGate
