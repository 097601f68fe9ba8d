SPECIFICATION FairSpec
CONSTANTS
  EXPECTED_PERIOD = 2
  LATE_AFTER = 3
  TIMEOUT_AFTER = 6
  CONTROL_WATCHDOG_TIMEOUT = 6
  HEALTH_PERIOD = 1
  OUTER_DECIMATION = 2
  RECORD_DECIMATION = 2
  TaskBudget = 1
  MinEdgeGap = 2
  MaxEdgeGap = 2
PROPERTIES FaultNeutralizesOutput
