SPECIFICATION FairSpec
CONSTANTS
  EXPECTED_PERIOD = 2
  LATE_AFTER = 3
  TIMEOUT_AFTER = 6
  CONTROL_WATCHDOG_TIMEOUT = 10
  OUTER_LOOP_DECIMATION = 2
  CONTROL_PERIOD = 2
  MaxSamples = 16
INVARIANT InLoop
PROPERTY EndsAtRest
