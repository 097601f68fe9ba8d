SPECIFICATION Spec
CONSTANTS
  QUEUE_STORAGE = 2
  EXPECTED_PERIOD = 1
  LATE_AFTER = 2
  TIMEOUT_AFTER = 3
  PROFILE_DECIMATION = 2
  CONTROL_DEADLINE_CYCLES = 2
  SEQUENCE_RANGE = 16
  DROPPED_MAX = 2
  OVERRUN_MAX = 2
  Costs = {1, 3}
  MaxRuns = 6
INVARIANT StreamTells
