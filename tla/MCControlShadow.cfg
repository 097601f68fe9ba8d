SPECIFICATION Spec
CONSTANTS
  COUNTER_RANGE = 16
  CYCLES_PER_US = 2
  EXPECTED_PERIOD = 1
  LATE_AFTER = 2
  TIMEOUT_AFTER = 3
  FullEffort = 4
  FULL_MILLI = 2
  STEPS_PER_MILLI = 2
  HEALTH_PERIOD = 2
  Commands <- MCCommands
  TaskBudget = 1
  MinEdgeGap = 2
  MaxTurns = 2
INVARIANTS ClocksRead WordsTellSink
PROPERTIES PollSeesSilence AuthorizedOnTime
