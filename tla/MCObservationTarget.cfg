SPECIFICATION FairSpec
CONSTANTS
  QUEUE_STORAGE = 3
  OBSERVATION_DECIMATION = 2
  SEQUENCE_RANGE = 5
  DROPPED_MAX = 2
  CLOCK_RANGE = 14
  OFFSET_RANGE = 8
INVARIANTS NoLostWakeup WireTellsTheTruth
PROPERTIES GapsCounted QueueDrains ImplementsStream
