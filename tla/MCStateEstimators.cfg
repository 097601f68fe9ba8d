SPECIFICATION EstimatorSpec
CONSTANTS
  UPRIGHT_MEASUREMENT_COUNT = 3
  MaxPeriods = 4
PROPERTY ImplementsContract
