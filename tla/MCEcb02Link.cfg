SPECIFICATION LinkSpec
CONSTANTS
  TELEMETRY_DECIMATION = 2
  OLED_DECIMATION = 3
  U32_RANGE = 8
  TransportAnswers = {"Done", "Busy", "Error"}
  DisplayAnswers = {"Done", "Busy", "Error"}
  MaxTicks = 18
  SEQUENCE_RANGE = 8
  FirstSequence = 6
  PieceLengths = {3, 10}
  MaxRecords = 3
  MaxDropped = 1
  MaxFaults = 1
  MaxWire = 4
  MaxQueue = 1
INVARIANTS OutputsTell CaptureTells
