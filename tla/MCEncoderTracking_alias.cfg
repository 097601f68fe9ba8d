SPECIFICATION Spec
CONSTANTS
  MAX_DELTA = 16000
  MaxStep = 16000
  Steps <- MCSteps
  Starts <- MCStarts
  MaxSamples = 6
INVARIANT BoundProtectsUnwrapping
