\* The counter overflows while it is being stopped.
SPECIFICATION Spec
CONSTANTS
  Wrap = 3
  MaxTicks = 8
  MaxMeasurements = 3
  Chunks = 2
INVARIANT EveryMeasurementRight
CHECK_DEADLOCK FALSE
