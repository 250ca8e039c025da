\* Measurements with overflows, lines that overlap and a restless input.
SPECIFICATION Spec
CONSTANTS
  Wrap = 3
  MaxTicks = 8
  MaxMeasurements = 3
  Chunks = 2
INVARIANTS TypeOK MeasuredRight InputRearmed LastLineIsLatest
CHECK_DEADLOCK FALSE
