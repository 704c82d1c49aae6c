SPECIFICATION Spec
CONSTANTS
  Interval = 3
  Wrap = 8
  PulsesPerRev = 20000
  NaN = NaN
  Temps <- SomeTemps
  MaxTime = 12
  MaxPulses = 2
CHECK_DEADLOCK FALSE
INVARIANTS TypeOK GetRpmNeverEarly PulsesConserved RegistersTellReadings
