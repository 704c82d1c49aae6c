SPECIFICATION Spec
CONSTANTS
  c1 = c1
  c2 = c2
  Conns = {c1}
  MaxSample = 1
  MaxMsgs = 2
  MaxQueue = 2
CHECK_DEADLOCK FALSE
INVARIANT StartNeverTerminates
