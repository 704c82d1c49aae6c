SPECIFICATION Spec
CONSTANTS
  c1 = c1
  c2 = c2
  Conns = {c1, c2}
  MaxSample = 2
  MaxMsgs = 2
  MaxQueue = 2
SYMMETRY Symmetry
CHECK_DEADLOCK FALSE
INVARIANTS TypeOK IterationIntact StreamingHasThread PipelineOrdered
PROPERTY BroadcastsInOrder
