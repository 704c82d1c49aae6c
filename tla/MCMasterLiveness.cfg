SPECIFICATION FairSpec
CONSTANTS
  CheckEcho = TRUE
  MaxCalls = 2
  MaxInput = 2
CHECK_DEADLOCK FALSE
PROPERTY CallReturns
