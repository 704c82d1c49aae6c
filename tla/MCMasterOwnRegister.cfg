SPECIFICATION Spec
CONSTANTS
  CheckEcho = TRUE
  MaxCalls = 3
  MaxInput = 2
CHECK_DEADLOCK FALSE
INVARIANT ReadsOwnRegister
