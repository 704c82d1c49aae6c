SPECIFICATION Spec
CONSTANTS
  n1 = n1
  n2 = n2
  n3 = n3
  n4 = n4
  data_thread = data_thread
  io_thread = io_thread
  Null = Null
  Nodes = {n1, n2, n3, n4}
  Producers = {data_thread, io_thread}
  MaxTasks = 4
CHECK_DEADLOCK FALSE
INVARIANTS TypeOK NoUseAfterFree ListIntact
PROPERTIES ImplementsTaskQueue EveryTaskRuns
