SPECIFICATION Spec
CONSTANTS
  Tools = {"read", "write"}
  ConcurrentTools = {"read"}
  ErrorKinds = {}
  MaxIterations = 1
  MaxStreamRetries = 1
  MaxCompactions = 1
  MaxContinuations = 1
  ReminderEvery = 1
  MaxCalls = 2
  MaxRuns = 2
  MaxRequests = 2
  MaxLate = 1
  Occurring = {"partial reply"}
INVARIANTS Paired
PROPERTIES ExecutedInOrderOnce
