SPECIFICATION Spec
CONSTANTS
  Tools = {"write"}
  ConcurrentTools = {}
  ErrorKinds <- EachRecovery
  MaxIterations = 5
  MaxStreamRetries = 1
  MaxCompactions = 1
  MaxContinuations = 1
  ReminderEvery = 1
  MaxCalls = 1
  MaxRuns = 1
  MaxRequests = 2
  MaxLate = 1
  Occurring = {"attachment"}
INVARIANTS TypeOK FailuresBounded EndsWell
