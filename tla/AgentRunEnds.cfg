SPECIFICATION PolledSpec
CONSTANTS
  Tools = {"write"}
  ConcurrentTools = {}
  ErrorKinds = {"ContextLengthExceeded", "StreamError", "Other"}
  MaxIterations = 3
  MaxStreamRetries = 1
  MaxCompactions = 1
  MaxContinuations = 1
  ReminderEvery = 1
  MaxCalls = 1
  MaxRuns = 1
  MaxRequests = 2
  MaxLate = 0
  Occurring = {"silence", "directory change", "blank reply", "manual compaction", "partial reply", "no limit"}
PROPERTIES CancelEnds RunEnds
