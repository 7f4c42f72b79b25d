SPECIFICATION FairSpec
CONSTANTS
  Agents = {"a", "b", "c", "d"}
  Namesakes <- TwoNamesakes
  MaxConcurrent = 2
  Nobody = "nobody"
  MaxMessages = 3
  Awaited = {"a"}
  Panicking = {"a"}
  Outcomes = {"failed"}
INVARIANTS TypeOK PendingCounts CancelScoped ToldAtMostOnce
PROPERTIES KeepsPool WaitReturns
CHECK_DEADLOCK FALSE
