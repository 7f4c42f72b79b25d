SPECIFICATION FairSpec
CONSTANTS
  Callers = {"agent", "startup", "other"}
  Ops <- OpsOfThree
  None = None
  Faults = {"write error"}
  MaxOps = 1
  MaxTokens = 2
INVARIANTS TypeOK Connections
PROPERTIES NeverReplaced Returns
CHECK_DEADLOCK FALSE
