SPECIFICATION Spec
CONSTANTS
  Callers = {"startup"}
  Ops <- OpsOfOne
  None = None
  Faults = {}
  MaxOps = 1
  MaxTokens = 2
INVARIANTS CredentialsKept
CHECK_DEADLOCK FALSE
