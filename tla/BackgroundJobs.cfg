SPECIFICATION FairSpec
CONSTANTS
  agent = agent
  subagent = subagent
  None = None
  Callers = {agent, subagent}
  Session = agent
  MAX_JOBS = 1
  MaxStarted = 2
  MaxCalls <- CallsOfEach
INVARIANTS TypeOK Accounted
PROPERTIES NoSurprise JobsEnd
CHECK_DEADLOCK FALSE
