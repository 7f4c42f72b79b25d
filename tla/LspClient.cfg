SPECIFICATION FairSpec
CONSTANTS
  here = here
  there = there
  first = first
  second = second
  None = None
  Callers = {first, second}
  Keys = {here, there}
  MAX_SERVERS = 1
  RETRIES = 1
  Faults = {"exit", "modified", "cancel"}
  Asks <- AsksOfEach
  MaxEdits = 1
  MaxServers = 2
ACTION_CONSTRAINT OnlyWhatIsRead
INVARIANTS TypeOK Synced NothingStale
PROPERTIES Ends
CHECK_DEADLOCK FALSE
