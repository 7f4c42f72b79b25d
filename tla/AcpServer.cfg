SPECIFICATION FairSpec
CONSTANTS
  Opens = {"o"}
  Requests <- Mixed
  MayBe <- MixedKinds
  Nobody = "nobody"
  MaxQueued = 1
  MaxPending = 1
  MaxCalls = 2
  MaxRounds = 1
  MaxCancels = 1
  MaxNotes = 1
INVARIANTS TypeOK Held Truthful
PROPERTIES Served
CHECK_DEADLOCK FALSE
