SPECIFICATION Spec
CONSTANTS
  Jobs = {"a", "b"}
  OneShots = {"a"}
  OnceJobs = {"b"}
  Slots = {1, 2}
  MaxRuns = 1
  MaxOps = 2
  Faults = {"crash", "write error"}
INVARIANTS TypeOK OneShotOnce
PROPERTIES JobsKept
