SPECIFICATION FairSpec
CONSTANTS
  Jobs = {"a"}
  OneShots = {}
  OnceJobs = {}
  Slots = {1, 2}
  MaxRuns = 2
  MaxOps = 3
  Faults = {"write error"}
INVARIANTS OneLiveTask ScheduledUnlessMissed
PROPERTIES ShutdownEnds
