SPECIFICATION Spec
CONSTANTS
  Docs = {d1}
  NoDoc = NoDoc
  Procs = {api}
  Api = api
  Drains = {k1, k2}
  Runs = {r1, r2, r3}
  MaxActive = 1
  DeferMap = FALSE
  SlowJobs = TRUE
  ManualMaps = TRUE
  MaxFaults = 1
SYMMETRY QueueSymmetry
INVARIANTS ActiveCountsRuns PollerOverrunBounded DoubleImportNeedsOverlap
CHECK_DEADLOCK FALSE
