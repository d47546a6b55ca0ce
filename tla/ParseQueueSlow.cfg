SPECIFICATION Spec
CONSTANTS
  Docs = {d1}
  NoDoc = NoDoc
  Procs = {api, worker}
  Api = api
  Drains = {k1}
  Runs = {r1, r2, r3}
  MaxActive = 1
  DeferMap = TRUE
  SlowJobs = TRUE
  ManualMaps = FALSE
  MaxFaults = 0
INVARIANT ClaimPreventsDoubleProcessing
CHECK_DEADLOCK FALSE
