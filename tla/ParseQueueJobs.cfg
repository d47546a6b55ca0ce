SPECIFICATION FairSpec
CONSTANTS
  Docs = {d1}
  NoDoc = NoDoc
  Procs = {api, worker}
  Api = api
  Drains = {k1}
  Runs = {r1, r2, r3}
  MaxActive = 1
  DeferMap = TRUE
  SlowJobs = FALSE
  ManualMaps = FALSE
  MaxFaults = 2
INVARIANTS TypeOK OneRunPerDocument OnlyProcessingIsWorkedOn
PROPERTY QueuedDocumentsSettle
CHECK_DEADLOCK FALSE
