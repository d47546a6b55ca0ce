SPECIFICATION Spec
CONSTANTS
  Docs = {cb, bk}
  NoDoc = NoDoc
  CashDocs = {cb}
  Requests = {q1, q2}
  Kinds = {"upload", "map", "match", "auto"}
  DeferMap = TRUE
  AutoCorrect = TRUE
  Careless = TRUE
  Faults = FALSE
  RowCounts = {1}
  MaxRows = 3
  MaxMatches = 2
SYMMETRY RequestSymmetry
INVARIANTS MatchesSound OrphansArePurged
CHECK_DEADLOCK FALSE
