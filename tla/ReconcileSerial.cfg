SPECIFICATION Spec
CONSTANTS
  Docs = {cb, bk}
  NoDoc = NoDoc
  CashDocs = {cb}
  Requests = {q1}
  Kinds = {"upload", "map", "type", "submit", "approve", "reopen", "undo", "delete", "match", "auto", "unmatch", "clear"}
  DeferMap = FALSE
  AutoCorrect = FALSE
  Careless = FALSE
  Faults = TRUE
  RowCounts = {0, 1, 2}
  MaxRows = 4
  MaxMatches = 2
INVARIANTS TypeOK PairsAcrossSides
PROPERTY ImplementsSignOff
CHECK_DEADLOCK FALSE
