SPECIFICATION Spec
CONSTANTS
  Docs = {cb, bk}
  NoDoc = NoDoc
  CashDocs = {cb}
  Requests = {q1}
  Kinds = {"upload", "submit"}
  DeferMap = TRUE
  AutoCorrect = FALSE
  Careless = TRUE
  Faults = FALSE
  RowCounts = {1}
  MaxRows = 2
  MaxMatches = 1
PROPERTY NoEditsWhileLocked
CHECK_DEADLOCK FALSE
