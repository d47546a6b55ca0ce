SPECIFICATION Spec
CONSTANTS
  Docs = {cb, bk}
  NoDoc = NoDoc
  CashDocs = {cb}
  Requests = {q1}
  Kinds = {"upload", "map", "match"}
  DeferMap = FALSE
  AutoCorrect = FALSE
  Careless = FALSE
  Faults = FALSE
  RowCounts = {1, 2}
  MaxRows = 4
  MaxMatches = 1
INVARIANT NoOneSidedMatch
CHECK_DEADLOCK FALSE
