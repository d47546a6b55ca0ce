SPECIFICATION BooksSpec
CONSTANTS
  Cheques = {c1}
  MaxPeriods = 3
INVARIANT SettledChequesLeave
CHECK_DEADLOCK FALSE
