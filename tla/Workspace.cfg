SPECIFICATION WorkspaceSpec
CONSTANTS
  Workers = {w1, w2}
  Things = {x1, x2}
  People = {ann, x1, x2}
  Founder = ann
  Known = {ann}
  Clerks = {w1, w2}
  SeatLimit = 2
  OtherLimits = {0, 1}
  MaxIds = 4
  Documents = {x1, x2}
  Importers = {w1, w2}
  MaxRows = 2
  Months = 2
  TransactionLimit = 3
  Callers = {w1, w2}
  ProjectLimit = 2
  AccountLimit = 1
  MaxProjects = 3
  MaxAccounts = 3
  Statements = {x1, x2}
  Desks = {w1, w2}
  Cheques = {c1}
  MaxPeriods = 3
  Lessons = {ann, x1, x2}
  Nothing = none
  Learners = {w1, w2}
  Cap = 1
INVARIANTS
  WorkspaceTypeOK
  SeatsOverrunBounded AdminsKeepTheirSeats
  MonthOverrunBounded RowsAreMetered
   UsedAccountsAreSeated TwinsBounded
  
   PruningSettles
PROPERTIES EmptyOnlySideBySide NobodyJoinsUninvited ConfirmationsStick
SYMMETRY Symmetry
CHECK_DEADLOCK FALSE
