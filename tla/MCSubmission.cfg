SPECIFICATION FairSpec
CONSTANTS
  x = x
  y = y
  z = z
  i1 = i1
  i2 = i2
  h1 = h1
  h2 = h2
  p = p
  q = q
  None = None
  Ids = {i1, i2}
  MaxEpoch = 1
  Owners = {x, y, z}
  Requests = {x, y, z}
  Hashes = {h1, h2}
  KeyBytes = 1
  MaxRecordBytes = 2
  MaxRecords = 2
  MaxBytes = 5
  Classes = {p, q}
  MaxInFlight = 3
  ClassLimit = 3
  BudgetLimit = 2
  Retention = 1
  MaxHistory = 1
  MaxNow = 2
  Setups <- MCSetups
INVARIANTS
  Accounted
  AnswersAgree
  CancelHolds
PROPERTIES
  ImplementsOnceLedger
  AttemptsEnd
