SPECIFICATION Spec
CONSTANTS
  a1 = a1  a2 = a2  foreign = foreign  b1 = b1  b2 = b2  s1 = s1  s2 = s2  Null = Null
  Accounts = {a1, a2, foreign}
  OwnAccounts = {a1, a2}
  OpeningBalance <- MCOpeningBalance
  Amounts = {4, 6, 9}
  ApprovalThreshold = 6
  Batches = {b1, b2}
  Files <- MCFiles
  Singles = {s1, s2}
INVARIANTS
  BatchAllOrNothing
  BatchMoney
  BatchChain
SYMMETRY Symmetry
CHECK_DEADLOCK FALSE
