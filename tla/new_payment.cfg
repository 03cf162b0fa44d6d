SPECIFICATION PageSpec
CONSTANTS
  Accounts = {1}
  IbanTexts = {"", " ", "SE1", "SE2"}
  AmountTexts = {"", "10"}
  IbanOf <- MCIbanOf
  AmountOf <- MCAmountOf
  MaxKeys = 2
  MaxCalls = 2
  MaxPages = 2
  Ibans = {x}
  DemoAllowed = TRUE
  MaxRequests = 3
  Role = "initiator"
  p1 = p1
  p2 = p2
  p3 = p3
  x = x
  y = y
  Id = {p1, p2, p3}
  Iban = {x, y}
  RecentLists <- MCRecentLists
  Details <- MCDetails
  Loop = {l1, l2}
  Limit = 3
INVARIANTS
  
  ConfirmationMatches
  ListsTruthful
  SavesTruthful
  HistoryInv
PROPERTIES
  HistoryPromise
  PageSettles
CHECK_DEADLOCK FALSE
