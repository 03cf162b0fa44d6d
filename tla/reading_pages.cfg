SPECIFICATION Spec
CONSTANTS
  Null = Null
  p1 = p1
  p2 = p2
  s1 = s1
  s2 = s2
  Events = 4
  Limit = 1
  Searched = {1, 3, 4}
  OfAction = {1, 2, 4}
  Recent = {3, 4}
  PaymentEvents = {2, 4}
  MaxFailures = 1
  Payment = {p1, p2}
  Step = {s1, s2}
  PaymentOf <- MCPaymentOf
  MaxAttempts = 1
  Catalog <- MCCatalog
  Today = 100
  PAGE_SIZE = 2
  MaxFailedLoads = 2
INVARIANTS
  RowsTruthful
  PathContiguous
  DetailTruthful
  ListComplete

  
