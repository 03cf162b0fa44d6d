SPECIFICATION FairSpec
CONSTANTS
  Item <- MCItem
  SignedIn = adm
  Beginnings <- MCBeginnings
  Step = {s1, s2}
  Payment = {p1}
  PaymentOf <- MCPaymentOf
  Locations = 2
  TargetOf <- MCTargetOf
  MaxRequests = 2
  MaxWithHistory = 1
  adm = adm
  att = att
  p1 = p1
  s1 = s1
  s2 = s2
  Null = Null
INVARIANTS
  BellTruthful
  OwnPaymentsOnly
  DecisionsShown
PROPERTIES
  NoBlindRetry
  ApprovalPagesSettle
