SPECIFICATION FairSystemSpec
CONSTANTS
  a1 = a1  t1 = t1  k1 = k1  k2 = k2  i1 = i1  i2 = i2
  p1 = p1  p2 = p2  d1 = d1  d2 = d2
  Tenants = {t1}
  Accounts = {a1}
  Keys = {k1, k2}
  Users = {1, 2, 3}
  Amounts = {6, 7, 9}
  Instances = {i1, i2}
  CreateRequests = {p1, p2}
  DecideRequests = {d1}
  UserTenant <- MCUserTenant
  UserRole <- MCUserRole
  AccountTenant <- MCAccountTenant
  OpeningBalance <- MCOpeningBalance
  ApprovalThreshold = 6
  DoubleApprovalThreshold = 8
  Legacy <- NoLegacy
  SeedAudit = {}
  CreatePayloads <- TwoProcessCreatePayloads
  DecisionPayloads <- TwoProcessDecisionPayloads
INVARIANTS
  NoOverdraft
PROPERTIES
  DebitsAreExact
  EveryRequestAnswered
CHECK_DEADLOCK FALSE
