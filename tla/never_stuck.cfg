SPECIFICATION DecisionSpec
CONSTANTS
  a1 = a1  a2 = a2  t1 = t1  t2 = t2  k1 = k1  i1 = i1  i2 = i2
  d1 = d1  d2 = d2  d3 = d3  legacy = legacy  single = single
  double = double  unknown = unknown
  Tenants = {t1, t2}
  Accounts = {a1, a2}
  Keys = {k1}
  Users = {1, 2, 3}
  Amounts = {7, 9}
  Instances = {i1}
  CreateRequests = {}
  DecideRequests = {d1, d2}
  UserTenant <- SeededUserTenant
  UserRole <- SeededUserRole
  AccountTenant <- MCAccountTenant
  OpeningBalance <- MCOpeningBalance
  ApprovalThreshold = 6
  DoubleApprovalThreshold = 8
  Legacy <- SeededLegacy
  SeedAudit <- SeededAudit
  DecisionPayloads <- SeededPayloads
INVARIANTS
  NeverStuck
CHECK_DEADLOCK FALSE
