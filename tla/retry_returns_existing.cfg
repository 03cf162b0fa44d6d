SPECIFICATION CreationSpec
CONSTANTS
  a1 = a1  a2 = a2  t1 = t1  t2 = t2  k1 = k1  k2 = k2
  i1 = i1  i2 = i2  p1 = p1  p2 = p2  p3 = p3
  Tenants = {t1, t2}
  Accounts = {a1, a2}
  Keys = {k1, k2}
  Users = {1, 2, 3, 4}
  Amounts = {6, 7, 9}
  Instances = {i1}
  CreateRequests = {p1, p2}
  DecideRequests = {}
  UserTenant <- MCUserTenant
  UserRole <- MCUserRole
  AccountTenant <- MCAccountTenant
  OpeningBalance <- MCOpeningBalance
  ApprovalThreshold = 6
  DoubleApprovalThreshold = 8
  Legacy <- NoLegacy
  SeedAudit = {}
  CreatePayloads <- OneProcessPayloads
PROPERTIES
  RetryReturnsExisting
CHECK_DEADLOCK FALSE
