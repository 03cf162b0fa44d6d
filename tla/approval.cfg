SPECIFICATION DecisionSpec
CONSTANTS
  a1 = a1  a2 = a2  t1 = t1  t2 = t2  k1 = k1  i1 = i1  i2 = i2
  d1 = d1  d2 = d2  d3 = d3  legacy = legacy  single = single
  double = double  unknown = unknown
  Tenants = {t1, t2}
  Accounts = {a1, a2}
  Keys = {k1}
  Users = {1, 2, 3, 4, 5}
  Amounts = {7, 9}
  Instances = {i1, i2}
  CreateRequests = {}
  DecideRequests = {d1, d2, d3}
  UserTenant <- MCUserTenant
  UserRole <- MCUserRole
  AccountTenant <- MCAccountTenant
  OpeningBalance <- MCOpeningBalance
  ApprovalThreshold = 6
  DoubleApprovalThreshold = 8
  Legacy <- MCLegacy
  SeedAudit <- MCSeedAudit
  DecisionPayloads <- AllDecisionPayloads
INVARIANTS
  CompletedOnEnoughApprovals
  OpenStepsWhilePending
  DecidersEntitled
  DecisionsAudited
  DecisionAnswersTruthful
SYMMETRY Symmetry
CHECK_DEADLOCK FALSE
