SPECIFICATION TenantSpec
CONSTANTS
  t1 = t1
  s1 = s1
  s2 = s2
  c1 = c1
  w1 = w1
  w2 = w2
  null = null
  Tenant <- OneTenant
  ProviderSub <- TwoSubs
  CustomerOf <- OneCustomer
  Worker <- TwoWorkers
  None = null
  MaxEvents = 3
  Reported = {"active", "past_due", "canceled"}
SYMMETRY Symmetry
INVARIANTS EventAppliedOnce AccessFollowsSubscription
CHECK_DEADLOCK FALSE
