\* A paid order whose account then redeems a lifetime key.
SPECIFICATION BillingSpec
CONSTANTS
  u1 = u1  u2 = u2  gram = gram  ton = ton  tx1 = tx1  w1 = w1
  k1 = k1  k2 = k2  r1 = r1  r2 = r2  c1 = c1  g1 = g1
  Null = Null
  Users <- OneUser
  Receipts <- AllReceipts
  MaxTime = 2
  Assets <- OneAsset
  Networks <- OneNet
  NetOf <- OneNetOf
  Bundling = {}
  Offers <- OneOffer
  MaxDelta = 1
  Window = 1
  Tx <- OneTx
  Drift <- Exact
  Workers <- OneWorker
  TxIndex = FALSE
  IgnoredErrors = FALSE
  MaxOrders = 1
  Keys <- OneKey
  KeyPlans <- BothPlans
  KeyTTL = 1
  Redeemers <- OneRequest
  Charges <- OneCharge
  StarPlans <- OneDay
  Grants <- OneGrant
  GrantDays <- OneDay
PROPERTIES SweepOnlyUncredited
CHECK_DEADLOCK FALSE
