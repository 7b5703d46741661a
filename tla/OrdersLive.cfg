\* Two assets on two networks, two neighbouring amounts of each, sums that are not
\* exact; fair runs that may fail at any step.
SPECIFICATION FairSpec
CONSTANTS
  u1 = u1  gram = gram  trc = trc  ton = ton  tron = tron
  tx1 = tx1  w1 = w1
  Null = Null
  Users <- OneUser
  MaxTime = 1
  Assets <- TwoAssets
  Networks <- TwoNets
  NetOf <- TwoNetOf
  Bundling = {}
  Offers <- OneOffer
  MaxDelta = 2
  Window = 1
  Tx <- OneTx
  Drift <- QuarterUnit
  Workers <- OneWorker
  TxIndex = TRUE
  IgnoredErrors = TRUE
  MaxOrders = 2
  Receipts <- OrderIds
PROPERTIES OnTimePaymentReachesItsOrder MatchedOrderSettles
CHECK_DEADLOCK FALSE
