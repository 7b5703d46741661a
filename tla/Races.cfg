\* Orders: two users and two overlapping runs, kept apart by the unique index.
\* Keys: two requests in flight, for one key or for one account; keys expire.
SPECIFICATION RacesSpec
CONSTANTS
  u1 = u1  u2 = u2  trc = trc  tron = tron  tx1 = tx1
  w1 = w1  w2 = w2  k1 = k1  k2 = k2
  Null = Null
  Users <- TwoUsers
  Receipts <- AllReceipts
  MaxTime = 2
  Assets <- OneAsset
  Networks <- OneNet
  NetOf <- OneNetOf
  Bundling <- OneNet
  Offers <- OneOffer
  MaxDelta = 1
  Window = 1
  Tx <- OneTx
  Drift <- Exact
  Workers <- TwoWorkers
  TxIndex = TRUE
  IgnoredErrors = TRUE
  MaxOrders = 2
  Keys <- TwoKeys
  KeyPlans <- BothPlans
  KeyTTL = 1
  Redeemers <- TwoWorkers
SYMMETRY Symmetry
VIEW Told
INVARIANTS TxPaysOneOrder PaidIffCredited SharedAmountOnlyUnseen KeySingleUse KeysInv
PROPERTIES SettledStaysSettled RedeemGrantsPlan
CHECK_DEADLOCK FALSE
