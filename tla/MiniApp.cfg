\* Each part of the Mini App on an instance of its own.
SPECIFICATION MiniSpec
CONSTANTS
  ann = ann  bob = bob  t1 = t1
  o1 = o1  o2 = o2  p1 = p1  p2 = p2  d1 = d1  b1 = b1  b2 = b2
  Nothing = Nothing  None = None  Nobody = Nobody
  Users <- TwoUsers
  Keys <- TwoKeys
  Writes <- OneWrite
  Kind <- Toggle
  Owner <- OfAnn
  OrderIds <- TwoOrders
  Assets <- TwoMethods
  PlanDays = {7}
  FirstPlan = 7
  HadSub = TRUE
  Taps <- TwoTaps
  MaxTicks = 1
  MaxCredits = 1
  Sheets <- SheetSet
  Bottoms <- BottomSet
  Parents <- ParentsOf
  Inside <- InsideOf
  Late = {"pay", "rename"}
  HomeOrders = {"o1"}
  MaxLoads = 2
  Profiles <- TwoProfiles
  ProfileDevices <- OneDevice
  DeviceOf <- OfFirst
  Reads = {"get"}
  Updates = {"post"}
  MockOrders = {"m1"}
  MockDevices = {"iphone"}
  PlanTerm = {7, 30}
  Amounts = {0, 23, 46}
  MaxPoints = 3
  Powers = {1, 10, 100, 1000}
  Widths = {50, 320}
  Fingers = {0, 100, 111, 330}
  Platforms = {"phone", "tablet", "desktop"}
  Detected <- SystemOf
INVARIANTS MiniTypeOK OwnDataOnly NoStaleCommit ConfirmedStaysShown NeverStuck ScreenWatched DoneIsTrue ModalsAccounted BackClosesTopSheet PaidNeverLockedOut NothingGoesUnasked RepeatedOnlyByLoss PaidIsSettled BarsFillTheAxis
PROPERTIES HomeIsUncovered ScrubUnderFinger
SYMMETRY Alike
VIEW Part
CHECK_DEADLOCK FALSE
