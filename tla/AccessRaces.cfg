\* Two requests at once on one account with two devices; every server answers.
SPECIFICATION Spec
CONSTANTS
  u1 = u1  c1 = c1  c2 = c2  i1 = i1  i2 = i2  r1 = r1  r2 = r2
  k1 = k1  k2 = k2  p1 = p1  p2 = p2
  Null = Null
  Users <- OneUser
  Configs <- OneVless
  OwnerOf <- Owner
  Awg = {}
  Installs <- TwoInstalls
  Unique <- OneInstall
  Rows <- TwoRows
  Keys <- TwoKeys
  Limits = {1, 2}
  Requests <- TwoRequests
  Ops <- DeviceOps
  Jobs = {}
  Faults = FALSE
SYMMETRY Symmetry
INVARIANTS TypeOK NoStrayKeys
PROPERTY InsertWithinLimit
CHECK_DEADLOCK FALSE
