\* The jobs that restore and revoke keys, under their fairness.
SPECIFICATION FairSpec
CONSTANTS
  u1 = u1  c1 = c1  c2 = c2  i1 = i1  i2 = i2  r1 = r1  r2 = r2
  k1 = k1  k2 = k2  p1 = p1  p2 = p2
  Null = Null
  Users <- OneUser
  Configs <- OneVless
  OwnerOf <- Owner
  Awg = {}
  Installs <- OneInstall
  Unique <- OneInstall
  Rows <- OneRow
  Keys <- OneKey
  Limits = {1}
  Requests <- OneRequest
  Ops <- AccountOps
  Jobs = {"reconcile", "revoke"}
  Faults = TRUE
PROPERTIES HeldKeyServed LapsedConfigRevoked
CHECK_DEADLOCK FALSE
