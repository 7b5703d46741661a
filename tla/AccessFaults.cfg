\* One request against two cron jobs; anything may fail.
SPECIFICATION Spec
CONSTANTS
  u1 = u1  c1 = c1  c2 = c2  i1 = i1  i2 = i2  r1 = r1  r2 = r2
  k1 = k1  k2 = k2  p1 = p1  p2 = p2
  Null = Null
  Users <- OneUser
  Configs <- VlessAndAwg
  OwnerOf <- Owner
  Awg <- OnlyAwg
  Installs <- OneInstall
  Unique <- OneInstall
  Rows <- OneRow
  Keys <- OneKey
  Limits = {1}
  Requests <- OneRequest
  Ops <- FaultOps
  Jobs = {"reconcile", "cleanup"}
  Faults = TRUE
INVARIANT BlockedHasNoVlessKey
CHECK_DEADLOCK FALSE
