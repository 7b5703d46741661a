\* Two clients, two concurrent requests, one failure of any kind.
SPECIFICATION Spec
CONSTANTS
  c1 = c1  c2 = c2  r1 = r1  r2 = r2
  Null = Null  Torn = Torn
  Clients <- TwoClients
  MaxAddr = 3
  Requests <- TwoRequests
  MaxFailures = 1
SYMMETRY Symmetry
INVARIANTS PeersAgree DiskFresh TornOnlyAtWork AddressesDistinct
CHECK_DEADLOCK FALSE
