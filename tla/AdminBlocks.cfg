\* Two accounts, with a device each.
SPECIFICATION PanelSpec
CONSTANTS
  p1 = p1  p2 = p2  d1 = d1  d2 = d2  Nobody = Nobody
  Profiles <- TwoProfiles
  ProfileDevices <- TwoDevices
  DeviceOf <- OneEach
PROPERTY BlockingIsConfirmed
CHECK_DEADLOCK FALSE
