SPECIFICATION PolledSpec
CONSTANTS
  e1 = e1
  e2 = e2
  e3 = e3
  j1 = j1
  i1 = i1
  i2 = i2
  i3 = i3
  InEndpoint = {e1, e2}
  Injector = {j1}
  Isoc = {e2}
  ifaceOf <- HidIfaceOf
  HidMapped = {i1, i2}
  HidOpen = {i1, i2}
  FfsMapped = {}
  FfsOutFile = {}
  BufSize = 2
  MaxReports = 2
INVARIANTS TypeOK NothingLost
PROPERTIES StreamSafe StreamMoves Delivered
