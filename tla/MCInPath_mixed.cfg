SPECIFICATION FairSpec
CONSTANTS
  e1 = e1
  e2 = e2
  e3 = e3
  j1 = j1
  i1 = i1
  i2 = i2
  i3 = i3
  InEndpoint = {e1, e3}
  Injector = {}
  Isoc = {}
  ifaceOf <- MixedIfaceOf
  HidMapped = {i1}
  HidOpen = {i1}
  FfsMapped = {i3}
  FfsOutFile = {i3}
  BufSize = 2
  MaxReports = 2
PROPERTIES InOrder ShutdownStops
