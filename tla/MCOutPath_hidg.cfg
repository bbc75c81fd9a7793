SPECIFICATION FairSpec
CONSTANTS
  f1 = f1
  f2 = f2
  i1 = i1
  i2 = i2
  Reader = {f1, f2}
  ifaceFor <- HidgIface
  OutIface = {i1}
  OutIsoc = {}
  Mode = "forward"
  BufSize = 2
  MaxReports = 3
INVARIANT TypeOK
PROPERTIES StreamSafe OutputReaches ShutdownStops
