SPECIFICATION PassSpec
CONSTANTS
  Endpoint = {"keyboard"}
  ifaceOf <- Ifaces
  OutIface = {0}
  HidIface = {0}
  Protocol = {"uds", "udp"}
  NetSize = 1
  ChanSize = 1
  OutSize = 1
  MaxReports = 2
  MaxOutputs = 2
INVARIANTS PassTypeOK RefusalEndsOne
PROPERTIES PassesOn EchoReturns
