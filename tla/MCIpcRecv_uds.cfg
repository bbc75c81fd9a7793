SPECIFICATION BusySpec
CONSTANTS
  Listener <- Uds
  Anonymous <- Uds
  ChanSize = 1
  OutSize = 1
  MaxPackets = 4
  MaxOutputs = 1
INVARIANTS TypeOK MostRecent
PROPERTIES TargetNeverRegresses KeepsReceiving
