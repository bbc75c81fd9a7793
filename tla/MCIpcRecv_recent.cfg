SPECIFICATION Spec
CONSTANTS
  Listener <- Both
  Anonymous = {}
  ChanSize = 1
  OutSize = 1
  MaxPackets = 2
  MaxOutputs = 1
INVARIANT MostRecent
