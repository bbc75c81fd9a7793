SPECIFICATION FairSpec
CONSTANTS
  Listener <- Both
  Anonymous <- Uds
  ChanSize = 1
  OutSize = 1
  MaxPackets = 2
  MaxOutputs = 1
PROPERTIES AimedAtSender ShutdownStops
