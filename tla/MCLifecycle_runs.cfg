SPECIFICATION FairSpec
CONSTANTS
  r1 = r1
  r2 = r2
  a = a
  b = b
  Run = {r1, r2}
  Load = {r1}
  Device = {r2}
  Killable = {r1, r2}
  Name = {a, b}
  nameOf <- Differ
  Foreign = Foreign
  NoGadget = NoGadget
  Retries = 2
INVARIANTS TypeOK ExitsClean AloneBinds AloneOwnsHidg
PROPERTIES LeavesOthers SignalEnds
