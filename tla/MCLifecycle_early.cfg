SPECIFICATION Spec
CONSTANTS
  r1 = r1
  r2 = r2
  a = a
  b = b
  Run = {r1}
  Load = {r1}
  Device = {}
  Killable = {}
  Name = {a}
  nameOf <- Single
  Foreign = Foreign
  NoGadget = NoGadget
  Retries = 2
INVARIANT NoLeftover
