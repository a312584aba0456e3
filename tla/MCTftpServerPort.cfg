SPECIFICATION Spec
CONSTANTS
  Client = {c1, c2}
  c1 = c1
  c2 = c2
  InitSize <- OneFile
  Wanted = {"/lfs/log"}
  BlockSize = 2
  BlockMod = 4
  OtherPorts = {}
  MaxTransfers = 2
  MaxGrowth = 0
  MaxFaults = 0
  MaxResends = 0
INVARIANTS DataGoesToItsClient
CHECK_DEADLOCK FALSE
