SPECIFICATION FairSpec
CONSTANTS
  Client = {c1}
  c1 = c1
  InitSize <- OneFile
  Wanted = {"/lfs/log"}
  BlockSize = 2
  BlockMod = 4
  OtherPorts = {}
  MaxTransfers = 2
  MaxGrowth = 0
  MaxFaults = 1
  MaxResends = 1
PROPERTIES AckWaitEnds
CHECK_DEADLOCK FALSE
