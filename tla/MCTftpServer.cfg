SPECIFICATION AnsweringSpec
CONSTANTS
  Client = {c1}
  c1 = c1
  InitSize <- AllSizes
  Wanted = {"/lfs/short", "/lfs/log", "/lfs/whole", "/lfs/empty", "/lfs/longer", "tree"}
  BlockSize = 2
  BlockMod = 4
  OtherPorts = {p}
  p = p
  MaxTransfers = 2
  MaxGrowth = 1
  MaxFaults = 2
  MaxResends = 2
INVARIANTS CompleteIsExact AckedIsReceived
PROPERTIES EveryRequestServed
CHECK_DEADLOCK FALSE
