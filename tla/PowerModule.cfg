SPECIFICATION FairSpec
CONSTANTS
  QueueSize = 2
  MaxSamples = 4
  MaxFaults = 1
  MaxRestarts = 1
INVARIANTS
  TypeOK
  StreamsInOrder
  SamplesAccountedFor
  LandingStopsLog
  LogBeginsAtBoost
PROPERTIES
  QueuedIsWritten
