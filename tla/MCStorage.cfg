SPECIFICATION FairSpec
CONSTANTS
  MaxBoots = 3
  MaxFaults = 1
  num_packets = 2
  MaxPackets = 6
  MaxNames = 2
  MaxLines = 3
  Size <- TwoAndThree
  MaxSamples = 7
  BufferSize <- TwoOfEach
  Threshold <- OneOfEach
  Readings <- OneSlow
  MaxReadings = 4
  MaxBelow = 1
  Files <- FastThenAdc
  LooksFirst = {"adc"}
  Pack <- TwoOfAdc
  QueueSize = 1
  MaxRecords <- TwoOfFast
  MaxFlights = 2
  MaxWriteFaults = 1
INVARIANTS CountsClosedBoots NewOverOld LogsKeptWhole FramesLeftWhole LaunchIsSaved RecordsAccountedFor
PROPERTIES RecordingEnds
CHECK_DEADLOCK FALSE
