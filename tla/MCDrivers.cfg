SPECIFICATION Spec
CONSTANTS
  TimestampMod = 8
  Duration = 3
  Gaps = {1, 2, 3}
  MaxFeedTime = 24
  Tasks <- TwoTasks
  MaxTurns = 3
  len = 3
  Steps = {0, 1, 2}
  Values = {0, 1, 2}
  MaxFed = 5
  MaxTime = 7
  Fraction = 2
  BeforeLaunch = 1
  MaxWeather = 3
  MaxFaults = 1
  MaxSettings = 2
  MaxSetups = 3
  MaxReads = 2
  MaxLoad = 4
  MaxMotion = 3
  Channels = {0, 1}
  Inputs = {1, 2}
  Gains = {0, 1}
  Freezing = {2}
  Modes = {"continuous", "triggered"}
INVARIANTS NeverEarly PassesUnlessMarked DecodedAsSent TasksLiveOnce FitsTheLatest ReplaysTheFlight FieldsMeetMembers FreshWhenOk SampleOfItsInputs
PROPERTIES UpdatesAreWhole
CHECK_DEADLOCK FALSE
