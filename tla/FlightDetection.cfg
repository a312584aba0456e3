SPECIFICATION FairSpec
CONSTANTS
  TimestampMod = 16
  BoostTime = 1
  NoseoverTime = 0
  GroundTime = 0
  LockoutTime = 2
  FullFlightTime = 2
  Velocities = {"up", "slow"}
  MaxPad = 2
  MaxRun = 1
INVARIANTS PhasesInOrder BoostTimeIsKnown
PROPERTIES FlightEnds
CHECK_DEADLOCK FALSE
