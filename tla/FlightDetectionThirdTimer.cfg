SPECIFICATION Spec
CONSTANTS
  TimestampMod = 16
  BoostTime = 1
  NoseoverTime = 0
  GroundTime = 0
  LockoutTime = 2
  FullFlightTime = 4
  Velocities = {"up", "slow"}
  MaxPad = 2
  MaxRun = 1
INVARIANTS SensorLinesAreSensed
CHECK_DEADLOCK FALSE
