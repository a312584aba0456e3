SPECIFICATION Spec
CONSTANTS
  Listened = {"power"}
  PadQueue = 2
  GroundQueue = 1
  LogQueue = 1
  Requests = {{"power", "gnss"}, {"power", "other"}}
  MaxSamples = 2
  MaxFixes = 2
  MaxAsked = 2
  MaxFaults = 1
INVARIANTS PinsAsTold QuietFixIsLogged
PROPERTIES ShownForward
CHECK_DEADLOCK FALSE
