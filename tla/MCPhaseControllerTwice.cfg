SPECIFICATION Spec
CONSTANTS
  Event <- Events
  Source <- Sources
  num_timers = 3
  timer_events <- TimerEvents
  deciders <- Deciders
  Thread <- Threads
  MaySubmit <- SampleSubmits
  MayWait <- SampleWaits
  MaxSubmits = 2
INVARIANTS EveryEventConfirmedOnce
CHECK_DEADLOCK FALSE
