SPECIFICATION FairSpec
CONSTANTS
  Event <- Events
  Source <- Sources
  num_timers = 3
  timer_events <- TimerEvents
  deciders <- Deciders
  Thread <- Threads
  MaySubmit <- SampleSubmits
  MayWait <- SampleWaits
  MaxSubmits = 1
INVARIANTS TypeOK AgreementNotLost AnnouncedIsJustified TimersFollowEvents ConfirmedOnce
PROPERTIES KeepsPromise WaitersWake TimersReport
CHECK_DEADLOCK FALSE
