SPECIFICATION FairServerSpec
CONSTANTS
  Threads = {t1}
  Calls = {c1, c2}
  NoThread = NoThread
  NoCall = NoCall
  MaxEvents = 1
  Signals = {SIGINT, SIGTERM}
  SchedulerEnabled = TRUE
INVARIANTS StreamsAreWhole ClosedInOrder NobodyIsStuck ShutdownIsNotStuck
PROPERTIES CallsWindDown EveryClientIsServed ShutdownEnds
CHECK_DEADLOCK FALSE
