CONSTANTS
  Tasks = {t, u}
  NoTask = none
  Connecting = {u}
  Sleepers = {t}
  Closers = {u}
  Cancellable = {t}
  PollEvery = 2
  MaxArrivals = 1
  MaxNow = 1
SPECIFICATION FairSpec
INVARIANTS NoSleepOnReadiness PollBoundedByTimers QueuedWorkInterrupts
PROPERTY SleepEnds
