CONSTANTS
  Tasks = {t1, t2, t3}
  NoTask = none
  MaxThreads = 2
SPECIFICATION FairSpec
INVARIANTS OneCall ResultAnnounced NoStrandedJob
PROPERTY CallReturns
