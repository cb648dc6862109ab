\* One output pipe; every queue holds one entry, so that all of them fill up.
CONSTANTS
  Streams = {o}
  EventCap = 1
  QueueCap = 1
  PipeCap = 1
  SockCap = 1
SPECIFICATION RunFairSpec
INVARIANTS OneCredit OutputComplete
PROPERTY SupervisionEnds
