\* A command with effects, a reading one and a stop; two daemons may be spawned.
CONSTANTS
  Daemons = {d, e}
  Clients = {w, r, s}
  Mutating = {w}
  Stoppers = {s}
  Idle = idle
  Stale = stale
  None = none
  MaxCrashes = 1
SPECIFICATION FairSpec
INVARIANTS SubmittedOnce IdleSparesAdmitted
PROPERTY CommandEnds
