CONSTANTS
  Procs = {p, q}
  NoProc = noproc
  Versions = {v1, v2}
  Absent = absent
  NoTx = notx
  MaxEdits = 1
  MaxCrashes = 2
SPECIFICATION FairSpec
INVARIANTS PublishedTogether InterruptionRecoverable
PROPERTIES NoForeignOverwrite Recovers
