\* Two workers, the root and one task it spawns, two wakes besides.
CONSTANTS
  NWorkers = 2
  Tasks = {root, t1}
  Root = root
  NoTask = none
  MaxWakes = 2
SPECIFICATION FairSpec
INVARIANTS TypeOK SingleRunner ActiveExact QuiescentReturn NoMissedSignal
PROPERTIES ParkWakeSafe ParkWakeFair BlockOnReturns
