CONSTANTS
  Tasks = {root, t1}
  Root = root
  Host = host
  NoTask = none
  Cancellers = {host, root}
  Cleaners = {root, t1}
  MaxDepth = 0
  OwnScopeOnly = TRUE
SPECIFICATION FairSpec
PROPERTY TearsDown
