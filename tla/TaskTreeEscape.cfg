CONSTANTS
  Tasks = {root, t1, t2}
  Root = root
  Host = host
  NoTask = none
  Cancellers = {host}
  Cleaners = {t1, t2}
  MaxDepth = 1
  OwnScopeOnly = FALSE
SPECIFICATION Spec
INVARIANT SubtreeFollows
\* Two tasks may hold each other's handles and await one another for ever.
CHECK_DEADLOCK FALSE
