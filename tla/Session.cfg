\* Two requests, and edits enough for a file to be created, deleted, created
\* again, rewritten and deleted once more while they are served.
CONSTANTS
  Requests = {q, r}
  Files = {f}
  None = none
  MaxEdits = 5
SPECIFICATION FairSpec
INVARIANT ContentFresh
PROPERTY RequestsEnd
\* Every request is answered and every edit made in the end: the system stops.
CHECK_DEADLOCK FALSE
