\* Notifications, cache fills, expiries and page loads race; one failure.
CONSTANTS
  None = None
  Workers = {w1, w2}
  Fillers = {f1}
  Pages = {p1}
  MaxChanges = 2
  MaxFailures = 1
SPECIFICATION FairSpec
INVARIANT CacheCatchesUp
PROPERTY CacheSettles
CHECK_DEADLOCK FALSE
