\* Two contexts on one bus, two calls, two keys in caches of one entry, a change
\* applied optimistically: supersession, aborts, retries, invalidation, eviction.
SPECIFICATION FairSpec
CONSTANTS
  c1 = c1
  c2 = c2
  x1 = x1
  x2 = x2
  k1 = k1
  k2 = k2
  NoCall = NoCall
  Contexts = {c1, c2}
  Actors = {"a"}
  Keys = {k1, k2}
  Calls = {x1, x2}
  Capacity = 1
  MaxAttempts = 2
  Optimistic = TRUE
CONSTRAINT FirstCall
INVARIANTS
  SupersededLeavesNoTrace
  LeaseMatchesOutcome
  SuccessInvalidates
  CacheFollowsInvalidations
PROPERTIES
  EveryCallSettles
\* Each call is used once: a behaviour ends when all have settled.
CHECK_DEADLOCK FALSE
