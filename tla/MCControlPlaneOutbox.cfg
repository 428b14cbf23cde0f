\* Leases, attempts and delivery; no symmetry, which liveness excludes.
SPECIFICATION FairSpec
CONSTANTS
  w1 = w1
  w2 = w2
  Workers = {w1, w2}
  NoWorker = NoWorker
  Retention = 1
  MaxSequence = 2
  LeaseTerm = 2
  ClockLag = 1
  RetryDelay = 1
  CommandLimit = 2
  MaxTime = 3
  MaxAttempts = 3
INVARIANTS
  LeaseExclusive
  AttemptsFence
PROPERTIES
  EventuallyDelivered
\* Publications, time and attempts are bounded: a drained outbox stops.
CHECK_DEADLOCK FALSE
