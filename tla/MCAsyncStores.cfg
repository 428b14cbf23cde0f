\* One session, its controller and another writer; no symmetry, which liveness
\* excludes.
SPECIFICATION FairSpec
CONSTANTS
  p1 = p1
  p2 = p2
  Paths = {p1, p2}
  Policies = {"external-wins", "reject-concurrent"}
  MaxEdits = 3
  MaxOthers = 1
INVARIANTS
  CurrentOrReported
PROPERTIES
  WritesKeepOtherPaths
  WritesSettle
\* Edits and foreign writes are bounded: a behaviour ends when all is settled.
CHECK_DEADLOCK FALSE
