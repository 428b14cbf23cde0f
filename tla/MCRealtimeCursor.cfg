\* Safety of the cursor and of the retained log, and its liveness under a service
\* that may leave messages out, though not for ever; no symmetry, which liveness
\* excludes.
SPECIFICATION CursorFairSpec
CONSTANTS
  p1 = p1
  p2 = p2
  Polls = {p1, p2}
  Adapter = "sqlite"
  Retention = 2
  MaxSequence = 5
  FaithfulService = FALSE
  MaximumMessages = 2
INVARIANTS
  ResumeComplete
PROPERTIES
  ReaderSpec
  EventuallyCurrent
