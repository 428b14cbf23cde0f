\* Four calls of a session, an edit by others and a commit of the host.
SPECIFICATION FairSpec
CONSTANTS
  MaxOperations = 4
  Requests = {1, 2}
  Proposals <- MCProposals
  HostProposals <- MCHostProposals
  Initial <- Base
  Edits <- MCEdits
  MaxEdits = 1
  Tokens = {1, 2}
  InputLimit = 1
  OutputLimit = 1
  InputPrice = 2
  OutputPrice = 3
  PriceUnit = 4
  CostLimit = 2
INVARIANTS
  BudgetsSettled
  PreviewsAccounted
PROPERTIES
  AppliedAsReviewed
  BusyEnds
\* The calls are bounded: a behaviour ends when they are used up.
CHECK_DEADLOCK FALSE
