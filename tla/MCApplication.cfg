\* An application under input, updates that fail at every step, reacting
\* observers and late validators.
SPECIFICATION Spec
CONSTANTS
  a = a
  b = b
  wide = wide
  narrow = narrow
  Nodes = {a, b}
  Values = {1, 2}
  Rejected = {1}
  Documents = {wide, narrow}
  NodesOf <- MCNodesOf
  MachineOf <- MCMachineOf
  Bound = {a, b}
  Validated = {b}
  Retention = 6
  MaxReactions = 1
  MaxThrows = 1
  InitialValue = 1
  MaxCalls = 3
INVARIANTS
  SurfacesAgree
  PageCurrent
  StoresFollow
  PendingIsAnswered
  VerdictsFresh
PROPERTIES
  FactsInOrder
\* The bounds on calls and reactions stop the behaviours.
CHECK_DEADLOCK FALSE
