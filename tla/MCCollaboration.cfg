\* Reviews of a protected branch and rebases of an open one.
SPECIFICATION MCSpec
CONSTANTS
  u = u
  v = v
  w = w
  alice = alice
  bob = bob
  carol = carol
  p1 = p1
  p2 = p2
  k1 = k1
  Values = {u, v, w}
  MaxItems = 3
  Actors <- MCActors
  Capabilities <- MCCapabilities
  Proposals = {p1, p2}
  Keys = {k1}
  Branches = {"main", "release"}
  BranchPolicies <- MCBranchPolicies
  Genesis <- MCGenesis
  Patches <- MCPatches
  ApprovalTtl = 1
  PresenceTtl = 1
  EventCapacity = 2
  MaxRevision = 4
  MaxTime = 1
  MaxComments = 1
  MaxEvents = 8
INVARIANTS
  ReviewedHistory
  ReviewedPublication
  EffectsAnswered
  FollowerAgrees
  RebaseSafe
PROPERTIES
  HistorySpec
\* The bounds on revisions, events and time stop the behaviours.
CHECK_DEADLOCK FALSE
