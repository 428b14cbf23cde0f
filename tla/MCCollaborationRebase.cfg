\* A proposal is moved over a revision that changed what it writes.
SPECIFICATION MCSpec
CONSTANTS
  u = u
  v = v
  w = w
  alice = alice
  bob = bob
  carol = carol
  p1 = p1
  p2 = p2
  k1 = k1
  Values = {u, v, w}
  MaxItems = 3
  Actors <- MCActors
  Capabilities <- MCCapabilities
  Proposals = {p1, p2}
  Keys = {k1}
  Branches = {"main", "release"}
  BranchPolicies <- MCBranchPolicies
  Genesis <- MCRebaseGenesis
  Patches <- MCPatches
  ApprovalTtl = 1
  PresenceTtl = 1
  EventCapacity = 2
  MaxRevision = 4
  MaxTime = 1
  MaxComments = 1
  MaxEvents = 8
INVARIANTS
  RebaseDisjoint
\* The bounds on revisions, events and time stop the behaviours.
CHECK_DEADLOCK FALSE
