\* Documents of two tenants in either store under racing editors, backups and restores.
SPECIFICATION StoreSpec
CONSTANTS
  t1 = t1
  t2 = t2
  o1 = o1
  o2 = o2
  k1 = k1
  k2 = k2
  f1 = f1
  f2 = f2
  e1 = e1
  e2 = e2
  c1 = c1
  c2 = c2
  a1 = a1
  a2 = a2
  NoRequest = NoRequest
  Adapters = {"reference", "sqlite"}
  Tenants = {t1, t2}
  Objects = {o1, o2}
  Keys = {}
  Requests = {}
  Editors = {e1, e2}
  Callers = {}
  Admins = {a1}
  MaxDocuments = 1
  Faults = FALSE
  MaxRevision = 3
  MaxBackups = 2
  MaxRestores = 1
SYMMETRY StoreSymmetry
INVARIANTS
  NoLostUpdate
  RevisionNamesOneRecord
  FeedAccountsForDocuments
\* The bounds on commits, backups and restores stop the behaviours.
CHECK_DEADLOCK FALSE
