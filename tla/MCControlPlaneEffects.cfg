\* Effects of one key in either store under retries, crashes, concurrent backups and restores.
SPECIFICATION StoreSpec
CONSTANTS
  t1 = t1
  t2 = t2
  o1 = o1
  o2 = o2
  k1 = k1
  k2 = k2
  f1 = f1
  f2 = f2
  e1 = e1
  e2 = e2
  c1 = c1
  c2 = c2
  a1 = a1
  a2 = a2
  NoRequest = NoRequest
  Adapters = {"reference", "sqlite"}
  Tenants = {t1}
  Objects = {}
  Keys = {k1}
  Requests = {f1, f2}
  Editors = {}
  Callers = {c1, c2}
  Admins = {a1, a2}
  MaxDocuments = 1
  Faults = TRUE
  MaxRevision = 0
  MaxBackups = 2
  MaxRestores = 2
SYMMETRY StoreSymmetry
INVARIANTS
  SqliteReplayMatchesRequest
  AtMostOncePerRestore
\* The bounds on commits, backups and restores stop the behaviours.
CHECK_DEADLOCK FALSE
