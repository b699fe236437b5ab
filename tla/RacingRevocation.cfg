\* A confirmation and a revocation at a time.
CONSTANTS
  Users = {u1}
  Devices = {d1}
  Packages = {p1, p2}
  None = None
  ResetKey = ResetKey
  PoolSize = 2
  ServerIp = 1
  MaxAttempts = 1
  MaxLimit = 1
  MaxJobs = 2
  Faults = {}
  Operations = {"create", "confirm", "revoke", "update_user"}
  Threads = {t1, t2}
SYMMETRY Symmetry
SPECIFICATION RequestsSpec
INVARIANTS
  RevokedIsFinal
