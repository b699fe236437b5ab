\* One request at a time, in all its steps, with lost requests and late failures.
CONSTANTS
  Users = {u1}
  Devices = {d1}
  Packages = {p1, p2, p3}
  None = None
  ResetKey = ResetKey
  PoolSize = 2
  ServerIp = 1
  MaxAttempts = 1
  MaxLimit = 1
  MaxJobs = 3
  Faults = {"lost_transaction", "late_build_failure"}
  Threads = {t1}
  Operations = {"create", "download", "confirm", "reset", "revoke", "report_lost", "update_user"}
SYMMETRY Symmetry
SPECIFICATION RequestsSpec
PROPERTIES
  RefinesLifecycle
