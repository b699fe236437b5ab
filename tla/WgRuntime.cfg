\* Two devices, every fault of worker, agent and host, and reconcile runs
\* while the services are up.
CONSTANTS
  Users = {u1}
  Devices = {d1, d2}
  Packages = {p1, p2}
  None = None
  ResetKey = ResetKey
  PoolSize = 3
  ServerIp = 1
  MaxAttempts = 1
  MaxLimit = 2
  MaxJobs = 2
  Faults = {}
  AgentFaults = {"error", "crash", "timeout", "reboot"}
  LiveReconcile = TRUE
SYMMETRY Symmetry
SPECIFICATION RuntimeSpec
INVARIANTS
  RuntimeTypeOK
  KernelKeysConfirmed
  RoutesBelong
  ReconcileSyncs
