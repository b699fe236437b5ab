\* The worker alone drives the interface; commands fail and the worker dies.
\* No symmetry: there are liveness properties.
CONSTANTS
  Users = {u1}
  Devices = {d1}
  Packages = {p1, p2}
  None = None
  ResetKey = ResetKey
  PoolSize = 2
  ServerIp = 1
  MaxAttempts = 1
  MaxLimit = 1
  MaxJobs = 4
  Faults = {}
  AgentFaults = {"error", "crash"}
  LiveReconcile = FALSE
SPECIFICATION FairRuntimeSpec
INVARIANTS
  ActivePeersRouted
  RemovalCutsOff
PROPERTIES
  JobsDrain
  ConfirmedComesUp
