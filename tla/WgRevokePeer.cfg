\* No faults at all.
CONSTANTS
  Users = {u1}
  Devices = {d1}
  Packages = {p1, p2}
  None = None
  ResetKey = ResetKey
  PoolSize = 2
  ServerIp = 1
  MaxAttempts = 1
  MaxLimit = 1
  MaxJobs = 3
  Faults = {}
  AgentFaults = {}
  LiveReconcile = FALSE
SYMMETRY Symmetry
SPECIFICATION RuntimeSpec
INVARIANTS
  RevokeDropsAllPeers
