\* Two requests at a time on two devices; any of them may be lost.  Packages and
\* jobs run out, and with them what the instance can do: that is no deadlock.
CONSTANTS
  Users = {u1}
  Devices = {d1, d2}
  Packages = {p1, p2}
  None = None
  ResetKey = ResetKey
  PoolSize = 3
  ServerIp = 1
  MaxAttempts = 1
  MaxLimit = 1
  MaxJobs = 2
  Faults = {"lost_transaction"}
  Operations = {"create", "download", "confirm", "reset", "revoke"}
  Threads = {t1, t2}
SYMMETRY Symmetry
SPECIFICATION RequestsSpec
INVARIANTS
  RequestsTypeOK
  DeletedMeansGone
  ConfirmationsHaveJobs
  NoStrayArtifacts
  AddressesDistinct
  DownloadsBounded
PROPERTIES
  DatesStand
CHECK_DEADLOCK FALSE
