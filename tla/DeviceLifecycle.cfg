\* Two devices that share the address pool, resets included, and four jobs;
\* requests may be lost and builds may fail late.
CONSTANTS
  Users = {u1}
  Devices = {d1, d2}
  Packages = {p1, p2}
  None = None
  ResetKey = ResetKey
  PoolSize = 3
  ServerIp = 1
  MaxAttempts = 2
  MaxLimit = 2
  MaxJobs = 4
  Faults = {"lost_transaction", "late_build_failure"}
SYMMETRY Symmetry
SPECIFICATION Spec
INVARIANTS
  TypeOK
  LivePackageOwnsDevice
  OnePackageInFlight
  PeersHaveConfirmedKeys
  RevokedIsFinal
  RemovalIsLast
  ApplyJobNotLost
  OneApplyJobPerConfirmation
  AddressesDistinct
  DeletedMeansGone
PROPERTIES
  QuotaRespected
  ImplementsRegistry
