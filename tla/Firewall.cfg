\* Two users, two devices, one group; failing commands, reboots, and a restore
\* of an older database.
CONSTANTS
  Users = {u1, u2}
  Devices = {d1, d2}
  Groups = {g1}
  None = None
  h1 = h1
  h2 = h2
  Hosts = {h1, h2}
  ServerHost = server
  GroupRows <- MCGroupRows
  PoolSize = 3
  ServerIp = 1
  MaxRules = 3
  HostEvents = {"error", "reboot", "restore"}
SYMMETRY Symmetry
SPECIFICATION FirewallSpec
INVARIANTS
  FirewallTypeOK
  FilterIsDatabase
  ReconcileFilters
  ClientMatchesServer
