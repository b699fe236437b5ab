\* One user, one address; a database restored while the host stays up.
CONSTANTS
  Users = {u1}
  Devices = {d1, d2}
  Groups = {g1}
  None = None
  h1 = h1
  h2 = h2
  Hosts = {h1, h2}
  ServerHost = server
  GroupRows <- MCGroupRows
  PoolSize = 2
  ServerIp = 1
  MaxRules = 3
  HostEvents = {"restore"}
SYMMETRY Symmetry
SPECIFICATION FirewallSpec
INVARIANTS
  ReconcileRestores
