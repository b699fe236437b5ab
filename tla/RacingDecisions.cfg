\* An approval and a rejection at a time.
CONSTANTS
  Emails = {e1, e2}
  Applications = {a1}
  LoginAttempts = {f1}
  Ips = {i1}
  Threads = {t1, t2}
  LoginLimit = 1
  Operations = {"setup", "submit", "approve", "reject", "login"}
  None = None
SYMMETRY Symmetry
SPECIFICATION Spec
PROPERTIES
  DecisionsFollowTable
