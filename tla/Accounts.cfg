\* Two requests at a time; two addresses, two applications, two clients.
CONSTANTS
  Emails = {e1, e2}
  Applications = {a1, a2}
  LoginAttempts = {f1, f2, f3}
  Ips = {i1, i2}
  Threads = {t1, t2}
  LoginLimit = 1
  Operations = {"setup", "submit", "approve", "reject", "setup_password", "login"}
  None = None
SYMMETRY Symmetry
SPECIFICATION Spec
INVARIANTS
  TypeOK
  OneApprovalPerAccount
  PasswordComesWithToken
  TokenUsesBounded
  SessionsOfActiveAccounts
  SetupMatchesAdmin
  DecisionsRecorded
  GuessesBounded
