SPECIFICATION Spec
CONSTANTS
  Browsers = {b1}
  Users = {u1, u2}
  Logins = {l1, l2}
  Callbacks = {k1, k2}
  Logouts = {x1}
  Probes = {p1}
  MaxRestarts = 1
  None = None
INVARIANTS
  RefusedForCause
  LoggedOutStaysOut
  SessionsAreGenuine
CHECK_DEADLOCK FALSE
