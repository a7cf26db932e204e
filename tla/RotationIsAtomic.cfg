SPECIFICATION Spec
CONSTANTS
  Users = {u1}
  Logins = {l1}
  Refreshes = {x1, x2}
  NoUser = NoUser
  NoToken = NoToken
  MaxAttempts = 1
  Faults <- NoFaults
INVARIANT RotationIsAtomic
CHECK_DEADLOCK FALSE
