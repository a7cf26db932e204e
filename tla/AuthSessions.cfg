SPECIFICATION FairSpec
CONSTANTS
  Users = {u1}
  Logins = {l1, l2}
  Refreshes = {x1, x2}
  NoUser = NoUser
  NoToken = NoToken
  MaxAttempts = 1
  Faults <- AllFaults
INVARIANTS
  TypeOK
  SpentStaysSpent
  IssuedTokenWorks
  LimitIsEarned
  IInv
PROPERTY LimitLifts
CHECK_DEADLOCK FALSE
