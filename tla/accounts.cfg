CONSTANTS
  UserIds <- MC_UserIds
  Emails <- MC_Emails
  Passwords = {"pw1", "pw2"}
  FullNames = {"n1", "n2"}
  Requests = {p1, p2}
  TokenIds <- MC_TokenIds
  LoginMaxFailedAttempts = 2
  LockoutTime = 1
  TokenLifetime = 1
  LimitRequests = 2
  LimitWindow = 1
  Mixes <- MC_Mixes
  MaxRequests = 4
  MaxTime = 2
  MaxFaults = 1
  Null = Null
SPECIFICATION Spec
INVARIANTS
  SessionsFollowPassword
  OneLiveToken
  ResetTokenOnce
  LockAfterFailures
  DeletedIsAnonymous
  CounterExpires
SYMMETRY MC_Symmetry
CHECK_DEADLOCK FALSE
