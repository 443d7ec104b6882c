SPECIFICATION FairSpec
CONSTANTS
  Users = {u1}
  Tokens = {t1}
  Workers = {w1}
  NoUser = NoUser
  NoTime = NoTime
  SessionTicks = 1
  ExtendTicks = 1
  AwareColumns = TRUE
  MaxTime = 4
  MaxIds = 1
  MaxFailed = 2
  LockTicks = 2
  MaxWrong = 3
  MaxRefused = 1
  MaxCrashes = 0
PROPERTY LockReleased
