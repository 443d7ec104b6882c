SPECIFICATION FairSpec
CONSTANTS
  Users = {u1}
  Tokens = {t1, t2}
  Workers = {w1}
  NoUser = NoUser
  NoTime = NoTime
  SessionTicks = 1
  ExtendTicks = 1
  AwareColumns = FALSE
  MaxTime = 2
  MaxIds = 1
  MaxFailed = 2
  LockTicks = 1
  MaxWrong = 3
  MaxRefused = 1
  MaxCrashes = 1
INVARIANTS
  TypeOK
  LockConsistent
  CountMatchesLog
  LogoutAnswersTrue
PROPERTIES
  LockReleased
  OpenedUnlocked
  AccountSpec
