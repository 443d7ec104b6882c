SPECIFICATION Spec
CONSTANTS
  Users = {u1}
  Tokens = {t1, t2}
  Workers = {w1, w2}
  NoUser = NoUser
  NoTime = NoTime
  SessionTicks = 0
  ExtendTicks = 1
  AwareColumns = TRUE
  MaxTime = 1
  MaxIds = 1
  MaxFailed = 2
  LockTicks = 1
  MaxWrong = 3
  MaxRefused = 0
  MaxCrashes = 1
SYMMETRY Symmetry
INVARIANTS
  LoginsMatchSessions
  LockEarned
  
PROPERTY LockAudited
