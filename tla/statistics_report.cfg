SPECIFICATION StatsSpec
CONSTANTS
  Users = {u1}
  Tokens = {t1}
  Workers = {w1, w2}
  NoUser = NoUser
  NoTime = NoTime
  SessionTicks = 0
  ExtendTicks = 1
  AwareColumns = FALSE
  MaxTime = 1
  MaxIds = 1
  MaxFailed = 1
  LockTicks = 1
  MaxWrong = 1
  MaxRefused = 0
  MaxCrashes = 0
SYMMETRY WorkerSymmetry
INVARIANTS
  LoginFiguresAddUp
  SessionFiguresAddUp
PROPERTIES SessionsSpec
