SPECIFICATION Spec
CONSTANTS
  Users = {u1, u2}
  Tokens = {t1, t2}
  Workers = {w1}
  NoUser = NoUser
  SessionTicks = 2
  ExtendTicks = 1
  AwareColumns = FALSE
  MaxTime = 5
  MaxIds = 2

PROPERTY RevokedCountIsActual
