SPECIFICATION Spec
CONSTANTS
  Users = {u1}
  Tokens = {t1, t2}
  Workers = {w1, w2}
  NoUser = NoUser
  SessionTicks = 1
  ExtendTicks = 1
  AwareColumns = FALSE
  MaxTime = 2
  MaxIds = 1

INVARIANT RevokedAreEnded
PROPERTY NoResurrection
