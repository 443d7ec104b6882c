SPECIFICATION FairSpec
CONSTANTS
  Users = {u1}
  Emails = {e1}
  Names = {n1}
  Tenants = {t1, t2}
  Titles = {x1}
  Codes = {c1, c2}
  Null = Null
  Workers = {w1, w2}
  SqlSchema = TRUE
INVARIANTS
  CodesUnique
PROPERTIES
  DeletionIsFinal
  RequestsEnd
