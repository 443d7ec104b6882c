SPECIFICATION Spec
CONSTANTS
  Users = {u1, u2}
  Emails = {e1, e2}
  Names = {n1, n2}
  Tenants = {t1, t2}
  Titles = {x1}
  Codes = {c1}
  Null = Null
  Workers = {w1, w2}
  SqlSchema = FALSE
SYMMETRY Symmetry
VIEW View
INVARIANTS
  TypeOK
  IdentitiesUnique
  TenantUsersEnrolled
  NothingLeftBehind
PROPERTIES
  FoundedWhole
  AccountsAsTold
  DirectorySpec
