SPECIFICATION SeedSpec
CONSTANTS
  Roles = {r1}
  Permissions = {p1, p2}
  Users = {u1}
  Codes = {c1, c2}
  Links = {i1, i2, i3}
  Null = Null
  Workers = {w1, w2}
  SqlSchema = TRUE
  PermissionCodes = {c1, c2}
  RoleCodes = {c1}
  BarredCodes = {c2}
SYMMETRY Symmetry
VIEW View
INVARIANTS
  TypeOK
  NoOrphans
  CodesUnique
  GrantsUnique
  AssignmentsBounded
PROPERTIES
  RowsAsTold
  SeededWhole
  RightsSpec
