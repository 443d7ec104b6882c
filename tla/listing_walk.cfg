SPECIFICATION Spec
CONSTANTS
  Rows = {r1, r2, r3, r4}
  Workers = {w1, w2}
  Nobody = Nobody
  PageSize = 2
  Mutable = TRUE
  MaxStamp = 5
SYMMETRY Symmetry
INVARIANTS
  TypeOK
  MissedBounded
