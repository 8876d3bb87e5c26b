SPECIFICATION Spec
CONSTANTS
  Procs = {p, q}
  Discs = {"first", "second"}
  SeedOf <- MCSeedOf
  Period = 2
  Mask = 2
  Limits = {1, 2}
  Sectors = {0, 2}
  Damages <- MCDamages
  Words = {1, 5}
  Inodes = {i, j, k}
  Budget = 5
INVARIANTS
  TypeOK
  OutputIsRight
  RefusedWithCause
  CacheIsWhole
PROPERTY SearchHeals
CHECK_DEADLOCK FALSE
SYMMETRY MCSymmetry
