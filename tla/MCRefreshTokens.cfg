SPECIFICATION Spec
CONSTANTS
  Users = {"u"}
  Reqs = {r1, r2}
  MaxTokens = 3
  Expiring = {1}
INVARIANTS RotationAtomic RevocationAudited RevokeAllCovers
PROPERTIES RevokedForever
SYMMETRY RequestSymmetry
CHECK_DEADLOCK FALSE
