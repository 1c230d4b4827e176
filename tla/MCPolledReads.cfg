SPECIFICATION Spec
CONSTANTS
  Users = {"u"}
  Endpoints = {"status", "control"}
  Guarded = {"status"}
  Reqs = {r1, r2, r3}
  MaxProcess = 2
SYMMETRY RequestSymmetry
INVARIANTS OneRowPerProcess ReadersAudited
