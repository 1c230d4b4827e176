SPECIFICATION Spec
CONSTANTS
  Users = {"u"}
  Credentials = {"key", "phone"}
  Counting = {"key"}
  Reqs = {r1, r2}
  MaxChallenges = 3
SYMMETRY RequestSymmetry
INVARIANTS RedeemedIsSpent RemovedStaysRemoved NotLockedOut
PROPERTIES SessionNeedsPasskey LastPasskeyKept
CHECK_DEADLOCK FALSE
