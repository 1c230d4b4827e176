SPECIFICATION FairSpec
CONSTANTS
  Users = {"owner", "viewer"}
  Owners = {"owner"}
  Reqs = {r1, r2}
  MaxActions = 3
  Failures = TRUE
INVARIANTS RowsTogether RowsAreTrue JoinsAllThree
PROPERTY StopReached
CHECK_DEADLOCK FALSE
