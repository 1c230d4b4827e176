SPECIFICATION Spec
CONSTANTS
  Users = {"member", "viewer"}
  Viewers = {"viewer"}
  Accounts = {"a"}
  Reqs = {"r1", "r2"}
  PoolSizes = {1, 2}
  MaxChecks = 1
  Failures = {"auth_failed"}
INVARIANTS SwitchHolds VerificationHolds ChecksAudited
PROPERTIES DeletedStaysDeleted EveryRequestEnds
