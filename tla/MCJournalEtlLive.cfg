SPECIFICATION FairSpec
CONSTANTS
  NFiles = 2
  MaxLines = 2
  BatchSize = 1
  Kinds = {"legacy", "junk", "poison"}
  TornWrites = TRUE
  LateAppends = FALSE
PROPERTIES EventuallyIngested StopHonoured
