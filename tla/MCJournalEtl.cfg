SPECIFICATION Spec
CONSTANTS
  NFiles = 2
  MaxLines = 2
  BatchSize = 2
  Kinds = {"contract", "legacy", "junk", "poison"}
  TornWrites = FALSE
  LateAppends = FALSE
INVARIANTS TypeOK CheckpointComplete OneRowPerLine CheckpointIsDurable
PROPERTY ImplementsMirror
