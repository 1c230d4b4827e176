SPECIFICATION Spec
CONSTANTS
  Calls = {"c1", "c2"}
  Modes = {"test", "unset", "runner"}
INVARIANTS Truthful NoProcessLeft AnsweredAfterShutdown
PROPERTY ImplementsCall
