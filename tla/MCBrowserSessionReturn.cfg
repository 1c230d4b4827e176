SPECIFICATION BrowserSpec
CONSTANTS
  Users = {"u"}
  Reqs = {r1, r2}
  MaxTokens = 3
  Expiring = {}
  Tabs = {"a"}
  Calls = {c1, c2}
  PageUpsets = 2
  UserUpsets = 1
INVARIANT ReturningUserLandsAuthed
CHECK_DEADLOCK FALSE
