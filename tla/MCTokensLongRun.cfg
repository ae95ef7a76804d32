SPECIFICATION Spec
CONSTANTS
  Loops <- TwoLoops
  Commands = {}
  Syncing = {"syncLoop"}
  LoggingIn = {}
  AutoReauth = FALSE
  Faults = {"ageing"}
  MaxTokens = 4
INVARIANTS RefreshedOnce
