SPECIFICATION Spec
CONSTANTS
  Loops <- TwoLoops
  Commands = {"sync", "auth"}
  Syncing = {"syncLoop", "sync"}
  LoggingIn = {"auth"}
  AutoReauth = TRUE
  Faults = {"unanswered", "lost", "save", "kill", "ageing"}
  MaxTokens = 3
INVARIANTS TypeOK OnlyFullTokens NoDoubleRefresh CacheIsCurrent
PROPERTIES LoginOnlyWhenNeeded KeepsDesk
