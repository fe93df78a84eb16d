CONSTANTS
  Channels <- MCChannels
  Messages <- MCMessages
  Pages <- MCPages
  Replies <- MCReplies
  Joins = {"j"}
  Base <- MCBase
  Listings <- MCListings
  Requests <- MCRequests
  Dirs = {".", "out"}
  Faults = {"start", "list", "switch", "dir", "json", "history", "limit", "replies", "save", "file"}
  MaxLogins = 1
  MaxSyncs = 2
  MaxLimits = 1
  PageSize = 1
  Lookback = 1
  Refresh = FALSE
  IncludeThreads = TRUE
  MaxTime = 4
  MaxRuns = 3
  Procs = {"p1", "p2"}
  Names <- MCNames
  MaxCommands = 3
  Given <- MCGiven
  MaxFaults = 1
  MaxRounds = 2
SPECIFICATION HostSpec
INVARIANT HostTypeOK
INVARIANT NothingMissing
INVARIANT RightWorkspace
INVARIANT KeptWhole
INVARIANT CrashNeedsPrefetch
PROPERTY SyncReturns
CHECK_DEADLOCK FALSE
