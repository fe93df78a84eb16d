CONSTANTS
  Callers = {"c1", "c2"}
  List <- DlList
  Path <- DlPath
  Url <- DlUrl
  Invalid = {"x"}
  Workers = {"w1", "w2"}
  Buffer = 1
  Retries = 2
  MaxSessions = 1
  MaxAttempts = 4
  Cap = 20
  RetryAfter = 3
  Outcomes <- MCOutcomes
  Readers = {"r1", "r2"}
  Names = {"a", "b"}
  Damaged = {}
  BadLines = {"b"}
  MaxHandles = 4
  MayDestroy = TRUE
  Collections <- MCCollections
  Collectors = {"n1", "n2"}
  FileIds <- MCFileIds
  ChunkSet <- MCChunkSet
  MaxChunks = 3
  Clients = {"k1", "k2"}
  Days <- MCDays
  Requests = {"q1", "q2"}
  MaxCalls = 4
  Plans <- MCPlans
  Kind <- MCKind
  User <- MCUser
  Me = "me"
  ThreadsOf <- MCThreadsOf
  Attached <- MCAttached
  Name <- MCName
  Safe <- MCSafe
  Runs <- MCRuns
  Entries = 2
  ListFaults = 1
  Pages <- MCPages
  Replies <- MCReplies
  Lists <- MCLists
  Askers = {"k1", "k2"}
  Timeout = 2
  MaxFaults = 1
  MaxTime = 6
SPECIFICATION FilesSpec
INVARIANT FilesTypeOK
INVARIANT StopDrains
INVARIANT SavedIsWhole
INVARIANT RetriesPatiently
INVARIANT SharedWhole
INVARIANT ReadsBack
PROPERTY FilesReturn
CHECK_DEADLOCK FALSE
