CONSTANTS
  Channels <- MCChannels
  Threads <- MCThreads
  Home <- MCHome
  Pages <- MCPages
  Replies <- MCReplies
  Direct = {"t4"}
  WithFiles = {"C1","t4"}
  RecordFiles = TRUE
  MayFail = TRUE
  MessagePages <- MCMessagePages
  UserPages <- MCUserPages
  MaxChunks = 3
  MaxSessions = 2
  LinkSets <- MCLinkSets
  Lists <- MCLists
SPECIFICATION BackendsSpec
INVARIANT BackendsTypeOK
INVARIANT HandedOver
INVARIANT DirCounts
INVARIANT DatabaseAnswers
PROPERTY AllConverted
CHECK_DEADLOCK FALSE
