CONSTANTS
  Channels <- MCChannels
  Threads <- MCThreads
  Pages <- MCPages
  Replies <- MCReplies
  Links <- MCLinks
  ChanCap = 1
  ThreadCap = 1
  ResultCap = 2
  Faults = {"cancel"}
  MaxRetries = 0
  SkipNotFound = TRUE
SPECIFICATION Spec
INVARIANT NoSendOnClosed
CHECK_DEADLOCK FALSE
