CONSTANTS
  Channels <- MCChannels
  Threads <- MCThreads
  Pages <- MCPages
  Replies <- MCReplies
  Links <- MCLinks
  ChanCap = 1
  ThreadCap = 1
  ResultCap = 1
  Faults = {"api", "notfound", "callback", "cancel", "badlink", "retry"}
  MaxRetries = 1
  SkipNotFound = TRUE
SPECIFICATION FairSpec
INVARIANT TypeOK
INVARIANT QuietOnSuccess
INVARIANT NoRepeatedPages
INVARIANT StragglersBounded
INVARIANT PanicNeedsCancel
 
PROPERTY Returns
CHECK_DEADLOCK FALSE
