CONSTANTS
  NumLinks = 2
  UserPages = 2
  ChanSz = 1
  ResultSz = 1
  UserIDSz = 2
  RequestSz = 2
  FaultSets <- SomeFaults
  Modes <- SomeModes
  EcChannels <- MCChannels
  EcMessages <- MCMessages
  EcDay <- MCDay
  EcThread <- MCThread
  Uncopied = {"m4"}
  FullDays = {"d1"}
  Avatars <- MCAvatars
  IndexFails = FALSE
  EcWorkers = {"w1"}
  EmPages <- MCEmPages
  Aliases = {"b"}
  Broken = {"c"}
  EmWorkers = {"w1", "w2"}
  Ways <- MCWays
SPECIFICATION RunsSpec
INVARIANT SelectionHonoured
 
INVARIANT ErrorsReported
INVARIANT PanicNeedsFailure
INVARIANT SuccessMeansWhole
 
CHECK_DEADLOCK FALSE
