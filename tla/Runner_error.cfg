CONSTANTS
  NumLinks = 6
  UserPages = 1
  ChanSz = 1
  ResultSz = 1
  UserIDSz = 6
  RequestSz = 6
  FaultSets = {{"link"}}
  Modes = {{"api"}}
SPECIFICATION FairSpec
PROPERTY ReturnsTheError
CHECK_DEADLOCK FALSE
