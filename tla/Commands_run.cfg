CONSTANTS
  w1 = w1
  w2 = w2
  r1 = r1
  r2 = r2
  r3 = r3
  r4 = r4
  Clients <- MCClients
  Requests <- MCRequests
  BufferSize = 2
  MayFail = TRUE
  LateCalls = TRUE
  DumpCallers <- MCDumpCallers
  DumpRequests <- MCDumpRequests
  DumpFailing <- MCDumpFailing
  MayCancel = TRUE
  SearchPages <- MCSearchPages
  FilePages = 2
  InfoCap = 1
  SearchFaults <- MCSearchFaults
  Wants <- MCWants
  MenuItems <- MCItems
  MenuConfig <- MCConfig
  ParamKind <- MCKind
  ParamValues <- MCValues
  ParamStarts <- MCStarts
  IsValid <- MCValid
  IsReady <- MCReady
  LinesBeyond = 1
  MailBound = 2
  WindowBound = 3
  FileTree <- MCTree
  DepthBound = 2
  ReadBound = 2
  RemovedBound = 1
  ClockMax <- MCClock
SPECIFICATION CommandsSpec
INVARIANT TypeOK
INVARIANT NoRequestLost
INVARIANT NilMeansDone
INVARIANT UsersBeforeConversion
INVARIANT CommandsCleanUp
INVARIANT WaitsAccounted
INVARIANT PassesWhole
INVARIANT WindowsAgree
PROPERTY CommandsReturn
CHECK_DEADLOCK FALSE
