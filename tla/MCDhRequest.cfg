SPECIFICATION FairRequestSpec
CONSTANTS
  Codes <- MCCodes
  DataLengths <- MCLengths
  MaxOptions = 3
  Sizes <- MCSizes
  SizeMod = 524288
  OutOfMemory = TRUE
  ClientSizes <- MCClientSizes
  RequestFaults <- MCFaults
  MaxRounds = 2
INVARIANTS
  RequestTypeOK
  CopyFillsPacket
  RoundTrip
  HeadersStartInside
  CreatedHeadersInside
  NotedOptionsRead
  CopiesWholeOptions
  RoundsLeak
PROPERTIES
  StepsWindDown
  Returns
CHECK_DEADLOCK FALSE
