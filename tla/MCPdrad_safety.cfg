SPECIFICATION Spec
CONSTANTS
  Modes <- AllModes
  Prefixes = {p1}
  Lengths = {56}
  Lifetimes <- OneLifetime
  Statuses <- NoPrefixAvail
  Clients = {c1}
  Faults <- FaultKinds
  MaxSignals = 0
  None = None
INVARIANTS
  TypeOK
  PrivateSocketsKept
  LifetimesShareByteOrder
  StuckOnlyInWait
  ReplyHoldsUpNobody
  AdvertisesGrantedPrefix
  GrantedOnlyOnce
PROPERTY AdvertisesPublishedRecords
CHECK_DEADLOCK FALSE
