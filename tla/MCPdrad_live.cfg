SPECIFICATION FairSpec
CONSTANTS
  Modes <- AllModes
  Prefixes = {p1}
  Lengths = {0}
  Lifetimes <- ZeroLifetime
  Statuses <- NoStatuses
  Clients = {c1}
  Faults = {"connect"}
  MaxSignals = 1
  None = None
INVARIANTS
  StuckOnlyInWait
  WaitsForResult
PROPERTIES
  SignalStopsDaemon
  PublishedGetsAdvertised
  SolicitationAnswered
CHECK_DEADLOCK FALSE
