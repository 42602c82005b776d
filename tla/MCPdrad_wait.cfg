SPECIFICATION Spec
CONSTANTS
  Modes <- DhcpMode
  Prefixes = {p1}
  Lengths <- MCLengths
  Lifetimes <- OneLifetime
  Statuses <- NoStatuses
  Clients = {c1}
  Faults = {"send"}
  MaxSignals = 0
  None = None
INVARIANT WaitsForResult
CHECK_DEADLOCK FALSE
