SPECIFICATION Spec
CONSTANTS
  Modes <- DhcpMode
  Prefixes = {p1}
  Lengths <- MCLengths
  Lifetimes <- OneLifetime
  Statuses <- NoStatuses
  Clients = {c1}
  Faults <- NoFaults
  MaxSignals = 0
  None = None
INVARIANT RequestHasSocket
CHECK_DEADLOCK FALSE
