SPECIFICATION Spec
CONSTANTS
  Modes <- DhcpMode
  Prefixes = {p1}
  Lengths <- MCLengths
  Lifetimes <- OneLifetime
  Statuses <- NoPrefixAvail
  Clients = {c1}
  Faults = {"reply"}
  MaxSignals = 0
  None = None
INVARIANT AdvertisesDelegatedPrefix
CHECK_DEADLOCK FALSE
