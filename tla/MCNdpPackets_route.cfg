SPECIFICATION Spec
CONSTANTS
  Bits <- MCBits
  PrefixLengths = {64}
  RoutePrefixLengths <- ItsRoute
  Lifetimes <- OneLifetime
  MaxAdverts = 1
  WordMod = 8
  Words <- MCWords
INVARIANT NoBitsBehindRoutePrefix
CHECK_DEADLOCK FALSE
