SPECIFICATION Spec
CONSTANTS
  Bits <- MCBits
  PrefixLengths = {64}
  RoutePrefixLengths <- AnyRoute
  Lifetimes <- OneLifetime
  MaxAdverts = 2
  WordMod = 8
  Words <- MCWords
INVARIANTS
  TypeOK
  CopiesFit
  ReceiverFindsOptions
  OnlyRouteInfoLeaks
  ChecksumLacksLastCarryOnly
CHECK_DEADLOCK FALSE
