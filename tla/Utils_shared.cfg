SPECIFICATION Spec
CONSTANTS
  Callers = {ra, rs}
  MayDispose = TRUE
INVARIANTS
  TypeOK
  OnlyHeadTorn
CHECK_DEADLOCK FALSE
