SPECIFICATION Spec
CONSTANTS
  Callers = {ra, rs}
  MayDispose = FALSE
INVARIANT DeliversAddress
