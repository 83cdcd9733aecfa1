CONSTANTS
  N = 1
  Failing = {}
  MayWatch = FALSE
SPECIFICATION Spec
INVARIANT NoUseAfterDelete
CHECK_DEADLOCK FALSE
