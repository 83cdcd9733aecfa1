CONSTANTS
  N = 2
  Failing = {0,2}
  MayWatch = TRUE
SPECIFICATION FairSpec
INVARIANTS TypeOK DisabledByOne UpIsSafe LeftOnlyIfEarly StaysTold
PROPERTY SaveWaitsForAReason
CHECK_DEADLOCK FALSE
