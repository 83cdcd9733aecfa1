\* Producers stop after MaxItems; with no consumer the system then stops.
CONSTANTS
  Producers = {p1, p2}
  Consumers = {c1, c2}
  Value = {a, b}
  MaxItems = 3
  Nobody = Nobody
SPECIFICATION FairSpec
INVARIANTS TypeOK MutualExclusion GuardedNeverWaits NoLostWakeup
PROPERTIES FifoSpec Drains
CHECK_DEADLOCK FALSE
