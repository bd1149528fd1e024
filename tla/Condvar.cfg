CONSTANTS
  Waiters = {w1, w2}
  Notifiers = {n1, n2}
  Posts = 1
  TimedWaits = {TRUE, FALSE}
  Backends = {"c_linux", "c_other"}
  NoValue = NoValue
  None = None
SPECIFICATION FairSpec
CHECK_DEADLOCK FALSE
INVARIANTS
  PredicateStable
  NoLostNotify
  NotifyReported
PROPERTIES
  ItemsTaken
