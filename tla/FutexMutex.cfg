CONSTANTS
  Threads = {t1, t2, t3, t4}
  Values = {0, 1}
  NoValue = NoValue
  None = None
SPECIFICATION FairSpec
INVARIANTS
  TypeOK
  MutualExclusion
  NoLostUpdate
  NoLostWakeup
PROPERTIES
  ImplementsLock
  LockProgress
