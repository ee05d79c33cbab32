SPECIFICATION FairSpec
CONSTANTS
  t1 = t1
  t2 = t2
  Threads = {t1, t2}
  NumFiles = 5
  BatchSizeOverride = 4
  kMaxTuRetries = 2
  MaxFaults = 1
INVARIANTS
  TypeOK
  Conserved
  OutstandingExact
  SettledAtReturn
  RedispatchBound
  RetriesPaidFor
  NoLostWakeup
PROPERTIES
  ImplementsContract
  Termination
