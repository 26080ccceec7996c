CONSTANTS
  Processor = {p1, p2, p3}
  Nobody = Nobody
  Busy = Busy
SPECIFICATION SpinSpec
INVARIANTS
  MutualExclusion
  NoLostUnit
PROPERTIES
  SoleRetryAcquires
  ImplementsTryLock
