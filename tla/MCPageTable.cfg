CONSTANTS
  w1 = w1
  w2 = w2
  k1 = k1
  k2 = k2
  System = k2
  Window = {w1, w2}
  Part = {0, 1}
  Page = {p1, p2}
  Frame = {1, 2}
  Block = {b1, b2, b3}
  Key = {k1, k2}
  Slot = {1, 2}
  Length <- MCLength
  RingSize = 2
  Threads <- MCThreads
  MaxLeaked = 1
  None = None
SPECIFICATION Spec
INVARIANTS
  LoadedTablesAreLive
  TranslationsAreCurrent
  TablesAccounted
