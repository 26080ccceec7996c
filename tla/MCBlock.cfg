CONSTANTS
  p1 = p1
  p2 = p2
  p3 = p3
  w1 = w1
  w2 = w2
  d1 = d1
  d2 = d2
  t1 = t1
  t2 = t2
  Block = {1, 2, 3, 4, 5}
  Phys = {1, 2, 3, 4, 5}
  Page = {p1, p2, p3}
  Window = {w1, w2}
  Domain = {d1, d2}
  Thread = {t1, t2}
  WindowOf <- MCWindowOf
  Preferred <- MCPreferred
  DomainOf <- MCDomainOf
  Answers <- MCAnswers
  UpdateOf <- MCUpdateOf
  Calls <- MCCalls
  Wakeable = {w2}
  BlockLimit <- MCLimit
  PageLimit <- MCLimit
  Swappable = {w2}
  CopyOnWrite = {w1, w2}
  Reserve = 1
  MaxBlocks = 5
  WriteAt = 3
  FreeAt = 4
  Memory = memory
  None = None
SYMMETRY Symmetric
SPECIFICATION Spec
INVARIANTS
  OneBlockPerPage
  MappingsFollowRoot
  LocksCountUsers
  PagesAccounted
  ModificationsAreKnown
  WaitersServed
