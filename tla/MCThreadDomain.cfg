CONSTANTS
  d1 = d1
  d2 = d2
  i1 = i1
  i2 = i2
  j1 = j1
  t1 = t1
  t2 = t2
  s1 = s1
  s2 = s2
  s3 = s3
  Thread = {t1, t2}
  Semaphore = {d1, d2, other}
  None = None
  Stack = {s1, s2, s3}
  Domain = {d1, d2}
  Other = other
  Units = 1
  MaxThread <- MCMaxThread
  MaxStack <- MCMaxStack
  Incarnation <- MCIncarnation
  BootThread = t1
  BootStack = s1
  BootDomain = d1
  MaxDrift = 1
  MaxGrown = 1
SYMMETRY Alike
SPECIFICATION Spec
INVARIANTS
  MonitorUnits
  StacksAccounted
  
