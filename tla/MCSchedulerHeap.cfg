CONSTANTS
  Thread = {t1, t2, t3, t4}
  Cpu = {c1, c2}
  CpuSet = {s1, s2}
  Priority = {0, 1}
  None = None
  InitialSet = s1
  BootThread = t1
  BootCpu = c1
SYMMETRY ThreadSymmetry
SPECIFICATION Spec
INVARIANTS
  HeapsConsistent
  FreeStacksConsistent
  NoIdleCpu
  PriorityOrder
PROPERTIES
  ImplementsScheduler
  WakePreemptsOnlyWorse
