CONSTANTS
  Thread = {t1, t2}
  Cpu = {0, 1}
  CpuSet = {s1}
  Priority = {0}
  None = None
  InitialSet = s1
  BootThread = t1
  BootCpu = 0
  Processor = {p1, p2}
SYMMETRY Interchangeable
SPECIFICATION PSpec
INVARIANTS
  OneProcessorPerThread
  KernelFunctionsExclude
  CurrentIsAwake
  LocksAreConserved

  
