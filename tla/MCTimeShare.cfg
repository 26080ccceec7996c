CONSTANTS
  Thread = {0, 1, 2}
  Cpu = {0, 1}
  CpuSet = {s1}
  Priority = {0, 1, 2, 3, 4, 5, 6}
  None = None
  InitialSet = s1
  BootThread = 0
  BootCpu = 0
  Processor = {p1}
  MaxTicks = 6
  Blocking = {0}
  MaxLen = 7
  Keys = {0, 1, 2}
SPECIFICATION TSSpec
PROPERTIES
  ReadyThreadsRun
  RunningThreadExecutes
