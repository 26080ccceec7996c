CONSTANTS
  t1 = t1
  t2 = t2
  t3 = t3
  s1 = s1
  s2 = s2
  s3 = s3
  Memory = memory
  Device = device
  Thread = {t1, t2, t3}
  Semaphore = {memory, device, s1, s2, s3}
  None = None
  Own <- MCOwn
  MaxKicks = 0
SPECIFICATION FairSpec
PROPERTIES
  WaitEnds
