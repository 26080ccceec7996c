CONSTANTS
  t1 = t1
  t2 = t2
  t3 = t3
  stack = stack
  user = user
  Thread = {t1, t2, t3}
  Semaphore = {stack, user}
  None = None
  Entity = {stack}
  StackOwner <- MCStackOwner
  Steps <- MCSteps
  InitialValue = {0}
  Delay = {1}
  Period = {2}
  Actions <- MCActions
  MaxValue = 2
SYMMETRY MCOthers
SPECIFICATION SSpec
INVARIANTS
  
  SleepersAreQueued

  
