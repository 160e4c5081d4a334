SPECIFICATION FairSpec
CONSTANTS
  Waiter = {w1}
  Releaser = {r1, r2}
  None = None
  InitCount = 1
  MaxInc = 2
  MaxCount = 8
  Polls = FALSE
  SpuriousWakeups = FALSE
PROPERTY IsCountingSemaphore
