SPECIFICATION Spec
CONSTANTS
  Waiter = {w1, w2, w3}
  Releaser = {r1, r2}
  None = None
  InitCount = 1
  MaxInc = 2
  MaxCount = 6
  Polls = FALSE
  SpuriousWakeups = FALSE
INVARIANT NeverNegative
\* All waiters can sleep while the count is at its bound.
CHECK_DEADLOCK FALSE
