SPECIFICATION Spec
CONSTANTS
  Waiter = {w1, w2}
  Releaser = {r1, r2}
  None = None
  InitCount = 1
  MaxInc = 2
  MaxCount = 4
  Polls = TRUE
  SpuriousWakeups = TRUE
INVARIANTS TakesWhatItTested
\* Every thread can be asleep or stopped by the bound.
CHECK_DEADLOCK FALSE
