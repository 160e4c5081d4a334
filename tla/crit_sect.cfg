SPECIFICATION FairSpec
CONSTANTS
  Thread = {t1, t2}
  Obj = {o1, o2}
  None = None
  MaxDepth = 2
  MaxCount = 0
INVARIANTS ExclusionUnlessRaced CountMatchesCalls
PROPERTY EnterReturns
\* After a race two threads can wait for each other's mutex for ever.
CHECK_DEADLOCK FALSE
