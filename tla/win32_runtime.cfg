SPECIFICATION AnySpec
CONSTANTS
  Thread = {t1, t2}
  Blocks = 3
  Obj <- Addresses
  None = None
  Any = Any
  Anchored = TRUE
  BlockOfDll = {1, 2, 3, 4}
  HeapPage = 2
  Word = 4
  Ask = {1, 3}
  MaxFd = 4
  MaxHeld = 2
  FileLength = 1
  Directory <- SomeNames
  Plugins = {"a.qtx", "b.qtx"}
  Search = {1, 2}
  Present = {"qts", "vp3"}
  Allocator = {1, 2, 3}
  Foreign <- SomeClasses
  MaxClasses = 4
  MaxAllocatorRefs = 2
  EventThread = {"creator", "s1", "s2"}
  Sleeper = {"s1", "s2"}
  ObjectName = {"n"}
  MaxNodes = 2
  First = t1
  Slots = 2
  TlsValue = {1, 2}
  MaxRefs = 3
  Site = {1, 2}
  Length = 3
  Low = {"low"}
  High = {"high"}
INVARIANTS ListIntact MutexSurvives ReleasesOwned EventsWake OwnUnlessRaced
PROPERTIES SizeFound CollectionEnds
\* HeapReAlloc without memory copies to the null pointer: the process ends.
CHECK_DEADLOCK FALSE
