CONSTANTS
  small = small
  large = large
  Caps <- Formats
  None = None
  MaxTime = 1
  MaxFrames = 2
  MaxEpoch = 2
  MaxSetups = 2
  Times = {0, 1}
  ClockMod = 8
  FrameSizes = {2, 3}
  MaxSize = 4
  Installs <- SomeInstalls
  MaxLate = 2
  Aligns = {0, 2}
  Lengths = {1, 3}
  Rooms = {1, 4}
  MaxBlocks = 3
  MaxDelivered = 4
  Clock = 12
  Unit = 2
  Stamps = {3, 11}
  Spans = {1, 3, 11}
  MaxInputs = 2
  User = {u1, u2, u3, u4}
  Page = {p1, p2}
  NoPage = NoPage
  Serialized = TRUE
SPECIFICATION AnyFairSpec
INVARIANTS DmoNeedsSegment AllFramesCurrent QosCurrent BacklogExplained CodecsUsable BytesAccounted HoldersHaveSegment
PROPERTIES GapsMarked DmoChainReturns
\* An element may end the process.
CHECK_DEADLOCK FALSE
