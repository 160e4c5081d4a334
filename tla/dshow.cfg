SPECIFICATION AnySpec
CONSTANTS
  Sample = {s1, s2, s3}
  Image = {i1, i2}
  None = None
  MaxBuffers = 2
  MaxRefs = 2
  Offered <- SomeOffered
  Quality = 100
  Bitrates = {8, 17, 32}
  Qualities = {0, 1}
  Averages = {3, 5}
  Rgb = {"RGB24", "RGB16"}
  Check <- TwoFormats
  Noted = "YVU9"
  FrameSizes = {2, 3}
  MaxFrames = 2
  MaxReferences = 1
INVARIANTS LentOrFree NothingDangles RedirectCurrent AllOrNothing CountedAndLive HeaderAccepted
\* A part may crash.
CHECK_DEADLOCK FALSE
