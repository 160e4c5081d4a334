SPECIFICATION FairSpec
CONSTANTS
  c1 = c1
  c2 = c2
  c3 = c3
  A = A
  B = B
  Q = Q
  None = None
  Codec = {c1, c2, c3}
  Dll = {A, B, Q}
  Kind <- MixedKinds
  Needs <- MixedNeeds
  AttachLoads <- ALoadsB
  Unsupported = {Q}
  Entryless = {Q}
  Serialized = TRUE
INVARIANTS ListIsImage OpenCodecKeepsDlls
PROPERTIES LastReleaseUnloads CallsReturn
