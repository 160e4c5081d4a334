SPECIFICATION Spec
CONSTANTS
  c1 = c1
  c2 = c2
  c3 = c3
  A = A
  B = B
  Q = Q
  None = None
  Codec = {c1, c2}
  Dll = {A, B, Q}
  Kind <- CountedKinds
  Needs <- SharedNeeds
  AttachLoads <- NoneLoads
  Unsupported = {}
  Entryless = {}
  Serialized = TRUE
PROPERTY DetachOnlyUnreferenced
