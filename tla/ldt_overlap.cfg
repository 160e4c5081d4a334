SPECIFICATION LdtSpec
CONSTANTS
  User = {u1, u2, u3, u4}
  Page = {p1, p2}
  NoPage = NoPage
  Serialized = FALSE
PROPERTY OnlyLastUserFrees
