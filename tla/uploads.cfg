SPECIFICATION Spec
CONSTANTS
  Ids = {u1}
  Calls = {c1, c2}
  Cleaners = {w1, w2}
  Devices = {phone, laptop}
  Blocks = {b1}
  Metadata <- Two
  Storable <- TwoOrBroken
  MaxFileSize = 1
  AllowedTypes <- Images
  MaxPending = 1
  PageLimit = 1
  MaxCursor = 1
  NoRow = NoRow  NoId = NoId  Absent = Absent  Unreadable = Unreadable
SYMMETRY RaceSymmetry
INVARIANTS
  CompletedHasObject
  AnswersHold
  LinksOnlyVerified
PROPERTIES
  Lifecycle
