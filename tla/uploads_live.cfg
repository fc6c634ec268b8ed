CHECK_DEADLOCK FALSE
SPECIFICATION LiveSpec
CONSTANTS
  Ids = {1, 2, 3}
  Calls = {c1, c2}
  Cleaners = {w1}
  Devices = {phone}
  Blocks = {b1}
  Metadata <- Two
  Storable <- TwoOrBroken
  MaxFileSize = 1
  AllowedTypes <- Images
  MaxPending = 1
  PageLimit = 1
  MaxCursor = 3
  NoRow = NoRow  NoId = NoId  Absent = Absent  Unreadable = Unreadable
INVARIANTS
  PendingOvershootBounded
PROPERTIES
  Reconciled
