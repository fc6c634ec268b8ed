SPECIFICATION PushSpec
CONSTANTS
  alice = alice  bob = bob  phone = phone  laptop = laptop  tablet = tablet  desk = desk  spare = spare
  b1 = b1  b2 = b2  c1 = c1  c2 = c2  work = work  home = home  x = x  y = y
  plain = plain  bold = bold  NilNote = NilNote  Absent = Absent  None = None
  Users = {alice, bob}
  Devices = {phone, laptop, tablet, desk, spare}
  Notes = {1, 2}
  Blocks = {b1, b2}
  Categories = {c1, c2}
  Names = {work, home}
  OpIds = {1, 2, 3, 4, 5, 6, 7, 8, 9, 10, 11, 12, 13, 14, 15}
  Runes = {x, y}
  Props = {plain, bold}
  Handlers = {h1, h2, h3}
  SnapshotChangeThreshold = 2
  SnapshotByteThreshold = 3
  Requests <- AllRequests
  Owner <- TwoOwners
  Enrolled = {phone, laptop, tablet, desk}
  Revocable = {}
  Checking = {}
  MaxOperations = 4
  PullLimit = 1
SYMMETRY HandlerSymmetry
INVARIANTS
  VersionChain
  NoLostUpdate
  SequenceFollowsVersion
  AtMostOnce
  RetryNotRejected
  BatchAtomicity
  RejectionSnapshotFresh
  SnapshotScheduled
  OwnerIsolation
  ReplayMatchesState
  CategoriesMatchLog
  NoWaitCircle
PROPERTIES
  ImplementsNoteLog
