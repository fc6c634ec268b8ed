SPECIFICATION Spec
CONSTANTS
  alice = alice  bob = bob  phone = phone  laptop = laptop  tablet = tablet  desk = desk  spare = spare
  b1 = b1  b2 = b2  c1 = c1  c2 = c2  work = work  home = home  x = x  y = y
  plain = plain  bold = bold  NilNote = NilNote  Absent = Absent  None = None
  Users = {alice, bob}
  Devices = {phone, laptop, tablet}
  Notes = {1, 2, 3}
  Blocks = {}
  Categories = {c1, c2}
  Names = {work, home}
  OpIds = {1, 2, 3}
  Runes = {x, y}
  Props = {plain, bold}
  Handlers = {h1, h2, h3}
  SnapshotChangeThreshold = 0
  SnapshotByteThreshold = 0
  Requests <- PullRequests
  Owner <- OneOwner
  Enrolled = {phone, laptop, tablet}
  Revocable = {}
  Checking = {}
  MaxOperations = 4
  PullLimit = 1
SYMMETRY HandlerSymmetry
INVARIANTS
  PullNeverSkips
