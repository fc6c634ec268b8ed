CHECK_DEADLOCK FALSE
SPECIFICATION HubSpec
SYMMETRY PhoneSymmetry
CONSTANTS
  Conns = {c1, c2}
  Devices = {phone, laptop, desk}
  Users = {ann, bob}
  DeviceOf <- TwoPhones
  UserOf <- TwoUsers
  Cursors = {1, 2}
  c1 = c1  c2 = c2
  phone = phone  laptop = laptop  desk = desk  ann = ann  bob = bob
  InitialBackoff = 1
  MaxBackoff = 3
  SendQueueSize = 8
  NoConn = NoConn
INVARIANTS
  LiveIsReachable
  HintsNotLost
  StoppedServesNobody
  OnlyOthersHints
