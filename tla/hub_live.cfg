CHECK_DEADLOCK FALSE
SPECIFICATION LiveSpec
CONSTANTS
  Conns = {c1, c2}
  Devices = {phone, laptop}
  Users = {ann}
  DeviceOf <- TwoPhones
  UserOf <- OneUser
  Cursors = {1, 2}
  c1 = c1  c2 = c2
  phone = phone  laptop = laptop  desk = desk  ann = ann  bob = bob
  InitialBackoff = 1
  MaxBackoff = 1
  SendQueueSize = 8
  NoConn = NoConn
PROPERTIES
  ShutdownCompletes
  HintReachesClient
