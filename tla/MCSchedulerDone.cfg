SPECIFICATION Spec
CONSTANTS
  root = root
  a = a
  b = b
  NWorker = 2
  Service = {root, a, b}
  Root = root
  System = sys
  NoService = none
  QueueLen = 2
  BindCap = 2
  ExtCap = 0
  NEvent = 1
  Link <- LinkPair
  Mortal = {b}
  Binder <- NoPair
  Waiter = {}
  Spawner = {root}
  Recycle = FALSE
PROPERTY
  DoneMeansDelivered
CHECK_DEADLOCK FALSE
