SPECIFICATION HeldUpSpec
CONSTANTS
  root = root
  a = a
  b = b
  more = more
  most = most
  NWorker = 3
  Service = {root, a, b, more, most}
  Root = root
  System = sys
  NoService = none
  QueueLen = 2
  BindCap = 2
  ExtCap = 0
  NEvent = 1
  Link <- NoPair
  Mortal = {}
  Binder <- BindOne
  Waiter = {}
  Spawner = {root}
  Recycle = FALSE
INVARIANT
  NoPanic
CHECK_DEADLOCK FALSE
