SPECIFICATION Spec
CONSTANTS
  root = root
  a = a
  b = b
  NWorker = 2
  Service = {root, a}
  Root = root
  System = sys
  NoService = none
  QueueLen = 2
  BindCap = 2
  ExtCap = 0
  NEvent = 1
  Link <- NoPair
  Mortal = {root}
  Binder <- NoPair
  Waiter = {}
  Spawner = {root}
  Recycle = FALSE
INVARIANT
  QuitWakesAll
CHECK_DEADLOCK FALSE
