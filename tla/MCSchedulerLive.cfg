SPECIFICATION FairSpec
CONSTANTS
  root = root
  a = a
  b = b
  NWorker = 2
  Service = {root, a}
  Root = root
  System = sys
  NoService = none
  QueueLen = 2
  BindCap = 2
  ExtCap = 1
  NEvent = 1
  Link <- NoPair
  Mortal = {root}
  Binder <- NoPair
  Waiter = {}
  Spawner = {root}
  Recycle = FALSE
INVARIANT
  NothingForgotten
PROPERTY
  ExternalKept WorkProgress
CHECK_DEADLOCK FALSE
