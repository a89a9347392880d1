SPECIFICATION Spec
CONSTANTS
  root = root
  a = a
  b = b
  NWorker = 2
  Service = {root, a, b}
  Root = root
  System = sys
  NoService = none
  QueueLen = 1
  BindCap = 2
  ExtCap = 0
  NEvent = 1
  Link <- LinkR
  Mortal = {b}
  Binder <- BindOne
  Waiter = {b}
  Spawner = {root}
  Recycle = FALSE
CONSTRAINT
  BoundOrWaiting
INVARIANTS
  TypeOK UniqueToken StatusMatchesPlace DeadIsReported IdleMeansDrained
  ReceiptProtocol OnlyNoSlot SlotsSuffice BindingRespected EventNotLost LockExclusive
CHECK_DEADLOCK FALSE
