SPECIFICATION Spec
CONSTANTS
  net = net
  web = web
  Name = {net, web}
  none = none
  Bootstrap <- Boot
  MaxService = 4
  Half = 8
  QueueLen = 2
  MaxAsk = 1
INVARIANTS
  TypeOK WaiterServed UniqueName Accounted OwnSlot
PROPERTY
  SlotKept UniqueAnswered
CHECK_DEADLOCK FALSE
