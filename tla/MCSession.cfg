SPECIFICATION Spec
CONSTANTS
  a = a
  b = b
  Service = {a, b}
  Root = root
  Co = {c1, c2, c3}
  c1 = c1
  c2 = c2
  c3 = c3
  Pool <- TwoOfA
  none = none
  QueueLen = 1
  RootLen = 1
  MaxSession <- MoreA
  Caller <- CallB
  Sender <- SendA
  Started = {a}
  Sleeper = {a}
  Waiter = {a, b}
  Forker = {a}
  Quitter = {b}
  Mute = {b}
PROPERTIES Implements
INVARIANTS
  TypeOK OneWaker FreshSession CallNotOrphaned
CHECK_DEADLOCK FALSE
