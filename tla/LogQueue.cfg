SPECIFICATION Spec
CONSTANTS
  Thread = {t1, t2, t3}
  Msg = {m1, m2}
  NoMsg = NoMsg
  Item = {i1, i2, i3}
  nil = nil
INVARIANTS
  TypeOK Exclusive Partition
PROPERTY
  Implements
CHECK_DEADLOCK FALSE
