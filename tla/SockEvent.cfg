SPECIFICATION FairSpec
CONSTANTS
  Trigger = {t1, t2, t3}
  FdMayFail = TRUE
INVARIANTS
  TypeOK BytesBounded NoLostWakeup
PROPERTIES
  Implements WaitReturns
CHECK_DEADLOCK FALSE
