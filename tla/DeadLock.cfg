\* The program as it is: it has no constants.
SPECIFICATION DeadLockFairSpec
INVARIANTS
  DeadLockStateOK
  SharesAreSerial
  AlarmOnlyOnDeadlock
PROPERTIES
  MainEnds
