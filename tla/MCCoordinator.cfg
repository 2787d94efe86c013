CONSTANTS
  Keys = {k1, k2}
  Threads = {t1, t2}
  NoThread = NoThread
  NoKey = NoKey
  MaxClientId = 2
  MaxSubscriptionId = 2
  MaxTime = 2
  LeaseTimeout = 1
SPECIFICATION FairSpec
INVARIANTS
  TypeOK
  WorkMatchesDemand
  CallbacksSafe
PROPERTIES
  ImplementsSharedWork
  LeaseHonoured
  StoppingDrains
CHECK_DEADLOCK FALSE
