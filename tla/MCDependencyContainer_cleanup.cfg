SPECIFICATION FairSpec
CONSTANTS
  store = store
  status = status
  Threads = {t1, t2}
  NoThread = NoThread
  t1 = t1
  t2 = t2
  CloseMayFail = TRUE
  MaxRegistrations = 2
  Replaceable = {store}
  FactoryMayFail = TRUE
  Tokens <- TwoTokens
  Depends <- StatusNeedsStore
  Commands <- RemoveAndReplace
INVARIANTS
  CreatorOwnsGate
  CachedIsAlive
  ClosesOnce
  ClosedMeansDisposed
PROPERTIES
  CallsReturn
CHECK_DEADLOCK FALSE
