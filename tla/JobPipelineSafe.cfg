SPECIFICATION FairSpec
CONSTANTS
  w1 = w1
  w2 = w2
  t1 = t1
  t2 = t2
  None = None
  Jobs = {j1}
  Apis = {a1, a2}
  Workers = {w1, w2}
  Threads = {t1, t2}
  WorkerOf <- MCPaired
  MaxAttempts = 2
  Idle = 2
  BatchCount = 10
  Faults = {"xadd_fail"}
  CrashPoints <- MCSafePoints
  Pacing = "entry"
  MaxMsgs = 2
  MaxDeliveries = 3
  MaxFaults = 1
  MaxCrashes = 1
INVARIANTS NoLostJob OneHandler OneMessagePerJob
PROPERTIES JobsSettle NoRunAfterResult ImplementsJobLife
CHECK_DEADLOCK FALSE
