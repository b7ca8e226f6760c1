SPECIFICATION Spec
CONSTANTS
  w1 = w1
  w2 = w2
  t1 = t1
  t2 = t2
  None = None
  Jobs = {j1}
  Apis = {a1}
  Workers = {w1, w2}
  Threads = {t1, t2}
  WorkerOf <- MCPaired
  MaxAttempts = 2
  Idle = 2
  BatchCount = 10
  Faults = {"xadd_lost"}
  CrashPoints = {}
  Pacing = "entry"
  MaxMsgs = 3
  MaxDeliveries = 1
  MaxFaults = 1
  MaxCrashes = 0
INVARIANT OneHandler
CHECK_DEADLOCK FALSE
