SPECIFICATION Spec
CONSTANTS
  w1 = w1
  w2 = w2
  t1 = t1
  t2 = t2
  None = None
  Jobs = {j1, j2}
  Apis = {a1}
  Workers = {w1, w2}
  Threads = {t1, t2}
  WorkerOf <- MCPaired
  MaxAttempts = 2
  Idle = 2
  BatchCount = 10
  Faults = {}
  CrashPoints = {}
  Pacing = "job"
  MaxMsgs = 2
  MaxDeliveries = 2
  MaxFaults = 0
  MaxCrashes = 0
INVARIANT NoLostJob
CHECK_DEADLOCK FALSE
