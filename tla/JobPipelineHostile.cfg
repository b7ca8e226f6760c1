SPECIFICATION Spec
CONSTANTS
  w1 = w1
  w2 = w2
  t1 = t1
  t2 = t2
  None = None
  Jobs = {j1}
  Apis = {a1, a2}
  Workers = {w1, w2}
  Threads = {t1, t2}
  WorkerOf <- MCPaired
  MaxAttempts = 1
  Idle = 1
  BatchCount = 10
  Faults <- MCAllFaults
  CrashPoints <- MCAllPoints
  Pacing = "any"
  MaxMsgs = 3
  MaxDeliveries = 2
  MaxFaults = 1
  MaxCrashes = 1
INVARIANTS AttemptsBound DeadIsExhausted
CHECK_DEADLOCK FALSE
