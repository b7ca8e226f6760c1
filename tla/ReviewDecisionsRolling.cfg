SPECIFICATION Spec
CONSTANTS
  h1 = h1
  a1 = a1
  a2 = a2
  None = None
  Decisions = {d1}
  AutoSafe = {}
  Runs = {r1, r2}
  Requests = {h1, h2}
  Apis = {a1, a2}
  ApiOf <- MCTwoApis
  Commenters = {}
  Faults = {}
  CrashPoints = {}
  MaxRuns = 1
  MaxRequests = 3
  MaxFaults = 1
  MaxCrashes = 1
INVARIANTS PostedOnce
CHECK_DEADLOCK FALSE
