SPECIFICATION Spec
CONSTANTS
  h1 = h1
  a1 = a1
  a2 = a2
  None = None
  Decisions = {d1}
  AutoSafe = {d1}
  Runs = {r1, r2}
  Requests = {h1, h2}
  Apis = {a1, a2}
  ApiOf <- MCTwoApis
  Commenters = {h2}
  Faults = {"fail", "lost", "raise", "db"}
  CrashPoints = {"look", "requeue", "post", "ok", "fail"}
  MaxRuns = 3
  MaxRequests = 3
  MaxFaults = 2
  MaxCrashes = 2
INVARIANTS HumanGate
CHECK_DEADLOCK FALSE
