SPECIFICATION Spec
CONSTANTS
  h1 = h1
  a1 = a1
  a2 = a2
  None = None
  Decisions = {d1}
  AutoSafe = {}
  Runs = {r1, r2}
  Requests = {h1, h2, h3}
  Apis = {a1}
  ApiOf <- MCOneApi
  Commenters = {h2, h3}
  Faults = {"fail", "raise"}
  CrashPoints = {"look", "requeue", "post", "fail"}
  MaxRuns = 3
  MaxRequests = 4
  MaxFaults = 2
  MaxCrashes = 2
INVARIANTS PostedOnce
PROPERTIES RejectedForGood
CHECK_DEADLOCK FALSE
