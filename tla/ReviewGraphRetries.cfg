SPECIFICATION Spec
CONSTANTS
  MaxFix = 1
  Ceiling = "low"
  Handoff = FALSE
  MaxRuns = 1
INVARIANT RetriesPromised
CHECK_DEADLOCK FALSE
