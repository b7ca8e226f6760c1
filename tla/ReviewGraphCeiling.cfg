SPECIFICATION Spec
CONSTANTS
  MaxFix = 2
  Ceiling = "off"
  Handoff = FALSE
  MaxRuns = 1
INVARIANT UnknownIsCautious
CHECK_DEADLOCK FALSE
