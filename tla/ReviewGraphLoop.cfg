SPECIFICATION FairSpec
CONSTANTS
  MaxFix = 2
  Ceiling = "high"
  Handoff = FALSE
  MaxRuns = 2
INVARIANTS ProposalProven CodeChangeGated FixBudget
PROPERTIES RunEnds ImplementsFixLoop
CHECK_DEADLOCK FALSE
