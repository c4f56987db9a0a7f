CONSTANTS
  c1 = c1  c2 = c2
  Items = {c1, c2}
  Base <- MCDisplayNames
  Verdicts = {"PASS", "FAIL"}
  MaxRuns = 1
  MaxStarts = 1
  MaxCrashes = 1
SPECIFICATION Spec
CHECK_DEADLOCK FALSE
INVARIANTS
  VerdictIsShown
