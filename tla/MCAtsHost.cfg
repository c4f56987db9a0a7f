CONSTANTS
  c1 = c1  c2 = c2
  Items = {c1, c2}
  Base <- MCSameNames
  Verdicts = {"PASS"}
  MaxRuns = 2
  MaxStarts = 2
  MaxCrashes = 1
SPECIFICATION FairSpec
CHECK_DEADLOCK FALSE
INVARIANTS
  CasesRunAlone
PROPERTIES
  PanelUnlocks
  CloseCompletes
