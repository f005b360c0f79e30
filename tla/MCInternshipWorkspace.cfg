SPECIFICATION WorkspaceSpec
CONSTANTS
  Changes = {c1, c2, c3}
  Workspaces = {w1, w2}
  History <- MCHistory
  MaxBuilds = 4
  MaxDeaths = 2
SYMMETRY MCSymmetry
INVARIANTS
  CheckedAlone
  BaseKept
CHECK_DEADLOCK FALSE
