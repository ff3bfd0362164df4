SPECIFICATION WorkspaceSpec
CONSTANTS
  p1 = p1
  p2 = p2
  p3 = p3
  p4 = p4
  Proc = {p1, p2, p3, p4}
  Place <- MCPlace
  Correct = {p1, p4}
  Keeping = {p4}
INVARIANTS RunsOwnHarness NothingLeft
