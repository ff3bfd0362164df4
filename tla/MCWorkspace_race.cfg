SPECIFICATION WorkspaceSpec
CONSTANTS
  p1 = p1
  p2 = p2
  p3 = p3
  p4 = p4
  Proc = {p1, p2}
  Place <- MCPlace
  Correct = {p1}
  Keeping = {}
INVARIANT VerdictIsOwn
