SPECIFICATION Spec
CONSTANTS
  Files = {f1, f2}
  Contents = {v1, v2}
  Models = {m1, m2}
  f1 = f1
  f2 = f2
  v1 = v1
  v2 = v2
  m1 = m1
  m2 = m2
  Parts = 2
  Faults = {"error", "shallow", "config"}
  MaxCommits = 3
SYMMETRY Symmetry
INVARIANTS TypeOK Exact Findable
\* the commits are finite: when the last is pushed and indexed, nothing is left to do
CHECK_DEADLOCK FALSE
