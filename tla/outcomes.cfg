SPECIFICATION Spec
CONSTANTS
  Threads = {t1}
  Callers = {u1, u2, u3}
  t1 = t1
  u1 = u1
  u2 = u2
  u3 = u3
  Requests = {"async"}
  Outcomes = {"done", "more"}
  Faults = {"error", "cost"}
  MaxWaits = 0
  MaxAttempts = 1
SYMMETRY Symmetry
PROPERTY PromiseKept
INVARIANT ClockFollowsStatus
INVARIANT LiveRunShows
INVARIANT HitKeepsAmount
\* the requests are finite: a behaviour ends when all are answered and every thread is settled
CHECK_DEADLOCK FALSE
