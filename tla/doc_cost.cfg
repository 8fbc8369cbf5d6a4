SPECIFICATION FairSpec
CONSTANTS
  Threads = {t1, t2}
  Callers = {u1, u2}
  t1 = t1
  t2 = t2
  u1 = u1
  u2 = u2
  Requests = {"async"}
  Outcomes = {"done"}
  Faults = {"cost"}
  MaxWaits = 0
  MaxAttempts = 1
PROPERTY CostStopLands
\* the requests are finite: a behaviour ends when all are answered and every thread is settled
CHECK_DEADLOCK FALSE
