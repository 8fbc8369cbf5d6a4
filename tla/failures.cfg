SPECIFICATION Spec
CONSTANTS
  Threads = {t1, t2}
  Callers = {u1, u2, u3}
  t1 = t1
  t2 = t2
  u1 = u1
  u2 = u2
  u3 = u3
  Requests = {"trigger", "stop"}
  Outcomes = {"done"}
  Faults = {"error", "prepare", "pod"}
  MaxWaits = 0
  MaxAttempts = 1
SYMMETRY Symmetry
INVARIANT NoStrandedRunning
\* the requests are finite: a behaviour ends when all are answered and every thread is settled
CHECK_DEADLOCK FALSE
