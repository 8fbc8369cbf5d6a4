SPECIFICATION FairSpec
CONSTANTS
  Threads = {t1}
  Callers = {u1}
  t1 = t1
  u1 = u1
  Requests = {"trigger"}
  Outcomes = {"done", "wait"}
  Faults = {}
  MaxWaits = 2
  MaxAttempts = 2
PROPERTY TimerWaitsEnd
\* the requests are finite: a behaviour ends when all are answered and every thread is settled
CHECK_DEADLOCK FALSE
