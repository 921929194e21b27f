SPECIFICATION Spec
CONSTANTS
  Threads = {t1, t2}
  main = t1
  Providers = {p1, p2}
  nworkers = 2
  MaxNext = 5
  max_services = 2
  COSERVICE_MAX_WORKERS = 1
  Calls <- MCCalls
  MaxCalls = 3
  MaxDepth = 2
INVARIANTS
  WorkerChoice
  HandlesAreServed
  LateThreadsAreSafe
CHECK_DEADLOCK FALSE
