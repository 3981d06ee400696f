\* The same instance under fairness, with two tasks.
SPECIFICATION FairSpec
CONSTANTS
  c1 = c1
  c2 = c2
  t1 = t1
  t2 = t2
  t3 = t3
  None = None
  WorkerCount = 2
  Clients <- MCClients
  Owner = c1
  Tasks <- TwoTasks
  Reuse = FALSE
  SemMax = 4
PROPERTIES
  AcceptedRuns
  CallsReturn
CHECK_DEADLOCK FALSE
