\* One worker, and one task that is submitted again and again while the
\* other client waits.
SPECIFICATION FairSpec
CONSTANTS
  c1 = c1
  c2 = c2
  t1 = t1
  t2 = t2
  t3 = t3
  None = None
  WorkerCount = 1
  Clients <- MCClients
  Owner = c1
  Tasks <- OneTask
  Reuse = TRUE
  SemMax = 4
PROPERTIES
  WaitEnds
CHECK_DEADLOCK FALSE
