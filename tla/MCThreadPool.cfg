\* Two workers, two clients, three tasks that may be submitted again: every
\* overlap of submissions, waits, two shutdowns, destroy and the failures of
\* create; the semaphores fill up with tokens nobody has consumed.
SPECIFICATION Spec
CONSTANTS
  c1 = c1
  c2 = c2
  t1 = t1
  t2 = t2
  t3 = t3
  None = None
  WorkerCount = 2
  Clients <- MCClients
  Owner = c1
  Tasks <- ThreeTasks
  Reuse = TRUE
  SemMax = 4
SYMMETRY TaskSymmetry
INVARIANTS
  TypeOK
  CountersExact
  NoLostWork
  ShutdownComplete
  ResourcesOutliveUsers
PROPERTIES
  NoLateAccept
  ImplementsContract
CHECK_DEADLOCK FALSE
