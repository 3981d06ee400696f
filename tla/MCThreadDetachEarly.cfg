\* A worker that detaches itself as its first act.
SPECIFICATION Spec
CONSTANTS
  Callers = {c, d, e}
  Creator = c
  Worker = w
  Early = {"detach"}
INVARIANTS
  TouchesLive
CHECK_DEADLOCK FALSE
