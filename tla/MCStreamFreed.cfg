\* One thread, whose _dup2 onto an open stream of its own fails.
SPECIFICATION Spec
CONSTANTS
  None = None
  Threads = {a}
  FOpenMax = 3
  Handles = {h1, h2, h3}
PROPERTIES
  ReleasedAfterClose
CHECK_DEADLOCK FALSE
