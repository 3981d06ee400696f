\* Two threads in popen and pclose at once.
SPECIFICATION Spec
CONSTANTS
  Threads = {t1, t2}
  Commands = {c1, c2, c3}
  Streams = {s1, s2}
  Slots = {0, 1}
  Alone = FALSE
  NULL = NULL
INVARIANTS
  CommandsAnswered
CHECK_DEADLOCK FALSE
