\* Two threads on a table of three streams: it fills, pipes find two, one or
\* no free slot, and native calls fail at any time.  A table of two keys, a
\* kernel with three slots, two threads that create and delete keys, and a
\* thread that ends in at most two passes.
SPECIFICATION TablesSpec
CONSTANTS
  None = None
  Threads = {a, b}
  FOpenMax = 3
  Handles = {x, y, z}
  MaxHarmed = 1
  Users = {a, b}
  Workers = {w}
  Keys = {x, y, z}
  KeyCount = 2
  Passes = 2
  Destructors = {d, e}
  Nothing = Nothing
SYMMETRY Symmetry
INVARIANTS
  TableExact
  HandlesAccounted
  SlotsAccounted
  DestructorGetsItsOwn
  LeavesNothing
CHECK_DEADLOCK FALSE
