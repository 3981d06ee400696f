\* Three waiters, a signaller that holds the mutex and a broadcaster that
\* does not, one call each.
SPECIFICATION CondFairSpec
CONSTANTS
  Sleepers = {w1, w2, w3}
  Signaller = s
  Broadcaster = b
  None = None
  Threads <- Roles
  May <- RolesMay
  Unlocked = {"broadcast"}
  MaxCalls = 1
  SemMax = 8
PROPERTIES
  BroadcastReleasesAll
CHECK_DEADLOCK FALSE
