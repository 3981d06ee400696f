\* Two waiters, a signaller that needs no mutex and a broadcaster, two calls
\* each; a creator and two other callers of a new thread; and three threads
\* for the rest.
SPECIFICATION ServicesSpec
CONSTANTS
  Sleepers = {w1, w2}
  Signaller = s
  Broadcaster = b
  Threads <- Roles
  May <- RolesMay
  Unlocked = {"signal"}
  MaxCalls = 2
  SemMax = 8
  Callers = {c, d, e}
  Creator = c
  Worker = w
  Early = {}
  Racers = {t1, t2, t3}
  None = None
INVARIANTS
  TypeOK
  TouchesLive
  OneWinner
  JoinDelivers
  ReleasedAtEnd
  EarlyClaims
PROPERTIES
  BroadcastCovers
  ImplementsCondition
  BroadcastReturns
  InitializedOnce
  CallsEnd
CHECK_DEADLOCK FALSE
