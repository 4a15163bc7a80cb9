SPECIFICATION FairSpec
CONSTANTS
  Items = {a, b, c}
  Threads = {lua, other, worker}
  Taker = worker
INVARIANTS TypeOK WakeUpIsDue NothingLeftBehind
PROPERTY ImplementsAtomicQueue
CHECK_DEADLOCK FALSE
