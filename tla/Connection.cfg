SPECIFICATION FairSpec
CONSTANTS
  MaxRuns = 1
  MaxPings = 1
  MaxNested = 1
  Calls <- AllCalls
INVARIANTS ConnectedOnceAndTrue GoodbyeOnce EventsAccountedFor NothingLeftOpen
PROPERTIES WaitEnds GoodbyeArrives
CHECK_DEADLOCK FALSE
