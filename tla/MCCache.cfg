CONSTANTS
  Threads = {t1, t2}
  Keys = {k1, k2, k3}
  Entries = {e1, e2, e3}
  Quota = 2
  Costs = {1}
  HasAllocate = FALSE
  MaxHeld = 1
  MaxCalls = 2
  NoThread = NoThread
  NoEntry = NoEntry
SPECIFICATION LiveSpec
INVARIANTS IInv HeldAlive CostExact CostBounded
PROPERTIES AllCallsReturn LocksPerKey
