CONSTANTS
  Threads = {t1, t2}
  Images = {1}
  MaxMip = 1
  Keys <- MCKeys
  Entries = {e1, e2}
  Quota = 1
  Costs = {1}
  HasAllocate = TRUE
  MaxHeld = 2
  Readers = {t1}
  DiskBackend = TRUE
  CanFail = TRUE
  Ops = {"blocking", "best", "edit", "evict"}
  MaxVersion = 1
  MaxOps = 3
  NoThread = NoThread
  NoEntry = NoEntry
  NoFile = NoFile
  Junk = Junk
  Zero = Zero
  Skull = Skull
SPECIFICATION LiveSpec
INVARIANTS MIInv    
 
