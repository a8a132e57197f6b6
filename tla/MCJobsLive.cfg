CONSTANTS
  Workers = {w1}
  Reserved = {r1}
  Clients = {c1}
  Jobs = {j1, j2}
  Kinds = {k1}
  Used = {0, 2}
  Progress = FALSE
  MaxJobs = 2
  FgPriority = 4
  PriorityMod = 6
  NoJob = NoJob
  CanQuit = TRUE
SPECIFICATION LiveSpec
CHECK_DEADLOCK FALSE
PROPERTIES FifoServed ReservedServed QuitSettles
