CONSTANTS
  Workers = {w1, w2}
  Reserved = {}
  Clients = {c1}
  Jobs = {j1, j2, j3}
  Kinds = {k1, k2, k3}
  Used = {1, 3}
  MaxJobs = 2
  FgPriority = 4
  PriorityMod = 6
  NoJob = NoJob
  CanQuit = FALSE
  Progress = TRUE
SPECIFICATION MCSpec
SYMMETRY Symmetry
INVARIANTS OneOwner OneExport NoCopies
