CONSTANTS
  Threads = {gui, worker}
  Gui = gui
  Types = {ratings, tags}
  Filter = {ratings, tags}
  Filters = {{ratings, tags}}
  Values = {v0, v1}
  Period = 2
  MaxTime = 2
  MaxItems = 4
  MaxDepth = 2
  MaxIndent = 2
  None = None
  WorkerType = ratings
SPECIFICATION MCSpec
CHECK_DEADLOCK FALSE
INVARIANTS Chronological Consistent SerialGroupsPaired
