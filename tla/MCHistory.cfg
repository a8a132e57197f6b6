SPECIFICATION Spec
CONSTANTS
  Images = {i1}
  NoImage = NoImage
  rawprepare = rawprepare
  sharpen = sharpen
  exposure = exposure
  Modules <- MCModules
  AlwaysOn <- MCAlwaysOn
  AutoOn <- MCAutoOn
  Params = {0, 1}
  Default = 0
  Presets <- MCPresets
  Thumbnails = TRUE
  MaxOps = 5
  MaxCrashes = 1
  MaxExports = 0
INVARIANTS CommittedKept UndoRestores CompressKeepsImage UndoChain NumberedFromZero 
CHECK_DEADLOCK FALSE
