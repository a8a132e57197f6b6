SPECIFICATION Spec
CONSTANTS
  Images = {i1}
  NoImage = NoImage
  rawprepare = rawprepare
  sharpen = sharpen
  exposure = exposure
  Modules <- MCModules
  AlwaysOn <- MCAlwaysOn
  AutoOn <- MCAutoOn
  Params = {0, 1}
  Default = 0
  Presets <- MCPresets
  Thumbnails = FALSE
  MaxOps = 2
  MaxCrashes = 0
  MaxExports = 1
INVARIANTS CommittedKept
CHECK_DEADLOCK FALSE
