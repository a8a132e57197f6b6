SPECIFICATION LiveSpec
CONSTANTS
  Images = {i1, i2}
  NoImage = NoImage
  rawprepare = rawprepare
  sharpen = sharpen
  exposure = exposure
  Modules <- MCFewModules
  AlwaysOn <- MCAlwaysOn
  AutoOn <- MCNone
  Params = {0, 1}
  Default = 0
  Presets <- MCPresets
  Thumbnails = FALSE
  MaxOps = 2
  MaxCrashes = 0
  MaxExports = 1
PROPERTIES CallsReturn
CHECK_DEADLOCK FALSE
