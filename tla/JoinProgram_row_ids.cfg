\* A generator on which build() is called twice.
CONSTANTS
  Keys <- SixKeys
  Hash <- HashValue
  PartBits = 2
  Presets <- SomePresets
  MaxCalls = 3
  Parameters <- SomeParameters
  CountBits = 4
  MaxSize = 8
  One = 7
  MaxBuilds = 2
SPECIFICATION Spec
INVARIANT RowIdsUnique
