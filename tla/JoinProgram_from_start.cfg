\* An incremental generator whose range does not start at 0.
CONSTANTS
  Keys <- SixKeys
  Hash <- HashValue
  PartBits = 2
  Presets <- SomePresets
  MaxCalls = 3
  Parameters <- SomeParameters
  CountBits = 4
  MaxSize = 8
  One = 7
  MaxBuilds = 2
SPECIFICATION Spec
INVARIANT KeysFromStart
