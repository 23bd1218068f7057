\* Two relations from six kinds of generators, each built up to twice, and three
\* calls on either join.
CONSTANTS
  Keys <- SixKeys
  Hash <- HashValue
  PartBits = 2
  Presets <- SomePresets
  MaxCalls = 3
  Parameters <- SomeParameters
  CountBits = 4
  MaxSize = 8
  One = 7
  MaxBuilds = 2
SPECIFICATION Spec
INVARIANTS
  TypeOK
  ResultExact
  PartitionsExact
  DataFaithful
