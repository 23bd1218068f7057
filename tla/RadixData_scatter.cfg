\* Three threads; one and two passes: scatter tasks at depth 2 write into the
\* caller's arrays, from which a second call of execute starts.
CONSTANTS
  Keys <- SixKeys
  Hash <- HashValue
  HashBits = 3
  RadixBits = 1
  Passes = {1, 2}
  threads = 3
  MaxCalls = 3
  Inputs <- Relations
SPECIFICATION Spec
INVARIANTS
  TypeOK
  RegionExact
  SlotsExclusive
  ResultExact
