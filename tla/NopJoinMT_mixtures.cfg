\* Three threads and every mixture of keys in four rows, over two buckets; an object on
\* which execute, get and set are called.
CONSTANTS
  Keys <- ThreeKeys
  Hash <- HashValue
  size = 2
  threads = 3
  CountBits = 3
  MaxCalls = 3
  Inputs <- Mixtures
SPECIFICATION ObjectSpec
INVARIANTS
  TypeOK
  BucketRaceFree
  CallsExact
