\* Two threads insert six rows into one bucket, past both inline slots and along the
\* overflow list; relations without rows, and with fewer rows than threads.
CONSTANTS
  Keys <- ThreeKeys
  Hash <- HashValue
  size = 2
  threads = 2
  CountBits = 3
  Inputs <- LongChains
SPECIFICATION FairSpec
INVARIANTS
  BucketsComplete
  ResultExact
PROPERTIES
  ImplementsPartitionedJoin
  ExecuteReturns
