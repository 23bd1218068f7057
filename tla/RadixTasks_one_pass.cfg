\* Two threads, one pass, four parts, under the fairness of the threads: execute
\* schedules the join tasks itself, and they compete for the output buffers.
CONSTANTS
  Workers = {w1, w2}
  main = main
  RadixBits = 2
  RadixPasses = 1
  Inputs <- AllInputs
  NoTask = NoTask
SPECIFICATION FairSpec
INVARIANTS
  TypeOK
  BuffersExclusive
  BufferAvailable
PROPERTIES
  ImplementsPartitionedJoin
  ExecuteReturns
