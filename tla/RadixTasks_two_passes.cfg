\* Two passes, so that tasks schedule tasks, under the fairness of the threads.
CONSTANTS
  Workers = {w1, w2}
  main = main
  RadixBits = 1
  RadixPasses = 2
  Inputs <- SomeInputs
  NoTask = NoTask
SPECIFICATION FairSpec
INVARIANTS
  NoTaskTwice
  ResultsComplete
  StopAfterLastEnqueue
  DataRaceFree
PROPERTIES
  ImplementsPartitionedJoin
  ExecuteReturns
