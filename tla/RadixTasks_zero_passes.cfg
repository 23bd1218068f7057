\* No pass at all, which the code does not refuse: the first join task counts as
\* the last one, and the pool is stopped while tasks still schedule tasks.
CONSTANTS
  Workers = {w1, w2}
  main = main
  RadixBits = 1
  RadixPasses = 0
  Inputs <- SomeInputs
  NoTask = NoTask
SPECIFICATION FairSpec
INVARIANTS
  AcceptedJoined
  DataRaceFree
PROPERTIES
  ExecuteReturns
