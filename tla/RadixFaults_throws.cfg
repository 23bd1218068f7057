\* Up to two tasks throw, in a join of two threads and two passes.
CONSTANTS
  Workers = {w1, w2}
  main = main
  RadixBits = 1
  RadixPasses = 2
  Inputs <- Filled
  NoTask = NoTask
  MaxThrows = 2
SPECIFICATION FaultSpec
INVARIANTS
  BuffersAccounted
  LossesAccounted
PROPERTIES
  FaultsDoNotBlock
