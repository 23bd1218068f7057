\* The comment on the condition variable of task_context.
CONSTANTS
  Workers = {w1, w2}
  main = main
  RadixBits = 1
  RadixPasses = 1
  Inputs <- AllInputs
  NoTask = NoTask
SPECIFICATION Spec
INVARIANT FinishedAfterJoins
