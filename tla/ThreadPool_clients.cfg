\* Three workers, so that a notification can reach the wrong one; two threads that
\* enqueue, besides the tasks themselves; under the fairness of the threads.
CONSTANTS
  Workers = {w1, w2, w3}
  Clients = {main, helper}
  Owner = main
  Tasks = {t1, t2, t3, t4}
  NoTask = NoTask
SPECIFICATION FairSpec
INVARIANTS
  TypeOK
  NoLostWakeup
  ExactlyOnce
  NobodySleepsInFinish
  FinishDrains
PROPERTIES
  ImplementsWorkQueue
  EveryTaskRuns
  FinishReturns
