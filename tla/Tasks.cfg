SPECIFICATION Spec
CONSTANTS
  MAX_TASKS = 4
  Thread = {Boot, t1, t2, t3, t4}
  Boot = Boot
  Frame = {f1, f2, f3}
  NULL = NULL
  MayReturn = TRUE
INVARIANTS
  TypeOK
  NoThreadTwice
  BoundedWait
  StacksPrivate
PROPERTY EveryThreadRuns
