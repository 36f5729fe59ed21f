CONSTANTS
  d0 = d0
  w1 = w1
  w2 = w2
  NoErr = NoErr
  TmplErr = TmplErr
  CopyErr = CopyErr
  Node <- MCNode
  Day0 = d0
  Chunks <- MCChunks
  \* The transport reads a command's stdin to end-of-file before returning.
  ConsumerMayAbort = FALSE
SPECIFICATION Spec
\* The copy stops once it has returned; the fairness of CopyRefinement
\* checks that it does.
CHECK_DEADLOCK FALSE
INVARIANTS
  TypeOK
  WaitJoinsAllTasks
  SuccessImpliesCompleteCopy
PROPERTIES
  CopyRefinement
