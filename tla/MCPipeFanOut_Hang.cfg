CONSTANTS
  d0 = d0
  w1 = w1
  w2 = w2
  NoErr = NoErr
  TmplErr = TmplErr
  CopyErr = CopyErr
  Node <- MCNode
  Day0 = d0
  Chunks <- MCChunks
  \* The transport may return from a command before its stdin is at end-of-file.
  ConsumerMayAbort = TRUE
SPECIFICATION Spec
\* The copy stops once it has returned; Termination checks that it does.
CHECK_DEADLOCK FALSE
PROPERTIES
  Termination
