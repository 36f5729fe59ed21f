CONSTANTS
  d0 = d0
  w1 = w1
  Node <- MCNode
  Day0 = d0
  MaxArgs = 3
  Images = 2
  NoErr = NoErr
  PolicyErr = PolicyErr
  CmdErr = CmdErr
  TmplErr = TmplErr
  ExtErr = ExtErr
  CopyErr = CopyErr
  ParmErr = ParmErr
  Panic = Panic
SPECIFICATION Spec
\* Each helper is one call that stops when it returns.
CHECK_DEADLOCK FALSE
INVARIANTS
  NoPanic
