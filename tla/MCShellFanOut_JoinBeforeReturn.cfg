CONSTANTS
  n1 = n1
  n2 = n2
  n3 = n3
  Lit = Lit
  IPH = IPH
  NoErr = NoErr
  TmplErr = TmplErr
  Node <- MCNode
  Templates <- MCTemplates
SPECIFICATION Spec
\* After helperShell returns the model stops; Termination checks that it
\* gets there.
CHECK_DEADLOCK FALSE
INVARIANTS
  JoinBeforeReturn
