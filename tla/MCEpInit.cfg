CONSTANTS
  NoErr = NoErr
  ErrLoad = ErrLoad
  ErrCustomCfg = ErrCustomCfg
  ErrParameter = ErrParameter
  ErrNotExist = ErrNotExist
  ExtErr = ExtErr
SPECIFICATION Spec
\* ep_init returns (or panics) and the process ends.
CHECK_DEADLOCK FALSE
INVARIANTS
  TypeOK
  TeardownIffPreInit
  SuccessMeansInitialised
