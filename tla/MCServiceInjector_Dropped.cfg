CONSTANTS
  u1 = u1
  u2 = u2
  m1 = m1
  NoChart = NoChart
  NoErr = NoErr
  ErrNoServerPort = ErrNoServerPort
  ExtErr = ExtErr
  URLs <- MCURLs
  Files <- MCFiles
  MaxServices = 2
  MaxImages = 1
SPECIFICATION Spec
\* PluginMain stops once it has returned.
CHECK_DEADLOCK FALSE
INVARIANTS
  NothingDroppedOnSuccess
