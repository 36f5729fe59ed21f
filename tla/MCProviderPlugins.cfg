CONSTANTS
  b1 = b1
  b2 = b2
  i1 = i1
  i2 = i2
  Kubeadm = Kubeadm
  Rke = Rke
  RkeTool = RkeTool
  Other = Other
  Metal3 = Metal3
  Byoh = Byoh
  NoErr = NoErr
  NotFound = NotFound
  ExtErr = ExtErr
  Bins <- MCBins
  SystemImages <- MCSystemImages
  InfraProviderList <- MCInfraProviderList
  Extension <- MCExtension
  MaxEntries = 2
  MaxFiles = 2
  MaxExt = 2
SPECIFICATION Spec
\* A plugin call ends when PluginMain returns.
CHECK_DEADLOCK FALSE
INVARIANTS
  TypeOK
  ProvisionsOnlyUnambiguous
