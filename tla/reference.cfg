CONSTANTS
  p1 = p1
  p2 = p2
  Proc = {p1, p2}
  Archive <- Offers
  Content <- Offered
  PackId = {"pack"}
  Clock = {1, 2}
  MaxFaults = 2
  Component <- Names
  Fold <- Lower
  BadComponent <- Reserved
  ActiveName <- Scripts
  CaseInsensitive = FALSE
  MaxEntries = 12
  MaxFile = 4
  MaxTotal = 20
  MaxRatio = 2
  CurrentRuntime = 1
  Source <- Sources
  Overridable <- Overrides
  RequiredIds <- Demanded
  SecurityEvent <- Security
  MaxChanges = 1
  MaxBuildKills = 1
SPECIFICATION MCSpec
SYMMETRY Symmetry
INVARIANTS
  LockDiscipline
  PointersSound
  InstalledIsSigned
  TrustAnchored
  PublishedInstalls
PROPERTIES
  TrustMonotone
  PreviewNeverRefused
