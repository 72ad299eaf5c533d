CONSTANTS
  p1 = p1
  p2 = p2
  a1 = a1
  a2 = a2
  a2x = a2x
  b1 = b1
  None = None
  Proc = {p1}
  Pack = {a1, a2, a2x}
  PackIdOf <- OneId
  VersionOf <- Ranks
  Bundle = a1
  Clock = {1, 2}
  LateSync = TRUE
  MaxWriteFaults = 0
  MaxHealthFaults = 2
  MaxKills = 2
  MaxDeposits = 3
SPECIFICATION Spec
INVARIANTS
  AgreementAtRest
