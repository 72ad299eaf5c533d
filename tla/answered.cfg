CONSTANTS
  p1 = p1
  p2 = p2
  a1 = a1
  a2 = a2
  a2x = a2x
  b1 = b1
  None = None
  Proc = {p1, p2}
  Pack = {a1, a2}
  PackIdOf <- OneId
  VersionOf <- Ranks
  Bundle = a1
  Clock = {1}
  LateSync = TRUE
  MaxWriteFaults = 1
  MaxHealthFaults = 1
  MaxKills = 1
  MaxDeposits = 1
SPECIFICATION FairSpec
PROPERTIES
  Answered
