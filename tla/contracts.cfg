CONSTANTS
  Char <- Hyphened
  MaxChars = 2
  MaxTokens = 2
  Cores <- TwoCores
  MaxInt = 99
  File <- Files
  Start <- First1
  Registry <- Registries
  Mapping <- Migrated
  Case <- Cases
  None = None
  MaxFiles = 5
SPECIFICATION MCSpec
INVARIANTS
  PrecedenceIsSemVer
  OneClaimPerFact
  AliasResolvesOne
  OldIdsLead
  NoContainmentCycle
PROPERTIES
  ClaimsKeepMeaning
