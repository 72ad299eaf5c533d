SPECIFICATION MCSpec
CONSTANTS
  Document <- Documents
  Relationship <- Types
  Default <- Followed
  Graphs <- SmallGraphs
  MaxDepth = 2
  MaxSeeds = 2
  MaxResults = 3
  MaxTypes = 2
  Text <- Texts
  Nfkc <- Nfkcs
  Fold <- Folds
  Words <- WordSeqs
  Part <- Parts
  Decimal <- Decimals
  FilterKey <- Keys
  ScopeWords <- Scopes
  EventPhrase <- EventWords
  EventType = 13
  MaxTerms = 3
  MaxFilters = 1
  Builder = {b1, b2}
  Bundle <- Bundles
  Query <- Queries
  MaxLimit = 3
  MaxTrouble = 1
INVARIANTS
  ExpansionSound
  ServesExpected
  ExactAgreement
  FiltersHold
  BrowsingAgrees
PROPERTIES
  GoodIndexKept
