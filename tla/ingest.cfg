SPECIFICATION Spec
CONSTANTS
  Number <- Numbers
  Digits <- Decs
  Shaped <- Shapes
  MaxManifests = 2
  MaxEvents = 2
  MaxFields = 2
  MaxEdges = 3
  Lower <- Lowers
  Decimal <- Spelt
  TextOrder <- InText
  Docs <- Documents
  Successor <- Releases
  Profiles <- Pinnings
  Promoted <- Sources
  Targets = {"main"}
  Required = {"main"}
  HighRisk = {"attack"}
  Explained = {"defenseops"}
  Licensed = {"attack", "defenseops", "provider"}
  Panels <- Actors
  MaxShrink = 20
  MaxGrowth = 100
  MaxAcquisitions = 2
  MaxBuilds = 2
INVARIANTS
  ReadyIsReviewed
  PublishedTraces
  NormalizationFaithful
  SpellingsDoNotMatter
PROPERTIES
  NoSilentShrink
CHECK_DEADLOCK FALSE
