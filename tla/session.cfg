SPECIFICATION FairSpec
CONSTANTS
  Operation <- OneOperation
  Sizes <- ResultSizes
  MaxResponse = 2
  Capacity = 1
  MaxFrames = 3
  None = None
INVARIANTS
  TypeOK
  AnswersInOrder
  SessionProtocol
  CleanOutput
PROPERTIES
  SessionCompletes
