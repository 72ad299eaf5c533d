SPECIFICATION FairSpec
CONSTANTS
  Generation = {g1, g2}
  Sizes <- Sized
  MaxResponse = 2
  Capacity = 2
  MaxQueue = 2
  None = None
INVARIANTS
  ConfirmedPanel
PROPERTIES
  SuccessIsDone
  CommandsAnswered
