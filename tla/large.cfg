SPECIFICATION Spec
CONSTANTS
  Generation = {g1, g2}
  Sizes <- Sized
  MaxResponse = 2
  Capacity = 2
  MaxQueue = 1
  None = None
INVARIANTS
  LegalResponsePasses
