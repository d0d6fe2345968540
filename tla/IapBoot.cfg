SPECIFICATION Spec
CONSTANTS
  Images = {i1, i2}
  Size = 4
  Page = 2
  FirstLen = 1
  NextLen = 2
  MaxTroubles = 2
SYMMETRY Symmetry
INVARIANTS
  ErasedAhead
  DeliveredIsWritten
PROPERTIES
  SlotSpec
