SPECIFICATION FilterSpec
CONSTANTS
  Bits = {0, 1}
  Mask = {0}
  NumSlots = 2
  MaxKicks = 3
  Fingerprints <- MCFingerprints
  None = None
INVARIANTS NoFalseNegative PositiveIsInserted
