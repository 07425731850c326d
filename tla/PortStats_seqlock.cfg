SPECIFICATION Spec
CONSTANTS
  Fields = {overflow, rxBytes, txBytes}
  Attempts = 3
  MaxSeq = 5
INVARIANTS
  SampleCoherent
