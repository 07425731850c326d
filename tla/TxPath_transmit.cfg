SPECIFICATION FairSpec
CONSTANTS
  Formats <- MCFormats
  Budget <- MCBudget
  Backends = {"hw", "pio"}
  Size = 2
  Depth = 2
  Threshold = 2
  MaxBytes = 4
  MaxChanges = 1
  MaxRestarts = 1
INVARIANTS
  ProbeHonest
  BacklogBounded
  TxNeverBlocks
PROPERTIES
  ImplementsTxStream
  Drains
  FormatSettles
