SPECIFICATION Spec
CONSTANTS
  Size = 2
  Modulus = 6
  Countdown = 5
  SnapshotCap = 2
  Backends = {"hw", "pio"}
  MaxBytes = 8
  MaxApplies = 1
INVARIANTS
  SnapshotIntact
  LossCounted
  ProgressAccountsForBytes
PROPERTIES
  ImplementsStream
CHECK_DEADLOCK FALSE
