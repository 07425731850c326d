SPECIFICATION Spec
CONSTANTS
  Stale = 3
  Timeout = 4
  WorkerGap = 2
  PollGap = 2
  ClockModulus = 19
  BeatModulus = 3
INVARIANTS
  FedWhileBothRun
  HangEndsInTime
