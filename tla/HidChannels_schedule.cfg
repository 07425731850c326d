SPECIFICATION Spec
CONSTANTS
  Counters = {"uart"}
  N = 3
  Interval = 1
  FaultInterval = 2
  RawModulus = 2
  SeqModulus = 2
  ClockModulus = 9
  CounterMax = 1
  PollGap = 2
  Busy = {0}
  MaxBytes = 1
  MaxOverruns = 1
INVARIANTS
  SampledInTime
  TurnTaking
